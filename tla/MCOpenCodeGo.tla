---------------------------- MODULE MCOpenCodeGo ----------------------------
(***************************************************************************)
(* Values for OpenCodeGo: one status of each class the code tells apart, a *)
(* limit of three that chunks of one and two bytes reach, miss or step     *)
(* over, and declared lengths on both sides of it.                         *)
(***************************************************************************)
EXTENDS OpenCodeGo

MCStatuses == {101, 200, 204, 302, 401, 404, 429, 503}
MCLengths == {NoLength, OddLength, 0, 2, 3}
UsageBodies == [text : {"usage"}, windows : Usages]
NoUsageBodies == [text : Texts, windows : {NoWindows}]
MCContents == UsageBodies \union NoUsageBodies
MCReadable == {c \in MCContents : c.text # "unreadable"}
=============================================================================
