--------------------------- MODULE MCLiveOperator ---------------------------
(***************************************************************************)
(* Values for StatusCommand and LiveOperator: a string of each class the   *)
(* code tells apart, ages below, at and beyond five minutes and of a clock *)
(* set back, and one output for each check of _classify.                   *)
(***************************************************************************)
EXTENDS LiveOperator

MCEnvironments == {None, "key", " key", " ", "two lines"}
MCRunnerValues == {"/codex", "C:/codex", "//host/share", "codex", " codex", "--stdio", "--json"}
MCInstants == {-1, 300, 301}

RawWindow(duration) == [duration |-> duration, used |-> 40, reset |-> None]
Payload(bucket, primary, secondary) ==
  [bucket |-> bucket, plan |-> "plus", primary |-> primary, secondary |-> secondary,
   credits |-> None]
MCPayloads ==
  {Payload("codex", RawWindow(300), RawWindow(10080)), Payload("codex", RawWindow(300), NotObject),
   Payload("codex", RawWindow(300), RawWindow(Unhashable)), Payload("other", None, None)}

Usage(period, limited) == [period |-> period, limited |-> limited, percent |-> 100, reset |-> 7]
MCOpenCodeUsages ==
  {<<Usage("weekly", FALSE)>>,
   <<Usage("five_hour", TRUE), Usage("weekly", FALSE), Usage("monthly", FALSE)>>}

WindowOut == [kind |-> "COMMERCIAL_QUOTA", scope |-> "account", period |-> "weekly", remaining |-> 0]
SnapshotOut ==
  [version |-> 1, body |-> "snapshot", provider |-> "opencode-go", freshness |-> "fresh",
   windows |-> <<WindowOut>>]
ErrorOut ==
  [version |-> 1, body |-> "error", provider |-> "opencode-go", error |-> "TRANSPORT",
   message |-> "source", retryable |-> TRUE, exact |-> TRUE, typed |-> TRUE]
MCForeignOutputs ==
  {None, SnapshotOut, ErrorOut, [SnapshotOut EXCEPT !.version = 2],
   [SnapshotOut EXCEPT !.provider = "codex"], [SnapshotOut EXCEPT !.windows = <<>>],
   [SnapshotOut EXCEPT !.freshness = "stale"],
   [SnapshotOut EXCEPT !.windows = <<WindowOut, [WindowOut EXCEPT !.scope = ""]>>],
   [ErrorOut EXCEPT !.exact = FALSE], [ErrorOut EXCEPT !.typed = FALSE],
   [ErrorOut EXCEPT !.error = "FILE_MISSING"], [ErrorOut EXCEPT !.provider = "codex"]}
=============================================================================
