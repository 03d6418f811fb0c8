---------------------------- MODULE PublishState ---------------------------
(***************************************************************************)
(* What the page says of a write, of the publish and of the draft          *)
(* (publish-state.js, publish.js's button, app.js's lines), as what each    *)
(* wording claims: pure, and asked afresh at every paint.                  *)
(***************************************************************************)
EXTENDS Naturals

\* FROM_ROW_STATE: the SDK's word for a record, as a state of this vocabulary.  An
\* SDK may have grown one more ("NEW"), and "UNKNOWN" is not translated.
RowCodes == {"CLEAN", "QUEUED", "PENDING", "ROLLED_BACK", "BACKED_UP", "UNKNOWN", "NEW", "none"}

FromRowState(code) ==
  CASE code = "CLEAN" -> "published"        [] code = "QUEUED" -> "busy"
    [] code = "PENDING" -> "accepted"       [] code = "ROLLED_BACK" -> "lost"
    [] code = "BACKED_UP" -> "parity-complete" [] OTHER -> code

\* Before the publish every row is in this tab only, whatever its record claims.
rowState(phase, code) ==
  IF phase # "published" \/ code = "none" THEN "in-memory" ELSE FromRowState(code)

\* The tone of a state; one this build does not know is shown as itself.
tone(state) ==
  CASE state \in {"published", "parity-complete"} -> "ok"
    [] state \in {"accepted", "busy"} -> "working"
    [] state \in {"in-memory", "conflict", "lost"} -> "warn"
    [] state = "failed" -> "bad"
    [] OTHER -> "unknown"

\* Is the data safe if the tab closes now?
durable(state) == state \in {"published", "parity-complete"}

\* buttonFor: can Publish be pressed, and what does it claim?
buttonFor(phase, changed, republishing) ==
  CASE phase = "idle"   -> [says |-> "Publish", enabled |-> TRUE]
    [] phase = "failed" -> [says |-> "TryAgain", enabled |-> TRUE]
    [] phase = "published" /\ republishing -> [says |-> "Publishing", enabled |-> FALSE]
    [] phase = "published" /\ ~republishing /\ changed -> [says |-> "PublishChanges", enabled |-> TRUE]
    [] phase = "published" /\ ~republishing /\ ~changed -> [says |-> "Published", enabled |-> FALSE]
    [] OTHER -> [says |-> "working", enabled |-> FALSE]

\* renderSaveState's line.
saveLine(draft, saving) ==
  IF ~draft.loaded THEN "opening" ELSE IF draft.error THEN "unsaved"
  ELSE IF draft.pending /\ ~draft.attached THEN "waiting"
  ELSE IF saving > 0 THEN "saving" ELSE IF draft.watchError THEN "stale" ELSE "none"

\* renderAddr's note.
addrNote(phase, published) ==
  IF phase = "published" THEN "none" ELSE IF ~published THEN "unpublished"
  ELSE IF phase = "failed" THEN "disconnected" ELSE "connecting"
=============================================================================
