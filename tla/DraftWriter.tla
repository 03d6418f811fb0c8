---------------------------- MODULE DraftWriter ----------------------------
(***************************************************************************)
(* The draft of one project, kept as records in its owner's tree, and the  *)
(* tabs of one identity that edit it (definition.js, draftWriter; the part *)
(* of project-runtime.js that attaches it, watches the draft and rebases). *)
(*                                                                         *)
(* A body is the number of the edit that wrote it; Absent is a key with no *)
(* record.  The canvas stands for both `app` and `want = recordsOf(app)`:  *)
(* every edit of the page ends in a sync, so the two never differ.         *)
(***************************************************************************)
EXTENDS Naturals, FiniteSets

CONSTANTS
  Tabs,         \* the tabs and devices of one identity that may open the project
  Fresh,        \* the tabs in which the project is being made
  Components,   \* the c/<key> records' keys
  Schemas,      \* the d/<domain> keys, whose schema object the page edits in place
  Meta,         \* {the meta record's key}, or {} to leave it out
  MaxEdits,     \* bound on the edits made in a behaviour
  Stamps,       \* may the page stamp the meta when it takes a handed-over draft?
  Refusals,     \* may the doors refuse a write, or a re-read of the draft fail?
  InOrder       \* does a tab hear its writes' answers and its re-reads as they happened?

Keys == Components \cup Schemas \cup Meta

ASSUME ConstantsOK ==
  /\ Fresh \subseteq Tabs
  /\ Keys # {}
  /\ Components \cap Schemas = {}
  /\ Meta \cap (Components \cup Schemas) = {}
  /\ MaxEdits \in Nat \ {0}
  /\ Stamps \in BOOLEAN
  /\ Refusals \in BOOLEAN
  /\ InOrder \in BOOLEAN

VARIABLES
  tree,       \* the draft as the owner's tree holds it
  phase,      \* how far each tab's project is open
  fresh,      \* was the project made in this tab, its canvas being its definition?
  canvas,     \* what each tab's person sees, and what its draft must become
  said,       \* has the writer been told the canvas (`want` is not null)?
  base,       \* what the draft holds, as far as each writer knows
  shared,     \* keys whose base body holds the canvas's own schema object
  pass,       \* the write pass: idle, its write sent or landed, or ending
  flight,     \* the write of the pass: its key, its body, the object it shares
  error,      \* was the last write of the tab refused?
  told,       \* a head move the tab's watch has not re-read yet
  reading,    \* a re-read of the draft on its way to the tab
  rows,       \* what that re-read saw
  watchError, \* did the last re-read fail?
  edits,      \* how many edits were made
  born,       \* component keys ever minted: none is minted twice
  mine,       \* history: the last body this tab's page gave each key
  missed      \* history: a head move that came before the tab's watch did

writerVars == <<canvas, said, base, shared, pass, flight, error>>
watchVars  == <<told, reading, rows, watchError>>
vars == <<tree, phase, fresh, writerVars, watchVars, edits, born, mine, missed>>

Absent == 0
Body   == 0 .. MaxEdits
Never  == MaxEdits + 1      \* no edit of this key by this tab
Draft  == [Keys -> Body]
Empty  == [k \in Keys |-> Absent]

\* A write of the pass: only a schema's body is an object the canvas edits in place.
Flight == {f \in [key : Keys, body : Body, shared : BOOLEAN] : f.shared => f.key \in Schemas}

TypeOK ==
  /\ tree \in Draft
  /\ phase \in [Tabs -> {"opening", "attached", "watching", "closed"}]
  /\ fresh \in [Tabs -> BOOLEAN]
  /\ canvas \in [Tabs -> Draft]
  /\ said \in [Tabs -> BOOLEAN]
  /\ base \in [Tabs -> Draft]
  /\ shared \in [Tabs -> SUBSET Schemas]
  /\ pass \in [Tabs -> {"idle", "sent", "landed", "ending"}]
  /\ flight \in [Tabs -> Flight]
  /\ error \in [Tabs -> BOOLEAN]
  /\ told \in [Tabs -> BOOLEAN]
  /\ reading \in [Tabs -> BOOLEAN]
  /\ rows \in [Tabs -> Draft]
  /\ watchError \in [Tabs -> BOOLEAN]
  /\ edits \in Body
  /\ born \in SUBSET Keys
  /\ mine \in [Tabs -> [Keys -> Body \cup {Never}]]
  /\ missed \in [Tabs -> BOOLEAN]

-----------------------------------------------------------------------------
(* The difference between what the draft holds and what the canvas says.   *)

Puts(from, to) == {k \in Keys : to[k] # Absent /\ to[k] # from[k]}
Dels(from, to) == {k \in Keys : to[k] = Absent /\ from[k] # Absent}
Diff(from, to) == Puts(from, to) \cup Dels(from, to)

\* Mutant of NextKeys: a delete is never written.
NextKeys_NoDeletes(from, to) == Puts(from, to)

\* Every put comes before the first delete.
NextKeys(from, to) ==
  IF Puts(from, to) # {} THEN Puts(from, to) ELSE Dels(from, to)

Attached(t) == phase[t] \in {"attached", "watching"}

\* What the writer counts as not in the tree yet.
Held(t) == IF said[t] /\ Attached(t) THEN Diff(base[t], canvas[t]) ELSE {}

\* One turn of the pass's loop, from base b and canvas w: the next write is
\* sent, or there is none and the pass returns.
Continue(t, b, w) ==
  \/ /\ NextKeys(b, w) = {}
     /\ pass' = [pass EXCEPT ![t] = "ending"]
     /\ UNCHANGED flight
  \/ \E k \in NextKeys(b, w) :
       /\ pass' = [pass EXCEPT ![t] = "sent"]
       /\ flight' = [flight EXCEPT ![t] =
                       [key |-> k, body |-> w[k], shared |-> k \in Schemas]]

\* A pass is started unless one is running, which includes one that has
\* returned and whose end has not been noted.
Kick(t, b, w) ==
  IF pass[t] = "idle" THEN Continue(t, b, w) ELSE UNCHANGED <<pass, flight>>

-----------------------------------------------------------------------------
(* The person, and the page, on one tab.                                   *)

\* May the page change the canvas?  A draft still being read refuses.
Editable(t) == Attached(t) \/ (phase[t] = "opening" /\ fresh[t])

\* What an edit of key k may leave there.  Only a component is removed, and its
\* key, random, is minted once.
NewBodies(t, k) ==
  {v \in {edits + 1, Absent} :
     IF canvas[t][k] = Absent
       THEN v # Absent /\ (k \in Components => k \notin born)
       ELSE v = Absent => k \in Components}

\* The canvas after key k is given body v: the meta's order names each component.
Edited(t, k, v) ==
  [j \in Keys |->
     IF j = k THEN v
     ELSE IF j \in Meta /\ k \in Components /\ Absent \in {v, canvas[t][k]} THEN edits + 1
     ELSE canvas[t][j]]

\* An edit of the canvas and the sync that follows it.  A schema is edited in
\* place, so a base body that holds the same object changes with it.
Edit(t, k) ==
  /\ Editable(t)
  /\ pass[t] # "ending"
  /\ edits < MaxEdits
  /\ \E v \in NewBodies(t, k) :
       LET w == Edited(t, k, v)
           b == IF k \in shared[t] THEN [base[t] EXCEPT ![k] = v] ELSE base[t]
       IN  /\ canvas' = [canvas EXCEPT ![t] = w]
           /\ base' = [base EXCEPT ![t] = b]
           /\ mine' = [mine EXCEPT ![t] =
                         [j \in Keys |-> IF j = k \/ w[j] # canvas[t][j] THEN w[j] ELSE @[j]]]
           /\ IF Attached(t) THEN Kick(t, b, w) ELSE UNCHANGED <<pass, flight>>
  /\ said' = [said EXCEPT ![t] = TRUE]
  /\ edits' = edits + 1
  /\ born' = born \cup {k}
  /\ UNCHANGED <<tree, phase, fresh, shared, error, watchVars, missed>>

\* The Retry button of the unsaved line: the canvas as it is, synced again.
Retry(t) ==
  /\ Attached(t)
  /\ error[t] /\ pass[t] = "idle"
  /\ Kick(t, base[t], canvas[t])
  /\ UNCHANGED <<tree, phase, fresh, canvas, said, base, shared, error, watchVars,
                 edits, born, mine, missed>>

\* The owner's tree is open: the draft is read.  A canvas made here is kept and
\* written; any other takes what the draft holds, the same objects as the base.
Attach(t) ==
  /\ phase[t] = "opening"
  /\ phase' = [phase EXCEPT ![t] = "attached"]
  /\ base' = [base EXCEPT ![t] = tree]
  /\ IF fresh[t]
       THEN /\ Kick(t, tree, canvas[t])
            /\ UNCHANGED <<canvas, shared>>
       ELSE /\ canvas' = [canvas EXCEPT ![t] = tree]
            /\ shared' = [shared EXCEPT ![t] = {k \in Schemas : tree[k] # Absent}]
            /\ UNCHANGED <<pass, flight>>
  /\ UNCHANGED <<tree, fresh, said, error, watchVars, edits, born, mine, missed>>

\* The watch of the draft is registered once the pass the attach began is over.
Watch(t) ==
  /\ phase[t] = "attached"
  /\ pass[t] = "idle"
  /\ phase' = [phase EXCEPT ![t] = "watching"]
  /\ UNCHANGED <<tree, fresh, writerVars, watchVars, edits, born, mine, missed>>

\* The project is closed: its watch stops and its writer writes no more.
Dispose(t) ==
  /\ phase[t] # "closed"
  /\ phase' = [phase EXCEPT ![t] = "closed"]
  /\ told' = [told EXCEPT ![t] = FALSE]
  /\ reading' = [reading EXCEPT ![t] = FALSE]
  /\ UNCHANGED <<tree, fresh, writerVars, rows, watchError, edits, born, mine, missed>>

\* The project is opened again in this tab, with a new writer.
Reopen(t) ==
  /\ phase[t] = "closed"
  /\ pass[t] = "idle"
  /\ phase' = [phase EXCEPT ![t] = "opening"]
  /\ fresh' = [fresh EXCEPT ![t] = FALSE]
  /\ canvas' = [canvas EXCEPT ![t] = Empty]
  /\ said' = [said EXCEPT ![t] = FALSE]
  /\ base' = [base EXCEPT ![t] = Empty]
  /\ shared' = [shared EXCEPT ![t] = {}]
  /\ error' = [error EXCEPT ![t] = FALSE]
  /\ watchError' = [watchError EXCEPT ![t] = FALSE]
  /\ mine' = [mine EXCEPT ![t] = [k \in Keys |-> Never]]
  /\ missed' = [missed EXCEPT ![t] = FALSE]
  /\ UNCHANGED <<tree, pass, flight, told, reading, rows, edits, born>>

-----------------------------------------------------------------------------
(* The write pass and the doors.                                           *)

\* The write takes its place among those of every tab: the head moves, each
\* watch is told, and a tab that has read but does not watch yet misses it.
Land(t) ==
  /\ pass[t] = "sent"
  /\ InOrder => ~reading[t]
  /\ pass' = [pass EXCEPT ![t] = "landed"]
  /\ tree' = [tree EXCEPT ![flight[t].key] = flight[t].body]
  /\ told' = [u \in Tabs |-> told[u] \/ phase[u] = "watching"]
  /\ missed' = [u \in Tabs |-> missed[u] \/ (u # t /\ phase[u] = "attached")]
  /\ UNCHANGED <<phase, fresh, canvas, said, base, shared, flight, error, reading,
                 rows, watchError, edits, born, mine>>

\* Mutants of Answered: the canvas's body is taken for the one that was sent; the
\* key and the body are swapped.
Answered_AsShown(t) ==
  [base[t] EXCEPT ![flight[t].key] = canvas[t][flight[t].key]]
Answered_Swapped(t) ==
  [base[t] EXCEPT ![flight[t].key] = flight[t].key]

\* The base after the write of key k is answered: the body that was sent, and
\* a schema sent is the object the canvas edits, as it now is.
Answered(t) ==
  LET k == flight[t].key
  IN  [base[t] EXCEPT ![k] = IF flight[t].shared THEN canvas[t][k] ELSE flight[t].body]

\* The door answers: the base follows, and the pass goes on with the canvas as
\* it now is.  A writer disposed meanwhile leaves everything alone.
Answer(t) ==
  /\ pass[t] = "landed"
  /\ IF Attached(t)
       THEN /\ base' = [base EXCEPT ![t] = Answered(t)]
            /\ shared' = IF flight[t].shared
                           THEN [shared EXCEPT ![t] = @ \cup {flight[t].key}] ELSE shared
            /\ error' = [error EXCEPT ![t] = FALSE]
            /\ Continue(t, Answered(t), canvas[t])
       ELSE /\ pass' = [pass EXCEPT ![t] = "ending"]
            /\ UNCHANGED <<base, shared, error, flight>>
  /\ UNCHANGED <<tree, phase, fresh, canvas, said, watchVars, edits, born, mine, missed>>

\* The door refuses: the pass ends with the reason.
Refuse(t) ==
  /\ Refusals
  /\ pass[t] = "sent"
  /\ pass' = [pass EXCEPT ![t] = "ending"]
  /\ error' = [error EXCEPT ![t] = TRUE]
  /\ UNCHANGED <<tree, phase, fresh, canvas, said, base, shared, flight, watchVars,
                 edits, born, mine, missed>>

\* The pass's end is noted (`running = null`), some microtasks after it returned.
EndPass(t) ==
  /\ pass[t] = "ending"
  /\ pass' = [pass EXCEPT ![t] = "idle"]
  /\ UNCHANGED <<tree, phase, fresh, canvas, said, base, shared, flight, error,
                 watchVars, edits, born, mine, missed>>

-----------------------------------------------------------------------------
(* The watch.                                                              *)

Reread(t) ==
  /\ told[t]
  /\ ~reading[t]
  /\ InOrder => pass[t] # "landed"
  /\ told' = [told EXCEPT ![t] = FALSE]
  /\ missed' = [missed EXCEPT ![t] = FALSE]
  /\ \/ /\ reading' = [reading EXCEPT ![t] = TRUE]
        /\ rows' = [rows EXCEPT ![t] = tree]
        /\ UNCHANGED watchError
     \/ /\ Refusals
        /\ watchError' = [watchError EXCEPT ![t] = TRUE]
        /\ UNCHANGED <<reading, rows>>
  /\ UNCHANGED <<tree, phase, fresh, writerVars, edits, born, mine>>

\* Mutant of Merged: the canvas keeps every key once it was synced.
Merged_CanvasWins(t) ==
  [k \in Keys |-> IF said[t] THEN canvas[t][k] ELSE rows[t][k]]

\* The draft the tab shows next: the tree's, but for the keys it holds.
Merged(t) ==
  [k \in Keys |-> IF k \in Held(t) THEN canvas[t][k] ELSE rows[t][k]]

\* The re-read is handed over and the writer rebased.  If that moves the canvas
\* it takes the merged draft's objects, and the page may stamp the meta in the
\* same turn, when the pass this rebase began is already running.
Deliver(t) ==
  /\ reading[t]
  /\ reading' = [reading EXCEPT ![t] = FALSE]
  /\ watchError' = [watchError EXCEPT ![t] = FALSE]
  /\ base' = [base EXCEPT ![t] = rows[t]]
  /\ said' = [said EXCEPT ![t] = TRUE]
  /\ LET moved == Merged(t) # canvas[t]
     IN  /\ shared' = [shared EXCEPT ![t] =
                         {k \in Schemas : moved /\ k \notin Held(t) /\ rows[t][k] # Absent}]
         /\ IF pass[t] = "idle"
              THEN Continue(t, rows[t], Merged(t))
              ELSE /\ UNCHANGED pass
                   /\ flight' = [flight EXCEPT ![t].shared =
                                   @ /\ (moved => flight[t].key \in Held(t))]
         /\ \/ /\ canvas' = [canvas EXCEPT ![t] = Merged(t)]
               /\ UNCHANGED <<edits, mine>>
            \/ /\ Stamps /\ moved
               /\ edits < MaxEdits
               /\ edits' = edits + 1
               /\ \E k \in Meta \ Held(t) :
                    /\ canvas' = [canvas EXCEPT ![t] = [Merged(t) EXCEPT ![k] = edits + 1]]
                    /\ mine' = [mine EXCEPT ![t][k] = edits + 1]
  /\ UNCHANGED <<tree, phase, fresh, error, told, rows, born, missed>>

-----------------------------------------------------------------------------
Init ==
  /\ tree \in IF Fresh = {} THEN [Keys -> {Absent, 1}] ELSE {Empty}
  /\ phase = [t \in Tabs |-> "opening"]
  /\ fresh = [t \in Tabs |-> t \in Fresh]
  /\ canvas = [t \in Tabs |-> Empty]
  /\ said = [t \in Tabs |-> t \in Fresh]
  /\ base = [t \in Tabs |-> Empty]
  /\ shared = [t \in Tabs |-> {}]
  /\ pass = [t \in Tabs |-> "idle"]
  /\ flight = [t \in Tabs |-> [key |-> CHOOSE k \in Keys : TRUE, body |-> Absent, shared |-> FALSE]]
  /\ error = [t \in Tabs |-> FALSE]
  /\ told = [t \in Tabs |-> FALSE]
  /\ reading = [t \in Tabs |-> FALSE]
  /\ rows = [t \in Tabs |-> Empty]
  /\ watchError = [t \in Tabs |-> FALSE]
  /\ edits = 1
  /\ born = {k \in Keys : tree[k] # Absent}
  /\ mine = [t \in Tabs |-> [k \in Keys |-> Never]]
  /\ missed = [t \in Tabs |-> FALSE]

Next ==
  \E t \in Tabs :
    \/ \E k \in Keys : Edit(t, k)
    \/ Retry(t) \/ Attach(t) \/ Watch(t) \/ Dispose(t) \/ Reopen(t)
    \/ Land(t) \/ Answer(t) \/ Refuse(t) \/ EndPass(t)
    \/ Reread(t) \/ Deliver(t)

Spec == Init /\ [][Next]_vars

\* The program's own continuations and the SDK's answers come; people edit,
\* open and close, and doors refuse, only as they like.
Fairness ==
  \A t \in Tabs :
    /\ WF_vars(Attach(t)) /\ WF_vars(Watch(t))
    /\ WF_vars(Land(t)) /\ WF_vars(Answer(t)) /\ WF_vars(EndPass(t))
    /\ WF_vars(Reread(t)) /\ WF_vars(Deliver(t))

FairSpec == Spec /\ Fairness

-----------------------------------------------------------------------------
(* What the draft writer promises.                                         *)

\* Whatever a tab holds to write is the last edit its own person made of that
\* record: no stale copy of another tab's is ever written back, and no record
\* is deleted that this tab's person did not remove (`rebase` and `attach`).  The
\* tab a project was made in is excepted: its canvas is its definition, whatever
\* others wrote before it attached.
OnlyOwnEdits ==
  \A t \in Tabs : ~fresh[t] =>
    \A k \in Held(t) : mine[t][k] = canvas[t][k]

\* Nothing is held, in flight, on its way to the tab, or said to have failed.
Quiet(t) ==
  /\ phase[t] = "watching"
  /\ Held(t) = {}
  /\ pass[t] = "idle"
  /\ ~told[t] /\ ~reading[t] /\ ~watchError[t]

\* A tab with nothing to write and nothing to hear shows what the tree holds,
\* but for schemas (SchemaEditsAreWritten) and a head move its watch came too
\* late for (CanvasFollowsDraft).
NeverSilentlyStale ==
  \A t \in Tabs : Quiet(t) /\ ~missed[t] =>
    \A k \in Keys \ Schemas : canvas[t][k] = tree[k]

\* The same with no head move excused: each is read again, and the canvas follows
\* (project-runtime.js:183-185).
CanvasFollowsDraft ==
  \A t \in Tabs : Quiet(t) => \A k \in Keys \ Schemas : canvas[t][k] = tree[k]

\* The same of the schemas: an edit of a schema reaches the draft.
SchemaEditsAreWritten ==
  \A t \in Tabs : Quiet(t) /\ ~missed[t] =>
    \A k \in Schemas : canvas[t][k] = tree[k]

\* Every edit held by an open tab comes to be written, or its refusal is said.
HeldIsWritten ==
  \A t \in Tabs : (Held(t) # {}) ~> (Held(t) = {} \/ error[t])

\* Once the edits stop, every open tab comes to show the tree's draft for good,
\* unless it says it does not or missed a head move.
Converges ==
  \A t \in Tabs :
    <>[](phase[t] = "watching" /\ Held(t) = {} /\ ~watchError[t] /\ ~missed[t]
           => canvas[t] = tree)

=============================================================================
