------------------------------ MODULE Handoff ------------------------------
(***************************************************************************)
(* The handoff (handoff.js): what Publish owes the records made in a       *)
(* Preview.  Each publisher is a tab, browser or project holding a Preview *)
(* of its own; all of them hand off into one target, the owner's tree,     *)
(* whose live domains other people edit.                                   *)
(*                                                                         *)
(* A copy's slot is a function of its source, so a Preview is written here *)
(* as what it holds at each slot.  The target is the SDK's: a write is     *)
(* accepted at once, and later saved or rolled back.                       *)
(***************************************************************************)
EXTENDS Naturals, FiniteSets

CONSTANTS
  Publishers,   \* who may publish into the target
  Domains,      \* the app's domains
  Places,       \* the places of a domain: a slot is a domain and a place
  SeedPlaces,   \* the places of the definition's seed rows
  None,         \* no slot
  Room,         \* the writes the target holds unconfirmed before it says NO_ROOM
  MaxLosses,    \* bound on the writes that are rolled back
  MaxEdits,     \* bound on the edits people make, in Previews and in the live app
  MaxReloads    \* bound on the reloads of a publisher's tab

Slots == Domains \X Places
Seeds == Domains \X SeedPlaces
DomainOf(s) == s[1]

ASSUME ConstantsOK ==
  /\ SeedPlaces \subseteq Places
  /\ None \notin Slots
  /\ Room \in Nat \ {0}
  /\ MaxLosses \in Nat /\ MaxEdits \in Nat /\ MaxReloads \in Nat

VARIABLES
  preview,   \* what each publisher's Preview holds
  tombs,     \* the slots of the rows deleted in it
  pc,        \* where each handoff is
  planned,   \* the copies it is to make
  deletes,   \* the copies it is to delete
  live,      \* the domains it read as live
  fixing,    \* the slot createAt found differing, on its way to be updated
  confirm,   \* the slots whose write it waits for (`confirmRows`)
  saved,     \* those it once read saved
  dropped,   \* the deletes it has made
  marked,    \* the domains it has marked published
  record,    \* what the target holds: value, state of its last write, confirmed value before it
  marker,    \* the published marker of each domain, and its state
  losses, edits, reloads

planVars   == <<planned, deletes, live>>
makeVars   == <<fixing, confirm, saved, dropped, marked>>
sourceVars == <<preview, tombs>>
boundVars  == <<losses, edits, reloads>>
vars == <<sourceVars, pc, planVars, makeVars, record, marker, boundVars>>

Absent == 0
SeedValue == 1
Values == SeedValue .. SeedValue + MaxEdits
Content == Values \cup {Absent}

Gone == [value |-> Absent, state |-> "saved", before |-> Absent]
FreshPreview == [s \in Slots |-> IF s \in Seeds THEN SeedValue ELSE Absent]

TypeOK ==
  /\ preview \in [Publishers -> [Slots -> Content]]
  /\ tombs \in [Publishers -> SUBSET Slots]
  /\ pc \in [Publishers -> {"idle", "making", "settling", "marking", "done", "failed"}]
  /\ planned \in [Publishers -> [Slots -> Content]]
  /\ deletes \in [Publishers -> SUBSET Slots]
  /\ live \in [Publishers -> SUBSET Domains]
  /\ fixing \in [Publishers -> Slots \cup {None}]
  /\ confirm \in [Publishers -> SUBSET Slots]
  /\ saved \in [Publishers -> SUBSET Slots] /\ dropped \in [Publishers -> SUBSET Slots]
  /\ \A p \in Publishers : saved[p] \subseteq confirm[p] /\ dropped[p] \subseteq deletes[p]
  /\ marked \in [Publishers -> SUBSET Domains]
  /\ record \in [Slots -> [value : Content, state : {"pending", "saved", "lost"}, before : Content]]
  /\ marker \in [Domains -> {"none", "pending", "saved"}]
  /\ losses \in 0 .. MaxLosses /\ edits \in 0 .. MaxEdits /\ reloads \in 0 .. MaxReloads

-----------------------------------------------------------------------------
(* The target.                                                             *)

Holds(s) == record[s].value # Absent

\* The writes not confirmed, rows' and markers', whoever made them.
Unconfirmed ==
  Cardinality({s \in Slots : record[s].state = "pending"})
    + Cardinality({d \in Domains : marker[d] = "pending"})

HasRoom == Unconfirmed < Room

\* The target after value v is written at s.
Written(s, v) ==
  [record EXCEPT ![s] = [value |-> v, state |-> "pending",
                         before |-> IF @.state = "pending" THEN @.before ELSE @.value]]

\* Is the domain live: has a publish into it completed?
IsLive(d) == marker[d] # "none"

\* The node confirms a write.
Confirm(s) ==
  /\ record[s].state = "pending"
  /\ record' = [record EXCEPT ![s].state = "saved"]
  /\ UNCHANGED <<sourceVars, pc, planVars, makeVars, marker, boundVars>>

\* The node rolls a write back.
Lose(s) ==
  /\ record[s].state = "pending"
  /\ losses < MaxLosses /\ losses' = losses + 1
  /\ record' = [record EXCEPT ![s].state = "lost", ![s].value = record[s].before]
  /\ UNCHANGED <<sourceVars, pc, planVars, makeVars, marker, edits, reloads>>

ConfirmMarker(d) ==
  /\ marker[d] = "pending"
  /\ marker' = [marker EXCEPT ![d] = "saved"]
  /\ UNCHANGED <<sourceVars, pc, planVars, makeVars, record, boundVars>>

LoseMarker(d) ==
  /\ marker[d] = "pending"
  /\ losses < MaxLosses /\ losses' = losses + 1
  /\ marker' = [marker EXCEPT ![d] = "none"]
  /\ UNCHANGED <<sourceVars, pc, planVars, makeVars, record, edits, reloads>>

\* People use the published app: one of them edits or deletes a row the node has.
UserWrites(s) ==
  /\ marker[DomainOf(s)] = "saved" /\ record[s].state # "pending"
  /\ edits < MaxEdits /\ edits' = edits + 1
  /\ Holds(s) /\ HasRoom
  /\ \E v \in {SeedValue + edits + 1, Absent} : record' = Written(s, v)
  /\ UNCHANGED <<sourceVars, pc, planVars, makeVars, marker, losses, reloads>>

-----------------------------------------------------------------------------
(* The Preview.                                                            *)

\* A row is made, edited or deleted in a Preview (`previewDb` records the delete);
\* the id of a deleted row is never used again.
EditPreview(p, s) ==
  /\ edits < MaxEdits /\ edits' = edits + 1
  /\ s \notin tombs[p]
  /\ \E v \in {SeedValue + edits + 1, Absent} :
       /\ preview[p][s] # Absent \/ (v # Absent /\ s \notin Seeds)
       /\ preview' = [preview EXCEPT ![p][s] = v]
       /\ tombs' = IF v = Absent THEN [tombs EXCEPT ![p] = @ \cup {s}] ELSE tombs
  /\ UNCHANGED <<pc, planVars, makeVars, record, marker, losses, reloads>>

\* The tab is reloaded: its Preview is a fresh one, and its handoff is over.
Reload(p) ==
  /\ reloads < MaxReloads /\ reloads' = reloads + 1
  /\ preview' = [preview EXCEPT ![p] = FreshPreview]
  /\ tombs' = [tombs EXCEPT ![p] = {}]
  /\ pc' = [pc EXCEPT ![p] = "idle"]
  /\ UNCHANGED <<planVars, makeVars, record, marker, losses, edits>>

-----------------------------------------------------------------------------
(* The handoff.                                                            *)

\* Mutant of Plan: whether a domain is live is not asked.
Plan_NeverLive(p) ==
  /\ planned' = [planned EXCEPT ![p] = preview[p]]
  /\ deletes' = [deletes EXCEPT ![p] = {s \in tombs[p] : preview[p][s] = Absent}]
  /\ live' = [live EXCEPT ![p] = {}]

\* Every slot first: the rows of the Preview, its deletes, and which domains are
\* live, each read once.
Plan(p) ==
  /\ planned' = [planned EXCEPT ![p] = preview[p]]
  /\ deletes' = [deletes EXCEPT ![p] = {s \in tombs[p] : preview[p][s] = Absent}]
  /\ live' = [live EXCEPT ![p] = {d \in Domains : IsLive(d)}]

\* Publish is pressed: a handoff begins, with nothing remembered of an earlier one.
Start(p) ==
  /\ pc[p] \in {"idle", "failed"}
  /\ Plan(p)
  /\ pc' = [pc EXCEPT ![p] = "making"]
  /\ fixing' = [fixing EXCEPT ![p] = None]
  /\ confirm' = [confirm EXCEPT ![p] = {}]
  /\ saved' = [saved EXCEPT ![p] = {}]
  /\ dropped' = [dropped EXCEPT ![p] = {}]
  /\ marked' = [marked EXCEPT ![p] = {}]
  /\ UNCHANGED <<sourceVars, record, marker, boundVars>>

\* The copies left to make: a seed is never written into a live domain.
ToCopy(p) ==
  {s \in Slots : planned[p][s] # Absent /\ s \notin confirm[p]
                   /\ ~(DomainOf(s) \in live[p] /\ s \in Seeds)}

\* The deletes left to make: none in a live domain.
ToDelete(p) ==
  {s \in deletes[p] \ dropped[p] : DomainOf(s) \notin live[p]}

\* createAt: the slot is created if it is empty.
Create(p, s) ==
  /\ pc[p] = "making" /\ fixing[p] = None
  /\ s \in ToCopy(p)
  /\ ~Holds(s) /\ HasRoom
  /\ record' = Written(s, planned[p][s])
  /\ confirm' = [confirm EXCEPT ![p] = @ \cup {s}]
  /\ UNCHANGED <<sourceVars, pc, planVars, fixing, saved, dropped, marked, marker, boundVars>>

\* Mutant of Keeps: a copy that differs is kept whether its domain is live or not.
Keeps_Always(p, s) == TRUE

Keeps(p, s) == record[s].value = planned[p][s] \/ DomainOf(s) \in live[p]

\* createAt: the slot holds a record, which stays.  One that differs is kept as
\* published in a live domain, and is to be updated in any other.
Found(p, s) ==
  /\ pc[p] = "making" /\ fixing[p] = None
  /\ s \in ToCopy(p)
  /\ Holds(s)
  /\ IF Keeps(p, s)
       THEN confirm' = [confirm EXCEPT ![p] = @ \cup {s}] /\ UNCHANGED fixing
       ELSE fixing' = [fixing EXCEPT ![p] = s] /\ UNCHANGED confirm
  /\ UNCHANGED <<sourceVars, pc, planVars, saved, dropped, marked, record, marker, boundVars>>

\* The update of a copy that differed.  One deleted meanwhile is refused.
Update(p) ==
  LET s == fixing[p]
  IN  /\ pc[p] = "making" /\ s # None
      /\ fixing' = [fixing EXCEPT ![p] = None]
      /\ \/ /\ Holds(s) /\ HasRoom
            /\ record' = Written(s, planned[p][s])
            /\ confirm' = [confirm EXCEPT ![p] = @ \cup {s}]
            /\ UNCHANGED pc
         \/ /\ ~Holds(s)
            /\ pc' = [pc EXCEPT ![p] = "failed"]
            /\ UNCHANGED <<record, confirm>>
      /\ UNCHANGED <<sourceVars, planVars, saved, dropped, marked, marker, boundVars>>

\* A delete made in this Preview removes the copy; its domain's copies are made.
Delete(p, s) ==
  /\ pc[p] = "making" /\ fixing[p] = None
  /\ s \in ToDelete(p)
  /\ \A c \in ToCopy(p) : DomainOf(c) # DomainOf(s)
  /\ IF Holds(s) THEN HasRoom /\ record' = Written(s, Absent) ELSE UNCHANGED record
  /\ dropped' = [dropped EXCEPT ![p] = @ \cup {s}]
  /\ UNCHANGED <<sourceVars, pc, planVars, fixing, confirm, saved, marked, marker, boundVars>>

\* What a poll reads of the rows not yet read saved.
Read(p, s) == IF Holds(s) THEN record[s].state ELSE "lost"

\* Mutant of NowSaved: rows the handoff did not make are counted.
NowSaved_OfAnyRow(p) == saved[p] \cup {s \in Slots : Read(p, s) = "saved"}

\* The rows read saved, now or before: none is read again.
NowSaved(p) == saved[p] \cup {s \in confirm[p] : Read(p, s) = "saved"}

\* Mutant of Lost: a row that is not there is waited for.
Lost_AbsentWaits(p) == {s \in confirm[p] \ saved[p] : Holds(s) /\ record[s].state = "lost"}

\* The rows that were rolled back, or are not there.
Lost(p) == {s \in confirm[p] \ saved[p] : Read(p, s) = "lost"}

\* A poll that only reports, while rows are being made.
Report(p) ==
  /\ pc[p] = "making"
  /\ saved' = [saved EXCEPT ![p] = NowSaved(p)]
  /\ saved' # saved
  /\ UNCHANGED <<sourceVars, pc, planVars, fixing, confirm, dropped, marked, record, marker, boundVars>>

\* Does the handoff have a write to make now?
Writes(p) ==
  \/ fixing[p] # None /\ Holds(fixing[p])
  \/ fixing[p] = None /\ \E s \in ToCopy(p) : ~Holds(s)
  \/ fixing[p] = None /\ \E s \in ToDelete(p) : Holds(s)

\* NO_ROOM: the rows made are polled, one of them lost fails the handoff, and the
\* same write is made again when there is room.
WaitForRoom(p) ==
  /\ pc[p] = "making"
  /\ Writes(p) /\ ~HasRoom
  /\ saved' = [saved EXCEPT ![p] = NowSaved(p)]
  /\ pc' = [pc EXCEPT ![p] = IF Lost(p) # {} THEN "failed" ELSE @]
  /\ <<pc', saved'>> # <<pc, saved>>
  /\ UNCHANGED <<sourceVars, planVars, fixing, confirm, dropped, marked, record, marker, boundVars>>

\* Every write is made.
Made(p) ==
  /\ pc[p] = "making" /\ fixing[p] = None
  /\ ToCopy(p) = {} /\ ToDelete(p) = {}
  /\ pc' = [pc EXCEPT ![p] = "settling"]
  /\ UNCHANGED <<sourceVars, planVars, makeVars, record, marker, boundVars>>

\* A poll of every row not yet read saved: a lost one fails the handoff, and when
\* none waits the markers are next.
Settle(p) ==
  /\ pc[p] = "settling"
  /\ saved' = [saved EXCEPT ![p] = NowSaved(p)]
  /\ pc' = [pc EXCEPT ![p] =
              IF Lost(p) # {} THEN "failed"
              ELSE IF NowSaved(p) = confirm[p] THEN "marking" ELSE @]
  /\ <<pc', saved'>> # <<pc, saved>>
  /\ UNCHANGED <<sourceVars, planVars, fixing, confirm, dropped, marked, record, marker, boundVars>>

\* A domain is marked published, by createAt: a marker that is there stays.
Mark(p, d) ==
  /\ pc[p] = "marking" /\ d \notin marked[p]
  /\ \/ /\ marker[d] = "none" /\ HasRoom
        /\ marker' = [marker EXCEPT ![d] = "pending"]
     \/ /\ marker[d] # "none"
        /\ UNCHANGED marker
  /\ marked' = [marked EXCEPT ![p] = @ \cup {d}]
  /\ UNCHANGED <<sourceVars, pc, planVars, fixing, confirm, saved, dropped, record, boundVars>>

\* Mutant of MarkersSaved: the markers' confirmation is not waited for.
MarkersSaved_Accepted == \A d \in Domains : IsLive(d)

MarkersSaved == \A d \in Domains : marker[d] = "saved"

\* The markers are polled until every one is saved; a lost one fails the handoff.
\* (A marker once read saved stays so: none is ever removed.)
SettleMarkers(p) ==
  /\ pc[p] = "marking"
  /\ \/ /\ \E d \in marked[p] : marker[d] = "none"
        /\ marked[p] = Domains \/ ~HasRoom
        /\ pc' = [pc EXCEPT ![p] = "failed"]
     \/ /\ marked[p] = Domains
        /\ MarkersSaved
        /\ pc' = [pc EXCEPT ![p] = "done"]
  /\ UNCHANGED <<sourceVars, planVars, makeVars, record, marker, boundVars>>

-----------------------------------------------------------------------------
Init ==
  /\ preview = [p \in Publishers |-> FreshPreview]
  /\ tombs = [p \in Publishers |-> {}]
  /\ pc = [p \in Publishers |-> "idle"]
  /\ planned = [p \in Publishers |-> FreshPreview]
  /\ deletes = [p \in Publishers |-> {}]
  /\ live = [p \in Publishers |-> {}]
  /\ fixing = [p \in Publishers |-> None]
  /\ confirm = [p \in Publishers |-> {}]
  /\ saved = [p \in Publishers |-> {}]
  /\ dropped = [p \in Publishers |-> {}]
  /\ marked = [p \in Publishers |-> {}]
  /\ record = [s \in Slots |-> Gone]
  /\ marker = [d \in Domains |-> "none"]
  /\ losses = 0 /\ edits = 0 /\ reloads = 0

\* A step of publisher p's handoff.
HandoffStep(p) ==
  \/ \E s \in Slots : Create(p, s) \/ Found(p, s) \/ Delete(p, s)
  \/ Update(p) \/ Report(p) \/ WaitForRoom(p) \/ Made(p) \/ Settle(p) \/ SettleMarkers(p)
  \/ \E d \in Domains : Mark(p, d)

\* The node answers.
Node ==
  \/ \E s \in Slots : Confirm(s) \/ Lose(s)
  \/ \E d \in Domains : ConfirmMarker(d) \/ LoseMarker(d)

Next ==
  \/ \E p \in Publishers : HandoffStep(p) \/ Start(p) \/ Reload(p)
  \/ \E p \in Publishers, s \in Slots : EditPreview(p, s)
  \/ \E s \in Slots : UserWrites(s)
  \/ Node

Spec == Init /\ [][Next]_vars

\* The handoff goes on by itself, and the SDK ends every write: saved or lost.
Fairness ==
  /\ \A p \in Publishers : WF_vars(HandoffStep(p))
  /\ WF_vars(Node)

FairSpec == Spec /\ Fairness

-----------------------------------------------------------------------------
(* What the handoff promises.                                              *)

\* Into a live domain a handoff only creates: no step of one changes or removes a
\* record there, or writes a seed (the header of handoff.js; `live` in `handoff`).
LiveIsCreateOnly ==
  [][\A s \in Slots : IsLive(DomainOf(s)) /\ (\E p \in Publishers : HandoffStep(p)) =>
       \/ record'[s] = record[s]
       \/ ~Holds(s) /\ s \notin Seeds]_vars

\* When the rows are settled, and until the domain is marked, what the target
\* holds of a domain that was not live is the Preview that was handed off: a
\* retry carries the edits, and lands on the same slots.
SettledIsThePreview ==
  \A p \in Publishers, s \in Slots :
    pc[p] = "marking" /\ ~IsLive(DomainOf(s)) /\ DomainOf(s) \notin live[p] /\ planned[p][s] # Absent
      => record[s].value = planned[p][s] /\ record[s].state = "saved"

\* A publish is done only with every domain it touched marked and saved: the next
\* one of any tab finds them live.
DoneIsLive ==
  \A p \in Publishers : pc[p] = "done" => \A d \in Domains : marker[d] = "saved"

\* A handoff ends, however little room the target has: done, or failed by a write
\* that was lost (`roomFor`, `settled`).
HandoffEnds ==
  \A p \in Publishers :
    (pc[p] \in {"making", "settling", "marking"}) ~> (pc[p] \in {"done", "failed", "idle"})

=============================================================================
