--------------------------- MODULE Handoff_proofs ---------------------------
(***************************************************************************)
(* Proofs about the handoff, for any domains and places, any room in the   *)
(* target, and any number of lost writes, edits and reloads: that it is    *)
(* done only when every domain is live, for any number of publishers; and  *)
(* for publishers that take turns, that what is settled is the Preview and *)
(* that a live domain is only created into.  (At once it is not so: each   *)
(* reads once, as it starts, which domains are live.)                      *)
(***************************************************************************)
EXTENDS Handoff, TLAPS

(***************************************************************************)
(* The target.                                                             *)
(***************************************************************************)

Record == [value : Content, state : {"pending", "saved", "lost"}, before : Content]

LEMMA SlotsHaveDomains == \A s \in Slots : DomainOf(s) \in Domains
BY DEF Slots, DomainOf

\* The values are numbers, and a next edit's is one of them.
LEMMA ValuesType ==
  ASSUME TypeOK
  PROVE  /\ Absent \in Content /\ SeedValue \in Content /\ SeedValue # Absent
         /\ edits < MaxEdits => SeedValue + edits + 1 \in Content
BY ConstantsOK DEF TypeOK, Content, Values, SeedValue, Absent

\* A write changes one slot, and leaves it pending.
LEMMA WrittenIs ==
  ASSUME record \in [Slots -> Record], NEW s \in Slots, NEW v \in Content
  PROVE  /\ Written(s, v) \in [Slots -> Record]
         /\ Written(s, v)[s].value = v /\ Written(s, v)[s].state = "pending"
         /\ \A t \in Slots \ {s} : Written(s, v)[t] = record[t]
BY DEF Written, Record

(***************************************************************************)
(* Type correctness.                                                       *)
(***************************************************************************)

LEMMA InitTypeOK == Init => TypeOK
<1> SUFFICES ASSUME Init PROVE TypeOK
  OBVIOUS
<1>1. Absent \in Content /\ SeedValue \in Content
  BY ConstantsOK DEF Content, Values, SeedValue, Absent
<1>2. FreshPreview \in [Slots -> Content]
  BY <1>1 DEF FreshPreview
<1>3. record \in [Slots -> [value : Content, state : {"pending", "saved", "lost"}, before : Content]]
  BY <1>1 DEF Init, Gone
<1>4. losses \in 0 .. MaxLosses /\ edits \in 0 .. MaxEdits /\ reloads \in 0 .. MaxReloads
  BY ConstantsOK DEF Init
<1> QED
  BY <1>2, <1>3, <1>4 DEF Init, TypeOK

LEMMA NextTypeOK == TypeOK /\ [Next]_vars => TypeOK'
<1> SUFFICES ASSUME TypeOK, [Next]_vars PROVE TypeOK'
  OBVIOUS
<1> USE DEF sourceVars, planVars, makeVars, boundVars
<1>0. record \in [Slots -> Record]
  BY DEF TypeOK, Record
<1>1. ASSUME NEW s \in Slots, Confirm(s) \/ Lose(s) PROVE TypeOK'
  <2>1. record' \in [Slots -> Record]
    BY <1>0, <1>1 DEF Confirm, Lose, Record
  <2>2. losses' \in 0 .. MaxLosses
    BY <1>1, ConstantsOK DEF Confirm, Lose, TypeOK
  <2> QED
    BY <1>1, <2>1, <2>2 DEF Confirm, Lose, TypeOK, Record
<1>2. ASSUME NEW d \in Domains, ConfirmMarker(d) \/ LoseMarker(d) PROVE TypeOK'
  <2>1. marker' \in [Domains -> {"none", "pending", "saved"}]
    BY <1>2 DEF ConfirmMarker, LoseMarker, TypeOK
  <2>2. losses' \in 0 .. MaxLosses
    BY <1>2, ConstantsOK DEF ConfirmMarker, LoseMarker, TypeOK
  <2> QED
    BY <1>2, <2>1, <2>2 DEF ConfirmMarker, LoseMarker, TypeOK
<1>3. ASSUME NEW s \in Slots, UserWrites(s) PROVE TypeOK'
  <2>1. record' \in [Slots -> Record]
    BY <1>0, <1>3, WrittenIs, ValuesType DEF UserWrites
  <2>2. edits' \in 0 .. MaxEdits
    BY <1>3, ConstantsOK DEF UserWrites, TypeOK
  <2> QED
    BY <1>3, <2>1, <2>2 DEF UserWrites, TypeOK, Record
<1>4. ASSUME NEW p \in Publishers, NEW s \in Slots, EditPreview(p, s) PROVE TypeOK'
  <2>1. preview' \in [Publishers -> [Slots -> Content]]
    BY <1>4, ValuesType DEF EditPreview, TypeOK
  <2>2. tombs' \in [Publishers -> SUBSET Slots] /\ edits' \in 0 .. MaxEdits
    BY <1>4, ConstantsOK DEF EditPreview, TypeOK
  <2> QED
    BY <1>4, <2>1, <2>2 DEF EditPreview, TypeOK
<1>5. ASSUME NEW p \in Publishers, Reload(p) PROVE TypeOK'
  <2>1. FreshPreview \in [Slots -> Content]
    BY ValuesType DEF FreshPreview
  <2>2. reloads' \in 0 .. MaxReloads
    BY <1>5, ConstantsOK DEF Reload, TypeOK
  <2> QED
    BY <1>5, <2>1, <2>2 DEF Reload, TypeOK
<1>6. ASSUME NEW p \in Publishers, Start(p) PROVE TypeOK'
  BY <1>6 DEF Start, Plan, TypeOK
<1>7. ASSUME NEW p \in Publishers, NEW s \in Slots, Create(p, s) PROVE TypeOK'
  <2>1. record' \in [Slots -> Record]
    BY <1>0, <1>7, WrittenIs DEF Create, TypeOK
  <2> QED
    BY <1>7, <2>1 DEF Create, TypeOK, Record
<1>8. ASSUME NEW p \in Publishers, NEW s \in Slots, Found(p, s) PROVE TypeOK'
  <2>1. CASE confirm' = [confirm EXCEPT ![p] = @ \cup {s}] /\ UNCHANGED fixing
    BY <1>8, <2>1 DEF Found, TypeOK
  <2>2. CASE fixing' = [fixing EXCEPT ![p] = s] /\ UNCHANGED confirm
    BY <1>8, <2>2 DEF Found, TypeOK
  <2> QED
    BY <1>8, <2>1, <2>2 DEF Found
<1>9. ASSUME NEW p \in Publishers, NEW s \in Slots, Delete(p, s) PROVE TypeOK'
  <2>1. record' \in [Slots -> Record]
    BY <1>0, <1>9, WrittenIs, ValuesType DEF Delete
  <2>2. dropped' \in [Publishers -> SUBSET Slots] /\ \A q \in Publishers : dropped'[q] \subseteq deletes[q]
    BY <1>9 DEF Delete, ToDelete, TypeOK
  <2> QED
    BY <1>9, <2>1, <2>2 DEF Delete, TypeOK, Record
<1>10. ASSUME NEW p \in Publishers, Update(p) PROVE TypeOK'
  <2>1. CASE Holds(fixing[p]) /\ record' = Written(fixing[p], planned[p][fixing[p]])
             /\ confirm' = [confirm EXCEPT ![p] = @ \cup {fixing[p]}] /\ UNCHANGED pc
    <3>1. fixing[p] \in Slots
      BY <1>10 DEF Update, TypeOK
    <3>2. record' \in [Slots -> Record]
      BY <1>0, <2>1, <3>1, WrittenIs DEF TypeOK
    <3> QED
      BY <1>10, <2>1, <3>1, <3>2 DEF Update, TypeOK, Record
  <2>2. CASE pc' = [pc EXCEPT ![p] = "failed"] /\ UNCHANGED <<record, confirm>>
    BY <1>10, <2>2 DEF Update, TypeOK
  <2> QED
    BY <1>10, <2>1, <2>2 DEF Update
<1>11. ASSUME NEW p \in Publishers, Report(p) \/ WaitForRoom(p) \/ Settle(p) PROVE TypeOK'
  <2>1. /\ NowSaved(p) \subseteq confirm[p] /\ confirm[p] \subseteq Slots
    BY DEF NowSaved, TypeOK
  <2>0. saved' = [saved EXCEPT ![p] = NowSaved(p)]
    BY <1>11 DEF Report, WaitForRoom, Settle
  <2>2. /\ saved' \in [Publishers -> SUBSET Slots]
        /\ \A q \in Publishers : saved'[q] \subseteq confirm[q]
    BY <2>0, <2>1 DEF TypeOK
  <2>3. pc' \in [Publishers -> {"idle", "making", "settling", "marking", "done", "failed"}]
    BY <1>11 DEF Report, WaitForRoom, Settle, TypeOK
  <2> QED
    BY <1>11, <2>2, <2>3 DEF Report, WaitForRoom, Settle, TypeOK
<1>12. ASSUME NEW p \in Publishers, Made(p) \/ SettleMarkers(p) PROVE TypeOK'
  BY <1>12 DEF Made, SettleMarkers, TypeOK
<1>13. ASSUME NEW p \in Publishers, NEW d \in Domains, Mark(p, d) PROVE TypeOK'
  BY <1>13 DEF Mark, TypeOK
<1>14. CASE UNCHANGED vars
  BY <1>14 DEF vars, TypeOK
<1> QED
  BY <1>1, <1>2, <1>3, <1>4, <1>5, <1>6, <1>7, <1>8, <1>9, <1>10, <1>11, <1>12, <1>13, <1>14
  DEF Next, HandoffStep, Node

\* The handoffs, the Previews and the target stay what their declarations say
\* (handoff.js): what was read saved is among what is confirmed, and the deletes made
\* among those planned.
THEOREM TypeCorrect == Spec => []TypeOK
BY InitTypeOK, NextTypeOK, PTL DEF Spec

(***************************************************************************)
(* What a handoff has planned and made, for any number of publishers.      *)
(***************************************************************************)

\* The plan stands: what is updated or made is a row of the Preview and never one
\* it deleted, past the making nothing is left to copy, past the settling all of it
\* was read saved, and what is done has its markers.
PlanStands(q) ==
  /\ fixing[q] # None => /\ fixing[q] \notin confirm[q]
                         /\ planned[q][fixing[q]] # Absent
                         /\ DomainOf(fixing[q]) \notin live[q]
  /\ \A s \in confirm[q] : planned[q][s] # Absent
  /\ \A s \in deletes[q] : planned[q][s] = Absent
  /\ pc[q] \in {"settling", "marking"} => ToCopy(q) = {}
  /\ pc[q] = "marking" => saved[q] = confirm[q]
  /\ pc[q] = "done" => MarkersSaved

\* All that a publisher's own handoff is.
HandoffState(q) ==
  <<pc[q], planned[q], deletes[q], live[q], fixing[q], confirm[q], saved[q]>>

\* A step that leaves a publisher's handoff alone, and no saved marker unsaved, leaves
\* its plan standing.
LEMMA PlanUndisturbed ==
  ASSUME NEW q \in Publishers, PlanStands(q), UNCHANGED HandoffState(q),
         \A d \in Domains : marker[d] = "saved" => marker'[d] = "saved"
  PROVE  PlanStands(q)'
BY DEF PlanStands, HandoffState, ToCopy, MarkersSaved

\* No step unsaves a marker: what a node confirmed is never removed.
LEMMA SavedMarkersStay ==
  ASSUME TypeOK, [Next]_vars, NEW d \in Domains, marker[d] = "saved"
  PROVE  marker'[d] = "saved"
<1>1. ASSUME NEW e \in Domains, ConfirmMarker(e) \/ LoseMarker(e) PROVE marker'[d] = "saved"
  BY <1>1 DEF ConfirmMarker, LoseMarker, TypeOK
<1>2. ASSUME NEW p \in Publishers, NEW e \in Domains, Mark(p, e) PROVE marker'[d] = "saved"
  BY <1>2 DEF Mark, TypeOK
<1>3. CASE UNCHANGED marker
  BY <1>3
<1>4. ASSUME NEW s \in Slots, Confirm(s) \/ Lose(s) \/ UserWrites(s) PROVE marker'[d] = "saved"
  BY <1>3, <1>4 DEF Confirm, Lose, UserWrites
<1>5. ASSUME NEW p \in Publishers, NEW s \in Slots,
             EditPreview(p, s) \/ Create(p, s) \/ Found(p, s) \/ Delete(p, s)
      PROVE  marker'[d] = "saved"
  BY <1>3, <1>5 DEF EditPreview, Create, Found, Delete
<1>6. ASSUME NEW p \in Publishers,
             \/ Start(p) \/ Reload(p) \/ Update(p) \/ Report(p) \/ WaitForRoom(p) \/ Made(p)
             \/ Settle(p) \/ SettleMarkers(p)
      PROVE  marker'[d] = "saved"
  BY <1>3, <1>6
  DEF Start, Reload, Update, Report, WaitForRoom, Made, Settle, SettleMarkers
<1>7. CASE UNCHANGED vars
  BY <1>3, <1>7 DEF vars
<1> QED
  BY <1>1, <1>2, <1>4, <1>5, <1>6, <1>7 DEF Next, HandoffStep, Node

LEMMA NextPlanStands ==
  ASSUME TypeOK, [Next]_vars, NEW q \in Publishers, PlanStands(q)
  PROVE  PlanStands(q)'
<1> USE DEF sourceVars, planVars, makeVars, boundVars
<1>0. \A d \in Domains : marker[d] = "saved" => marker'[d] = "saved"
  BY SavedMarkersStay
<1>1. CASE UNCHANGED HandoffState(q)
  BY <1>0, <1>1, PlanUndisturbed
<1>2. CASE UNCHANGED <<pc, planVars, fixing, confirm, saved>>
  BY <1>1, <1>2 DEF HandoffState
<1>3. ASSUME NEW p \in Publishers, HandoffStep(p) \/ Start(p) \/ Reload(p), p # q PROVE PlanStands(q)'
  <2>1. UNCHANGED HandoffState(q)
    <3>1. CASE Start(p) \/ Reload(p)
      BY <1>3, <3>1 DEF Start, Plan, Reload, HandoffState, TypeOK
    <3>2. ASSUME NEW s \in Slots, Create(p, s) \/ Found(p, s) \/ Delete(p, s)
          PROVE  UNCHANGED HandoffState(q)
      BY <1>3, <3>2 DEF Create, Found, Delete, HandoffState, TypeOK
    <3>3. CASE Update(p)
      BY <1>3, <3>3 DEF Update, HandoffState, TypeOK
    <3>4. CASE Report(p) \/ WaitForRoom(p) \/ Made(p)
      BY <1>3, <3>4 DEF Report, WaitForRoom, Made, HandoffState, TypeOK
    <3>5. CASE Settle(p) \/ SettleMarkers(p)
      BY <1>3, <3>5 DEF Settle, SettleMarkers, HandoffState, TypeOK
    <3>6. ASSUME NEW d \in Domains, Mark(p, d) PROVE UNCHANGED HandoffState(q)
      BY <3>6 DEF Mark, HandoffState
    <3> QED
      BY <1>3, <3>1, <3>2, <3>3, <3>4, <3>5, <3>6 DEF HandoffStep
  <2> QED
    BY <1>1, <2>1
<1>4. CASE Start(q)
  BY <1>4 DEF Start, Plan, PlanStands, TypeOK
<1>5. CASE Reload(q)
  BY <1>5 DEF Reload, PlanStands, TypeOK
<1>6. ASSUME NEW s \in Slots, Create(q, s) PROVE PlanStands(q)'
  BY <1>6 DEF Create, ToCopy, PlanStands, TypeOK
<1>7. ASSUME NEW s \in Slots, Found(q, s) PROVE PlanStands(q)'
  BY <1>7 DEF Found, Keeps, ToCopy, PlanStands, TypeOK
<1>8. ASSUME NEW s \in Slots, Delete(q, s) PROVE PlanStands(q)'
  BY <1>2, <1>8 DEF Delete
<1>9. CASE Update(q)
  BY <1>9 DEF Update, PlanStands, TypeOK
<1>10. CASE Report(q) \/ WaitForRoom(q)
  BY <1>10 DEF Report, WaitForRoom, PlanStands, TypeOK
<1>11. CASE Made(q)
  BY <1>11 DEF Made, PlanStands, ToCopy, TypeOK
<1>12. CASE Settle(q)
  BY <1>12 DEF Settle, PlanStands, ToCopy, TypeOK
<1>13. CASE SettleMarkers(q)
  BY <1>13 DEF SettleMarkers, MarkersSaved, PlanStands, TypeOK
<1>14. ASSUME NEW d \in Domains, Mark(q, d) PROVE PlanStands(q)'
  BY <1>2, <1>14 DEF Mark
<1>15. ASSUME NEW s \in Slots, Confirm(s) \/ Lose(s) \/ UserWrites(s) PROVE PlanStands(q)'
  BY <1>2, <1>15 DEF Confirm, Lose, UserWrites
<1>16. ASSUME NEW d \in Domains, ConfirmMarker(d) \/ LoseMarker(d) PROVE PlanStands(q)'
  BY <1>2, <1>16 DEF ConfirmMarker, LoseMarker
<1>17. ASSUME NEW p \in Publishers, NEW s \in Slots, EditPreview(p, s) PROVE PlanStands(q)'
  BY <1>2, <1>17 DEF EditPreview
<1>18. CASE UNCHANGED vars
  BY <1>2, <1>18 DEF vars
<1> QED
  BY <1>3, <1>4, <1>5, <1>6, <1>7, <1>8, <1>9, <1>10, <1>11, <1>12, <1>13, <1>14, <1>15, <1>16,
     <1>17, <1>18 DEF Next, HandoffStep, Node

LEMMA InitPlanStands ==
  ASSUME Init, NEW q \in Publishers
  PROVE  PlanStands(q)
BY DEF Init, PlanStands

PlansAllStand == \A q \in Publishers : PlanStands(q)

LEMMA PlansStand == Spec => [](TypeOK /\ PlansAllStand)
<1>1. Init => PlansAllStand
  BY InitPlanStands DEF PlansAllStand
<1>2. TypeOK /\ PlansAllStand /\ [Next]_vars => PlansAllStand'
  BY NextPlanStands DEF PlansAllStand
<1> QED
  BY <1>1, <1>2, TypeCorrect, PTL DEF Spec

\* However many tabs publish at once, whatever is lost and edited meanwhile, a publish
\* is done only over domains every one of which is marked and saved (`settled`).
THEOREM WhatIsDoneIsLive == Spec => []DoneIsLive
<1>1. PlansAllStand => DoneIsLive
  BY DEF PlansAllStand, PlanStands, DoneIsLive, MarkersSaved
<1> QED
  BY <1>1, PlansStand, PTL

(***************************************************************************)
(* What a handoff leaves in the target, when no two are under way at once. *)
(* Any number of tabs may publish, reload and publish again, in turn.      *)
(***************************************************************************)

Busy(p) == pc[p] \in {"making", "settling", "marking"}

OneAtATime == \A p, q \in Publishers : Busy(p) /\ Busy(q) => p = q

\* The copy of s is what was planned, unless its write was rolled back; once read
\* saved it is saved.
CopyHolds(q, s) ==
  /\ record[s].value = planned[q][s] \/ record[s].state = "lost"
  /\ s \in saved[q] => record[s].value = planned[q][s] /\ record[s].state = "saved"

\* Every copy made into a domain that was not live, and in which no one writes yet, holds;
\* and until the markers, every domain that is live is known to be.
CopiesHold(q) ==
  Busy(q) =>
    /\ \A s \in confirm[q] :
         marker[DomainOf(s)] # "saved" /\ DomainOf(s) \notin live[q] => CopyHolds(q, s)
    /\ pc[q] # "marking" => \A d \in Domains : IsLive(d) => d \in live[q]

\* Only a busy publisher's handoff takes a step.
LEMMA StepsAreOfTheBusy ==
  ASSUME NEW p \in Publishers, HandoffStep(p)
  PROVE  Busy(p)
BY DEF HandoffStep, Busy, Create, Found, Delete, Update, Report, WaitForRoom, Made, Settle,
       SettleMarkers, Mark

\* What the node and people do to a record: never to a copy that was read saved, in a
\* domain that is not live and saved.
LEMMA OthersLeaveCopies ==
  ASSUME TypeOK, PlansAllStand, NEW q \in Publishers, Busy(q), CopiesHold(q),
         NEW t \in Slots, Confirm(t) \/ Lose(t) \/ UserWrites(t)
  PROVE  CopiesHold(q)'
<1> USE DEF sourceVars, planVars, makeVars, boundVars
<1>1. UNCHANGED <<pc, planned, live, confirm, saved, marker>>
  BY DEF Confirm, Lose, UserWrites
<1>2. ASSUME NEW s \in confirm[q], marker[DomainOf(s)] # "saved", DomainOf(s) \notin live[q]
      PROVE  CopyHolds(q, s)'
  <2>0. s \in Slots /\ CopyHolds(q, s)
    BY <1>2 DEF CopiesHold, TypeOK
  <2>1. CASE s # t
    <3>1. record'[s] = record[s]
      <4>1. CASE Confirm(t) \/ Lose(t)
        BY <2>0, <2>1, <4>1 DEF Confirm, Lose, TypeOK
      <4>2. CASE UserWrites(t)
        <5>1. record \in [Slots -> Record]
          BY DEF TypeOK, Record
        <5> QED
          BY <2>0, <2>1, <4>2, <5>1, WrittenIs, ValuesType DEF UserWrites
      <4> QED
        BY <4>1, <4>2
    <3> QED
      BY <3>1, <2>0, <1>1 DEF CopyHolds
  <2>2. CASE s = t /\ Confirm(t)
    BY <2>0, <2>2, <1>1 DEF Confirm, CopyHolds, TypeOK
  <2>3. CASE s = t /\ Lose(t)
    BY <2>0, <2>3, <1>1 DEF Lose, CopyHolds, TypeOK
  <2>4. CASE s = t /\ UserWrites(t)
    BY <1>2, <2>4 DEF UserWrites
  <2> QED
    BY <2>1, <2>2, <2>3, <2>4
<1> QED
  BY <1>1, <1>2 DEF CopiesHold, Busy, IsLive

\* A marker's answer tells a publisher of no domain it did not know, and where it makes
\* one saved the copies are the people's.
LEMMA MarkersLeaveCopies ==
  ASSUME TypeOK, NEW q \in Publishers, CopiesHold(q),
         NEW d \in Domains, ConfirmMarker(d) \/ LoseMarker(d)
  PROVE  CopiesHold(q)'
<1> USE DEF sourceVars, planVars, makeVars, boundVars
<1>1. UNCHANGED <<pc, planned, live, confirm, saved, record>>
  BY DEF ConfirmMarker, LoseMarker
<1>2. \A e \in Domains : /\ marker'[e] # "saved" => marker[e] # "saved"
                         /\ IsLive(e)' => IsLive(e)
  BY DEF ConfirmMarker, LoseMarker, IsLive, TypeOK
<1>3. \A s \in confirm[q] : DomainOf(s) \in Domains
  BY SlotsHaveDomains DEF TypeOK
<1> QED
  BY <1>1, <1>2, <1>3 DEF CopiesHold, CopyHolds, Busy

\* The busy publisher's own steps: it writes what it planned, waits for what it wrote,
\* and marks only what is saved.
LEMMA OwnStepsHold ==
  ASSUME TypeOK, PlansAllStand, NEW q \in Publishers, CopiesHold(q), HandoffStep(q)
  PROVE  CopiesHold(q)'
<1> USE DEF sourceVars, planVars, makeVars, boundVars
<1>0. Busy(q) /\ record \in [Slots -> Record]
  BY StepsAreOfTheBusy DEF TypeOK, Record
<1>1. ASSUME NEW t \in Slots, Create(q, t) PROVE CopiesHold(q)'
  <2>1. UNCHANGED <<pc, planned, live, saved, marker>> /\ confirm'[q] = confirm[q] \cup {t}
    BY <1>1 DEF Create, TypeOK
  <2>2. /\ record'[t].value = planned[q][t] /\ record'[t].state = "pending"
        /\ \A s \in Slots \ {t} : record'[s] = record[s]
    BY <1>0, <1>1, WrittenIs DEF Create, TypeOK
  <2>3. t \notin confirm[q] /\ saved[q] \subseteq confirm[q] /\ confirm[q] \subseteq Slots
    BY <1>1 DEF Create, ToCopy, TypeOK
  <2> QED
    BY <1>0, <2>1, <2>2, <2>3 DEF CopiesHold, CopyHolds, Busy, IsLive
<1>2. ASSUME NEW t \in Slots, Found(q, t) PROVE CopiesHold(q)'
  <2>1. UNCHANGED <<pc, planned, live, saved, marker, record>>
    BY <1>2 DEF Found
  <2>2. CASE Keeps(q, t) /\ confirm'[q] = confirm[q] \cup {t}
    <3>1. t \notin saved[q]
      BY <1>2 DEF Found, ToCopy, TypeOK
    <3> QED
      BY <1>0, <2>1, <2>2, <3>1 DEF CopiesHold, CopyHolds, Keeps, Busy, IsLive
  <2>3. CASE UNCHANGED confirm
    BY <1>0, <2>1, <2>3 DEF CopiesHold, CopyHolds, Busy, IsLive
  <2> QED
    BY <1>2, <2>2, <2>3 DEF Found, TypeOK
<1>3. ASSUME NEW t \in Slots, Delete(q, t) PROVE CopiesHold(q)'
  <2>1. UNCHANGED <<pc, planned, live, confirm, saved, marker>>
    BY <1>3 DEF Delete
  <2>2. \A s \in Slots \ {t} : record'[s] = record[s]
    BY <1>0, <1>3, WrittenIs, ValuesType DEF Delete
  <2>3. t \notin confirm[q] /\ confirm[q] \subseteq Slots
    BY <1>3 DEF Delete, ToDelete, PlansAllStand, PlanStands, TypeOK
  <2> QED
    BY <1>0, <2>1, <2>2, <2>3 DEF CopiesHold, CopyHolds, Busy, IsLive
<1>4. CASE Update(q)
  <2> DEFINE t == fixing[q]
  <2>1. t \in Slots /\ t \notin confirm[q] /\ saved[q] \subseteq confirm[q] /\ confirm[q] \subseteq Slots
    BY <1>4 DEF Update, PlansAllStand, PlanStands, TypeOK
  <2>2. CASE /\ record' = Written(t, planned[q][t])
             /\ confirm' = [confirm EXCEPT ![q] = @ \cup {t}]
             /\ UNCHANGED pc
    <3>1. UNCHANGED <<pc, planned, live, saved, marker>> /\ confirm'[q] = confirm[q] \cup {t}
      BY <1>4, <2>2 DEF Update, TypeOK
    <3>2. /\ record'[t].value = planned[q][t] /\ record'[t].state = "pending"
          /\ \A s \in Slots \ {t} : record'[s] = record[s]
      BY <1>0, <2>1, <2>2, WrittenIs DEF TypeOK
    <3> HIDE DEF t
    <3> QED
      BY <1>0, <2>1, <3>1, <3>2 DEF CopiesHold, CopyHolds, Busy, IsLive
  <2>3. CASE pc' = [pc EXCEPT ![q] = "failed"]
    BY <2>3 DEF CopiesHold, Busy, TypeOK
  <2> QED
    BY <1>4, <2>2, <2>3 DEF Update
<1>5. CASE Report(q) \/ WaitForRoom(q) \/ Settle(q)
  <2>1. UNCHANGED <<planned, live, confirm, marker, record>> /\ saved'[q] = NowSaved(q)
    BY <1>5 DEF Report, WaitForRoom, Settle, TypeOK
  <2>2. ASSUME NEW s \in confirm[q], marker[DomainOf(s)] # "saved", DomainOf(s) \notin live[q]
        PROVE  CopyHolds(q, s)'
    <3>1. CopyHolds(q, s)
      BY <1>0, <2>2 DEF CopiesHold
    <3>2. s \in saved'[q] => s \in saved[q] \/ record[s].state = "saved"
      BY <2>1 DEF NowSaved, Read
    <3> QED
      BY <2>1, <3>1, <3>2 DEF CopyHolds
  <2>3. pc'[q] \in {"making", "settling"} => pc[q] # "marking"
    BY <1>5 DEF Report, WaitForRoom, Settle, TypeOK
  <2> QED
    BY <1>0, <2>1, <2>2, <2>3 DEF CopiesHold, Busy, IsLive
<1>6. CASE Made(q) \/ SettleMarkers(q)
  BY <1>0, <1>6 DEF Made, SettleMarkers, CopiesHold, CopyHolds, Busy, IsLive, TypeOK
<1>7. ASSUME NEW d \in Domains, Mark(q, d) PROVE CopiesHold(q)'
  <2>1. UNCHANGED <<pc, planned, live, confirm, saved, record>> /\ pc[q] = "marking"
    BY <1>7 DEF Mark
  <2>2. \A e \in Domains : marker'[e] # "saved" => marker[e] # "saved"
    BY <1>7 DEF Mark, TypeOK
  <2>3. \A s \in confirm[q] : DomainOf(s) \in Domains
    BY SlotsHaveDomains DEF TypeOK
  <2> QED
    BY <1>0, <2>1, <2>2, <2>3 DEF CopiesHold, CopyHolds, Busy
<1> QED
  BY <1>1, <1>2, <1>3, <1>4, <1>5, <1>6, <1>7 DEF HandoffStep

\* What another publisher may do, not being busy: begin, or lose its tab.
LEMMA BeginningsLeaveCopies ==
  ASSUME TypeOK, NEW q \in Publishers, CopiesHold(q),
         NEW p \in Publishers, Start(p) \/ Reload(p)
  PROVE  CopiesHold(q)'
<1> USE DEF sourceVars, planVars, makeVars, boundVars
<1>1. CASE p # q
  <2>1. UNCHANGED <<pc[q], planned[q], live[q], confirm[q], saved[q], record, marker>>
    BY <1>1 DEF Start, Plan, Reload, TypeOK
  <2> QED
    BY <2>1 DEF CopiesHold, CopyHolds, Busy, IsLive
<1>2. CASE Start(q)
  BY <1>2 DEF Start, Plan, CopiesHold, IsLive, TypeOK
<1>3. CASE Reload(q)
  BY <1>3 DEF Reload, CopiesHold, Busy, TypeOK
<1> QED
  BY <1>1, <1>2, <1>3

CopiesAllHold == \A q \in Publishers : CopiesHold(q)

LEMMA NextCopiesHold ==
  TypeOK /\ PlansAllStand /\ OneAtATime /\ OneAtATime' /\ CopiesAllHold /\ [Next]_vars
    => CopiesAllHold'
<1> SUFFICES ASSUME TypeOK, PlansAllStand, OneAtATime, OneAtATime', CopiesAllHold, [Next]_vars,
                    NEW q \in Publishers
             PROVE  CopiesHold(q)'
  BY DEF CopiesAllHold
<1> USE DEF sourceVars, planVars, makeVars, boundVars
<1>0. CopiesHold(q)
  BY DEF CopiesAllHold
<1>1. CASE ~Busy(q)'
  BY <1>1 DEF CopiesHold
<1>2. ASSUME NEW p \in Publishers, HandoffStep(p) PROVE CopiesHold(q)'
  <2>1. CASE p = q
    BY <1>0, <1>2, <2>1, OwnStepsHold
  <2>2. CASE p # q
    \* p is busy, so q is not; and p's step does not make it so
    <3>1. ~Busy(q)
      BY <1>2, <2>2, StepsAreOfTheBusy DEF OneAtATime
    <3>2. pc'[q] = pc[q]
      <4>1. ASSUME NEW s \in Slots, Create(p, s) \/ Found(p, s) \/ Delete(p, s) PROVE pc'[q] = pc[q]
        BY <4>1 DEF Create, Found, Delete
      <4>2. CASE Update(p) \/ Report(p) \/ WaitForRoom(p) \/ Made(p) \/ Settle(p) \/ SettleMarkers(p)
        BY <2>2, <4>2 DEF Update, Report, WaitForRoom, Made, Settle, SettleMarkers, TypeOK
      <4>3. ASSUME NEW d \in Domains, Mark(p, d) PROVE pc'[q] = pc[q]
        BY <4>3 DEF Mark
      <4> QED
        BY <1>2, <4>1, <4>2, <4>3 DEF HandoffStep
    <3> QED
      BY <1>1, <3>1, <3>2 DEF Busy
  <2> QED
    BY <2>1, <2>2
<1>3. ASSUME NEW p \in Publishers, Start(p) \/ Reload(p) PROVE CopiesHold(q)'
  BY <1>0, <1>3, BeginningsLeaveCopies
<1>4. ASSUME NEW t \in Slots, Confirm(t) \/ Lose(t) \/ UserWrites(t) PROVE CopiesHold(q)'
  <2>1. Busy(q) \/ ~Busy(q)'
    BY <1>4 DEF Confirm, Lose, UserWrites, Busy
  <2> QED
    BY <1>0, <1>1, <1>4, <2>1, OthersLeaveCopies
<1>5. ASSUME NEW d \in Domains, ConfirmMarker(d) \/ LoseMarker(d) PROVE CopiesHold(q)'
  BY <1>0, <1>5, MarkersLeaveCopies
<1>6. CASE UNCHANGED <<pc, planned, live, confirm, saved, record, marker>>
  BY <1>0, <1>6 DEF CopiesHold, CopyHolds, Busy, IsLive
<1>7. ASSUME NEW p \in Publishers, NEW s \in Slots, EditPreview(p, s) PROVE CopiesHold(q)'
  BY <1>6, <1>7 DEF EditPreview
<1>8. CASE UNCHANGED vars
  BY <1>6, <1>8 DEF vars
<1> QED
  BY <1>2, <1>3, <1>4, <1>5, <1>7, <1>8 DEF Next, Node

LEMMA CopiesHoldInTurn == Spec /\ []OneAtATime => [](TypeOK /\ PlansAllStand /\ CopiesAllHold)
<1>1. Init => CopiesAllHold
  BY DEF Init, CopiesAllHold, CopiesHold, Busy
<1> QED
  BY <1>1, NextCopiesHold, PlansStand, PTL DEF Spec

\* Publishers that take turns: what the target holds of a domain that was not live, once
\* the rows are settled and until the domain is live, is the Preview handed off, every
\* row of it saved, whatever earlier attempts left there (`handoff`, `createAt`, `settled`).
THEOREM WhatSettlesIsThePreview == Spec /\ []OneAtATime => []SettledIsThePreview
<1>1. PlansAllStand /\ CopiesAllHold => SettledIsThePreview
  <2> SUFFICES ASSUME PlansAllStand, CopiesAllHold, NEW p \in Publishers, NEW s \in Slots,
                      pc[p] = "marking", ~IsLive(DomainOf(s)), DomainOf(s) \notin live[p],
                      planned[p][s] # Absent
               PROVE  record[s].value = planned[p][s] /\ record[s].state = "saved"
    BY DEF SettledIsThePreview
  <2>1. s \in confirm[p] /\ s \in saved[p]
    BY DEF PlansAllStand, PlanStands, ToCopy
  <2>2. marker[DomainOf(s)] # "saved"
    BY DEF IsLive
  <2> QED
    BY <2>1, <2>2 DEF CopiesAllHold, CopiesHold, CopyHolds, Busy
<1> QED
  BY <1>1, CopiesHoldInTurn, PTL

\* Publishers that take turns: no step of a handoff changes or removes a record of a
\* domain that is live, or writes a seed into it (the header of handoff.js, `live`).
THEOREM ALiveDomainIsCreatedInto == Spec /\ []OneAtATime => LiveIsCreateOnly
<1> DEFINE CreatesOnly ==
      \A s \in Slots : IsLive(DomainOf(s)) /\ (\E p \in Publishers : HandoffStep(p)) =>
        \/ record'[s] = record[s]
        \/ ~Holds(s) /\ s \notin Seeds
<1>1. TypeOK /\ PlansAllStand /\ CopiesAllHold /\ [Next]_vars => CreatesOnly
  <2> SUFFICES ASSUME TypeOK, PlansAllStand, CopiesAllHold, NEW s \in Slots, IsLive(DomainOf(s)),
                      NEW p \in Publishers, HandoffStep(p)
               PROVE  record'[s] = record[s] \/ (~Holds(s) /\ s \notin Seeds)
    OBVIOUS
  <2> USE DEF sourceVars, planVars, makeVars, boundVars
  <2>0. record \in [Slots -> Record] /\ DomainOf(s) \in Domains
    BY SlotsHaveDomains DEF TypeOK, Record
  <2>1. pc[p] = "making" => DomainOf(s) \in live[p]
    BY <2>0 DEF CopiesAllHold, CopiesHold, Busy
  <2>2. ASSUME NEW t \in Slots, Create(p, t)
        PROVE  record'[s] = record[s] \/ (~Holds(s) /\ s \notin Seeds)
    <3>1. CASE t = s
      BY <2>1, <2>2, <3>1 DEF Create, ToCopy
    <3>2. CASE t # s
      BY <2>0, <2>2, <3>2, WrittenIs DEF Create, TypeOK
    <3> QED
      BY <3>1, <3>2
  <2>3. ASSUME NEW t \in Slots, Delete(p, t) PROVE record'[s] = record[s]
    <3>1. t # s
      BY <2>1, <2>3 DEF Delete, ToDelete
    <3> QED
      BY <2>0, <2>3, <3>1, WrittenIs, ValuesType DEF Delete
  <2>4. CASE Update(p)
    <3>1. fixing[p] \in Slots /\ fixing[p] # s
      BY <2>1, <2>4 DEF Update, PlansAllStand, PlanStands, TypeOK
    <3> QED
      BY <2>0, <2>4, <3>1, WrittenIs DEF Update, TypeOK
  <2>5. CASE UNCHANGED record
    BY <2>5
  <2>6. CASE (\E t \in Slots : Found(p, t)) \/ (\E d \in Domains : Mark(p, d))
    BY <2>5, <2>6 DEF Found, Mark
  <2>7. CASE Report(p) \/ WaitForRoom(p) \/ Made(p) \/ Settle(p) \/ SettleMarkers(p)
    BY <2>5, <2>7 DEF Report, WaitForRoom, Made, Settle, SettleMarkers
  <2> QED
    BY <2>2, <2>3, <2>4, <2>6, <2>7 DEF HandoffStep
<1>2. CreatesOnly => [CreatesOnly]_vars
  OBVIOUS
<1> QED
  BY <1>1, CopiesHoldInTurn, PTL DEF Spec, LiveIsCreateOnly

=============================================================================
