------------------------- MODULE DraftWriter_proofs ------------------------
(***************************************************************************)
(* Proofs about the draft writer, for any number of tabs, records and      *)
(* edits: its type invariant, that a tab with nothing to write and nothing *)
(* to hear shows what the owner's tree holds, and that what a tab holds to *)
(* write is its own person's.                                              *)
(***************************************************************************)
EXTENDS DraftWriter, TLAPS

(***************************************************************************)
(* The operators.                                                          *)
(***************************************************************************)

\* What the difference of two drafts is (definition.js, diff): the keys whose
\* bodies differ.
LEMMA DiffIsWhereTheyDiffer ==
  ASSUME NEW from \in Draft, NEW to \in Draft
  PROVE  Diff(from, to) = {k \in Keys : from[k] # to[k]}
BY DEF Diff, Puts, Dels, Draft

\* A write is left to make exactly when the drafts differ, and it is one of the
\* keys that do: the pass never ends with a difference it has seen.
LEMMA NextKeysExhaustDiff ==
  ASSUME NEW from \in Draft, NEW to \in Draft
  PROVE  /\ NextKeys(from, to) \subseteq Diff(from, to)
         /\ NextKeys(from, to) = {} <=> Diff(from, to) = {}
BY DEF NextKeys, Diff

\* Every turn of the pass keeps the pass and its flight well typed.
LEMMA ContinueType ==
  ASSUME TypeOK, NEW t \in Tabs, NEW b \in Draft, NEW w \in Draft, Continue(t, b, w)
  PROVE  /\ pass' \in [Tabs -> {"idle", "sent", "landed", "ending"}]
         /\ flight' \in [Tabs -> Flight]
<1>1. CASE /\ pass' = [pass EXCEPT ![t] = "ending"]
           /\ UNCHANGED flight
  BY <1>1 DEF TypeOK
<1>2. CASE \E k \in NextKeys(b, w) :
             /\ pass' = [pass EXCEPT ![t] = "sent"]
             /\ flight' = [flight EXCEPT ![t] =
                             [key |-> k, body |-> w[k], shared |-> k \in Schemas]]
  <2>1. PICK k \in NextKeys(b, w) :
             /\ pass' = [pass EXCEPT ![t] = "sent"]
             /\ flight' = [flight EXCEPT ![t] =
                             [key |-> k, body |-> w[k], shared |-> k \in Schemas]]
    BY <1>2
  <2>2. k \in Keys /\ w[k] \in Body
    BY DEF NextKeys, Puts, Dels, Draft
  <2>3. [key |-> k, body |-> w[k], shared |-> k \in Schemas] \in Flight
    <3>1. CASE k \in Schemas
      <4>1. (k \in Schemas) = TRUE
        BY <3>1
      <4> QED
        BY <2>2, <3>1, <4>1 DEF Flight
    <3>2. CASE k \notin Schemas
      <4>1. (k \in Schemas) = FALSE
        BY <3>2
      <4> QED
        BY <2>2, <4>1 DEF Flight
    <3> QED
      BY <3>1, <3>2
  <2> QED
    BY <2>1, <2>3 DEF TypeOK
<1> QED
  BY <1>1, <1>2 DEF Continue

LEMMA KickType ==
  ASSUME TypeOK, NEW t \in Tabs, NEW b \in Draft, NEW w \in Draft, Kick(t, b, w)
  PROVE  /\ pass' \in [Tabs -> {"idle", "sent", "landed", "ending"}]
         /\ flight' \in [Tabs -> Flight]
<1>1. CASE Continue(t, b, w)
  BY <1>1, ContinueType
<1>2. CASE UNCHANGED <<pass, flight>>
  BY <1>2 DEF TypeOK
<1> QED
  BY <1>1, <1>2 DEF Kick

LEMMA EditedType ==
  ASSUME TypeOK, edits < MaxEdits, NEW t \in Tabs, NEW k \in Keys, NEW v \in NewBodies(t, k)
  PROVE  v \in Body /\ edits + 1 \in Body /\ Edited(t, k, v) \in Draft
<1>1. edits + 1 \in Body /\ Absent \in Body
  BY ConstantsOK DEF TypeOK, Body, Absent
<1>2. v \in Body
  BY <1>1 DEF NewBodies
<1> QED
  BY <1>1, <1>2 DEF Edited, TypeOK, Draft

(***************************************************************************)
(* The type invariant.                                                     *)
(***************************************************************************)

LEMMA InitTypeOK == Init => TypeOK
<1> SUFFICES ASSUME Init PROVE TypeOK
  OBVIOUS
<1>1. Absent \in Body /\ 1 \in Body /\ Never \in Body \cup {Never}
  BY ConstantsOK DEF Absent, Body
<1>2. Empty \in Draft /\ tree \in Draft
  BY <1>1 DEF Init, Empty, Draft
<1>3. (CHOOSE k \in Keys : TRUE) \in Keys
  BY ConstantsOK
<1>4. flight \in [Tabs -> Flight]
  BY <1>1, <1>3 DEF Init, Flight
<1> QED
  BY <1>1, <1>2, <1>4 DEF Init, TypeOK

LEMMA NextTypeOK == TypeOK /\ [Next]_vars => TypeOK'
<1> SUFFICES ASSUME TypeOK, [Next]_vars PROVE TypeOK'
  OBVIOUS
<1>1. ASSUME NEW t \in Tabs, NEW k \in Keys, Edit(t, k) PROVE TypeOK'
  <2>1. PICK v \in NewBodies(t, k) :
          LET w == Edited(t, k, v)
              b == IF k \in shared[t] THEN [base[t] EXCEPT ![k] = v] ELSE base[t]
          IN  /\ canvas' = [canvas EXCEPT ![t] = w]
              /\ base' = [base EXCEPT ![t] = b]
              /\ mine' = [mine EXCEPT ![t] =
                            [j \in Keys |-> IF j = k \/ w[j] # canvas[t][j] THEN w[j] ELSE @[j]]]
              /\ IF Attached(t) THEN Kick(t, b, w) ELSE UNCHANGED <<pass, flight>>
    BY <1>1 DEF Edit
  <2> DEFINE w == Edited(t, k, v)
             b == IF k \in shared[t] THEN [base[t] EXCEPT ![k] = v] ELSE base[t]
             m == [j \in Keys |-> IF j = k \/ w[j] # canvas[t][j] THEN w[j] ELSE mine[t][j]]
  <2>2. v \in Body /\ edits + 1 \in Body /\ w \in Draft
    BY <1>1, EditedType DEF Edit
  <2>3. b \in Draft
    BY <2>2 DEF TypeOK, Draft
  <2>4. m \in [Keys -> Body \cup {Never}]
    BY <2>2 DEF TypeOK, Draft
  <2>5. /\ pass' \in [Tabs -> {"idle", "sent", "landed", "ending"}]
        /\ flight' \in [Tabs -> Flight]
    BY <2>1, <2>2, <2>3, KickType DEF TypeOK
  <2>6. canvas' \in [Tabs -> Draft] /\ base' \in [Tabs -> Draft]
    BY <2>1, <2>2, <2>3 DEF TypeOK
  <2>7. mine' = [mine EXCEPT ![t] = m]
    BY <2>1
  <2>8. mine' \in [Tabs -> [Keys -> Body \cup {Never}]]
    BY <2>4, <2>7 DEF TypeOK
  <2> QED
    BY <1>1, <2>2, <2>5, <2>6, <2>8 DEF Edit, TypeOK, watchVars
<1>2. ASSUME NEW t \in Tabs, Retry(t) PROVE TypeOK'
  <2>1. /\ pass' \in [Tabs -> {"idle", "sent", "landed", "ending"}]
        /\ flight' \in [Tabs -> Flight]
    BY <1>2, KickType DEF Retry, TypeOK
  <2> QED
    BY <1>2, <2>1 DEF Retry, TypeOK, watchVars
<1>3. ASSUME NEW t \in Tabs, Attach(t) PROVE TypeOK'
  <2>1. tree \in Draft /\ canvas[t] \in Draft
    BY DEF TypeOK
  <2>2. /\ pass' \in [Tabs -> {"idle", "sent", "landed", "ending"}]
        /\ flight' \in [Tabs -> Flight]
    BY <1>3, <2>1, KickType DEF Attach, TypeOK
  <2>3. phase' \in [Tabs -> {"opening", "attached", "watching", "closed"}]
    BY <1>3 DEF Attach, TypeOK
  <2>4. base' \in [Tabs -> Draft] /\ canvas' \in [Tabs -> Draft]
    BY <1>3, <2>1 DEF Attach, TypeOK
  <2>5. shared' \in [Tabs -> SUBSET Schemas]
    <3>1. {k \in Schemas : tree[k] # Absent} \in SUBSET Schemas
      OBVIOUS
    <3> QED
      BY <1>3, <3>1 DEF Attach, TypeOK
  <2> QED
    BY <1>3, <2>2, <2>3, <2>4, <2>5 DEF Attach, TypeOK, watchVars
<1>4. ASSUME NEW t \in Tabs, Watch(t) PROVE TypeOK'
  BY <1>4 DEF Watch, TypeOK, writerVars, watchVars
<1>5. ASSUME NEW t \in Tabs, Dispose(t) PROVE TypeOK'
  BY <1>5 DEF Dispose, TypeOK, writerVars, watchVars
<1>6. ASSUME NEW t \in Tabs, Reopen(t) PROVE TypeOK'
  <2>1. Empty \in Draft
    BY ConstantsOK DEF Empty, Draft, Absent, Body
  <2> QED
    BY <1>6, <2>1 DEF Reopen, TypeOK
<1>7. ASSUME NEW t \in Tabs, Land(t) PROVE TypeOK'
  <2>1. tree' \in Draft
    BY <1>7 DEF Land, TypeOK, Draft, Flight
  <2> QED
    BY <1>7, <2>1 DEF Land, TypeOK
<1>8. ASSUME NEW t \in Tabs, Answer(t) PROVE TypeOK'
  <2>1. Answered(t) \in Draft
    BY DEF Answered, TypeOK, Draft, Flight
  <2>2. CASE Attached(t)
    <3>1. /\ pass' \in [Tabs -> {"idle", "sent", "landed", "ending"}]
          /\ flight' \in [Tabs -> Flight]
      BY <1>8, <2>1, <2>2, ContinueType DEF Answer, TypeOK
    <3>2. base' \in [Tabs -> Draft] /\ error' \in [Tabs -> BOOLEAN]
      BY <1>8, <2>1, <2>2 DEF Answer, TypeOK
    <3>3. shared' \in [Tabs -> SUBSET Schemas]
      <4>1. flight[t].shared => flight[t].key \in Schemas
        BY DEF TypeOK, Flight
      <4>2. shared' = IF flight[t].shared
                        THEN [shared EXCEPT ![t] = @ \cup {flight[t].key}] ELSE shared
        BY <1>8, <2>2 DEF Answer
      <4> QED
        BY <4>1, <4>2 DEF TypeOK
    <3> QED
      BY <1>8, <3>1, <3>2, <3>3 DEF Answer, TypeOK, watchVars
  <2>3. CASE ~Attached(t)
    BY <1>8, <2>3 DEF Answer, TypeOK, watchVars
  <2> QED
    BY <2>2, <2>3
<1>9. ASSUME NEW t \in Tabs, Refuse(t) PROVE TypeOK'
  BY <1>9 DEF Refuse, TypeOK, watchVars
<1>10. ASSUME NEW t \in Tabs, EndPass(t) PROVE TypeOK'
  BY <1>10 DEF EndPass, TypeOK, watchVars
<1>11. ASSUME NEW t \in Tabs, Reread(t) PROVE TypeOK'
  <2>1. /\ told' \in [Tabs -> BOOLEAN] /\ missed' \in [Tabs -> BOOLEAN]
        /\ UNCHANGED <<tree, phase, fresh, writerVars, edits, born, mine>>
    BY <1>11 DEF Reread, TypeOK
  <2>2. /\ reading' \in [Tabs -> BOOLEAN] /\ rows' \in [Tabs -> Draft]
        /\ watchError' \in [Tabs -> BOOLEAN]
    <3>1. CASE /\ reading' = [reading EXCEPT ![t] = TRUE]
               /\ rows' = [rows EXCEPT ![t] = tree]
               /\ UNCHANGED watchError
      BY <3>1 DEF TypeOK
    <3>2. CASE /\ watchError' = [watchError EXCEPT ![t] = TRUE]
               /\ UNCHANGED <<reading, rows>>
      BY <3>2 DEF TypeOK
    <3> QED
      BY <1>11, <3>1, <3>2 DEF Reread
  <2> QED
    BY <2>1, <2>2 DEF TypeOK, writerVars
<1>12. ASSUME NEW t \in Tabs, Deliver(t) PROVE TypeOK'
  <2> DEFINE moved == Merged(t) # canvas[t]
  <2>1. rows[t] \in Draft /\ Merged(t) \in Draft
    BY DEF TypeOK, Merged, Draft
  <2>2. /\ reading' \in [Tabs -> BOOLEAN] /\ watchError' \in [Tabs -> BOOLEAN]
        /\ base' \in [Tabs -> Draft] /\ said' \in [Tabs -> BOOLEAN]
    BY <1>12, <2>1 DEF Deliver, TypeOK
  <2>3. shared' \in [Tabs -> SUBSET Schemas]
    <3>1. {k \in Schemas : moved /\ k \notin Held(t) /\ rows[t][k] # Absent} \in SUBSET Schemas
      OBVIOUS
    <3>2. shared' = [shared EXCEPT ![t] =
                       {k \in Schemas : moved /\ k \notin Held(t) /\ rows[t][k] # Absent}]
      BY <1>12 DEF Deliver
    <3> QED
      BY <3>1, <3>2 DEF TypeOK
  <2>4. /\ pass' \in [Tabs -> {"idle", "sent", "landed", "ending"}]
        /\ flight' \in [Tabs -> Flight]
    <3>1. CASE pass[t] = "idle"
      BY <1>12, <2>1, <3>1, ContinueType DEF Deliver
    <3>2. CASE pass[t] # "idle"
      <4> DEFINE s == flight[t].shared /\ (moved => flight[t].key \in Held(t))
      <4>1. flight' = [flight EXCEPT ![t].shared = s] /\ UNCHANGED pass
        BY <1>12, <3>2 DEF Deliver
      <4>2. CASE s
        <5>1. flight[t].shared = TRUE /\ s = TRUE
          BY <4>2 DEF TypeOK, Flight
        <5>2. flight' = flight
          BY <4>1, <5>1 DEF TypeOK, Flight
        <5> QED
          BY <4>1, <5>2 DEF TypeOK
      <4>3. CASE ~s
        <5>1. s = FALSE
          BY <4>3
        <5> HIDE DEF s
        <5> QED
          BY <4>1, <5>1 DEF TypeOK, Flight
      <4> QED
        BY <4>2, <4>3
    <3> QED
      BY <3>1, <3>2
  <2>5. CASE canvas' = [canvas EXCEPT ![t] = Merged(t)] /\ UNCHANGED <<edits, mine>>
    BY <1>12, <2>1, <2>2, <2>3, <2>4, <2>5 DEF Deliver, TypeOK
  <2>6. CASE /\ edits < MaxEdits
             /\ edits' = edits + 1
             /\ \E k \in Meta \ Held(t) :
                  /\ canvas' = [canvas EXCEPT ![t] = [Merged(t) EXCEPT ![k] = edits + 1]]
                  /\ mine' = [mine EXCEPT ![t][k] = edits + 1]
    <3>1. PICK k \in Meta \ Held(t) :
            /\ canvas' = [canvas EXCEPT ![t] = [Merged(t) EXCEPT ![k] = edits + 1]]
            /\ mine' = [mine EXCEPT ![t][k] = edits + 1]
      BY <2>6
    <3>2. edits + 1 \in Body /\ k \in Keys
      BY <2>6, ConstantsOK DEF TypeOK, Body, Keys
    <3>3. canvas' \in [Tabs -> Draft]
      BY <2>1, <3>1, <3>2 DEF TypeOK, Draft
    <3>4. mine' \in [Tabs -> [Keys -> Body \cup {Never}]]
      BY <3>1, <3>2 DEF TypeOK
    <3> QED
      BY <1>12, <2>2, <2>3, <2>4, <2>6, <3>2, <3>3, <3>4 DEF Deliver, TypeOK
  <2> QED
    BY <1>12, <2>5, <2>6 DEF Deliver
<1>13. CASE UNCHANGED vars
  BY <1>13 DEF vars, writerVars, watchVars, TypeOK
<1> QED
  BY <1>1, <1>2, <1>3, <1>4, <1>5, <1>6, <1>7, <1>8, <1>9, <1>10, <1>11, <1>12, <1>13 DEF Next

\* Every state of the draft writer is well typed: bodies stay within the edits
\* made, and a write that shares the canvas's object is a schema's.
THEOREM TypeCorrect == Spec => []TypeOK
<1>1. Init => TypeOK
  BY InitTypeOK
<1>2. TypeOK /\ [Next]_vars => TypeOK'
  BY NextTypeOK
<1> QED
  BY <1>1, <1>2, PTL DEF Spec


(***************************************************************************)
(* A tab that has nothing to write and nothing to hear shows what the tree *)
(* holds.  NeverSilentlyStale speaks of quiet tabs only, so it is not      *)
(* inductive: the invariant says, of every stage an open tab can be at,    *)
(* what its base knows of the tree.                                        *)
(***************************************************************************)

\* The keys whose bodies the canvas does not share.
Copied == Keys \ Schemas

\* A writer is told the canvas before it writes, and until it is told, the
\* canvas is what was read.
ToldBeforeItWrites(t) ==
  /\ fresh[t] => said[t]
  /\ phase[t] = "opening" => pass[t] = "idle"
  /\ Attached(t) /\ ~said[t] => canvas[t] = base[t] /\ pass[t] \notin {"sent", "landed"}

\* Only a tab that watches hears of the head, and one whose write landed has
\* the head move of it still to re-read when the door answers.
HearsItsOwnWrites(t) ==
  /\ phase[t] # "watching" => ~told[t] /\ ~reading[t]
  /\ phase[t] = "watching" /\ pass[t] = "landed" => told[t]

\* With no head move to come, the base is the tree, or will be when the re-read
\* is handed over or the write that landed is answered.
BaseIsTree(t) ==
  Attached(t) /\ ~told[t] /\ ~missed[t] =>
    \A k \in Copied :
      IF reading[t] THEN rows[t][k] = tree[k]
      ELSE IF phase[t] = "attached" /\ pass[t] = "landed" /\ flight[t].key = k
        THEN flight[t].body = tree[k]
      ELSE ~watchError[t] => base[t][k] = tree[k]

UpToDate(t) == ToldBeforeItWrites(t) /\ HearsItsOwnWrites(t) /\ BaseIsTree(t)

IInv == TypeOK /\ \A t \in Tabs : UpToDate(t)

\* What a tab's part of the invariant reads.
TabState(t) ==
  <<phase[t], fresh[t], canvas[t], said[t], base[t], pass[t], flight[t],
    told[t], reading[t], rows[t], watchError[t], missed[t]>>

LEMMA OthersUndisturbed ==
  ASSUME NEW u \in Tabs, UpToDate(u), UNCHANGED tree, UNCHANGED TabState(u)
  PROVE  UpToDate(u)'
BY DEF TabState, UpToDate, ToldBeforeItWrites, HearsItsOwnWrites, BaseIsTree, Attached

\* A turn of the pass sends nothing when the canvas is the base, and never
\* leaves the tab's write landed.
LEMMA ContinueSends ==
  ASSUME TypeOK, NEW t \in Tabs, NEW b \in Draft, NEW w \in Draft, Continue(t, b, w)
  PROVE  /\ pass'[t] \in {"sent", "ending"}
         /\ b = w => pass'[t] = "ending"
         /\ \A u \in Tabs \ {t} : pass'[u] = pass[u] /\ flight'[u] = flight[u]
BY DEF Continue, TypeOK, NextKeys, Puts, Dels

LEMMA KickSends ==
  ASSUME TypeOK, NEW t \in Tabs, NEW b \in Draft, NEW w \in Draft, Kick(t, b, w)
  PROVE  /\ pass[t] = "idle" => pass'[t] \in {"sent", "ending"}
         /\ pass[t] = "idle" /\ b = w => pass'[t] = "ending"
         /\ pass[t] # "idle" => pass'[t] = pass[t] /\ flight'[t] = flight[t]
         /\ \A u \in Tabs \ {t} : pass'[u] = pass[u] /\ flight'[u] = flight[u]
<1>1. CASE pass[t] = "idle"
  BY <1>1, ContinueSends DEF Kick
<1>2. CASE pass[t] # "idle"
  BY <1>2 DEF Kick
<1> QED
  BY <1>1, <1>2

LEMMA InitUpToDate == Init => \A t \in Tabs : UpToDate(t)
<1> SUFFICES ASSUME Init, NEW t \in Tabs PROVE UpToDate(t)
  OBVIOUS
<1>1. phase[t] = "opening" /\ pass[t] = "idle" /\ ~told[t] /\ ~reading[t]
  BY DEF Init
<1>2. fresh[t] => said[t]
  BY DEF Init
<1> QED
  BY <1>1, <1>2 DEF UpToDate, ToldBeforeItWrites, HearsItsOwnWrites, BaseIsTree, Attached

LEMMA NextUpToDate ==
  ASSUME InOrder, IInv, [Next]_vars, NEW u \in Tabs
  PROVE  UpToDate(u)'
<1> USE DEF IInv
<1>1. ASSUME NEW t \in Tabs, NEW k \in Keys, Edit(t, k) PROVE UpToDate(u)'
  <2>1. PICK v \in NewBodies(t, k) :
          LET w == Edited(t, k, v)
              b == IF k \in shared[t] THEN [base[t] EXCEPT ![k] = v] ELSE base[t]
          IN  /\ canvas' = [canvas EXCEPT ![t] = w]
              /\ base' = [base EXCEPT ![t] = b]
              /\ IF Attached(t) THEN Kick(t, b, w) ELSE UNCHANGED <<pass, flight>>
    BY <1>1 DEF Edit
  <2> DEFINE w == Edited(t, k, v)
             b == IF k \in shared[t] THEN [base[t] EXCEPT ![k] = v] ELSE base[t]
  <2>2. w \in Draft /\ b \in Draft
    BY <1>1, EditedType DEF Edit, TypeOK, Draft
  <2>3. UNCHANGED <<tree, phase, fresh, told, reading, rows, watchError, missed>>
    BY <1>1 DEF Edit, watchVars
  <2>4. \A j \in Copied : base'[t][j] = base[t][j]
    BY <2>1, <2>2 DEF TypeOK, Copied, Draft
  <2>5. CASE u # t
    <3>1. UNCHANGED <<canvas[u], said[u], base[u]>>
      BY <1>1, <2>1, <2>5 DEF Edit, TypeOK
    <3>2. UNCHANGED <<pass[u], flight[u]>>
      BY <2>1, <2>2, <2>5, KickSends
    <3> QED
      BY <2>3, <3>1, <3>2, OthersUndisturbed DEF TabState
  <2>6. CASE u = t /\ Attached(t)
    <3>1. said'[t] = TRUE
      BY <1>1 DEF Edit, TypeOK
    <3>2. /\ pass[t] = "idle" => pass'[t] \in {"sent", "ending"}
          /\ pass[t] # "idle" => pass'[t] = pass[t] /\ flight'[t] = flight[t]
      BY <2>1, <2>2, <2>6, KickSends
    <3>3. ToldBeforeItWrites(t)'
      BY <2>3, <2>6, <3>1 DEF ToldBeforeItWrites, Attached
    <3>4. HearsItsOwnWrites(t)'
      BY <2>3, <2>6, <3>2 DEF UpToDate, HearsItsOwnWrites
    <3>5. BaseIsTree(t)'
      BY <2>3, <2>4, <2>6, <3>2 DEF UpToDate, BaseIsTree, Attached
    <3> QED
      BY <2>6, <3>3, <3>4, <3>5 DEF UpToDate
  <2>7. CASE u = t /\ ~Attached(t)
    BY <1>1, <2>1, <2>3, <2>7
    DEF Edit, TypeOK, UpToDate, ToldBeforeItWrites, HearsItsOwnWrites, BaseIsTree, Attached
  <2> QED
    BY <2>5, <2>6, <2>7
<1>2. ASSUME NEW t \in Tabs, Retry(t) PROVE UpToDate(u)'
  <2>1. canvas[t] \in Draft /\ base[t] \in Draft /\ pass[t] = "idle" /\ Kick(t, base[t], canvas[t])
    BY <1>2 DEF Retry, TypeOK
  <2>2. UNCHANGED <<tree, phase, fresh, canvas, said, base, told, reading, rows, watchError, missed>>
    BY <1>2 DEF Retry, watchVars
  <2>3. CASE u # t
    <3>1. UNCHANGED <<pass[u], flight[u]>>
      BY <2>1, <2>3, KickSends
    <3> QED
      BY <2>2, <3>1, OthersUndisturbed DEF TabState
  <2>4. CASE u = t
    <3>1. /\ pass'[t] \in {"sent", "ending"}
          /\ base[t] = canvas[t] => pass'[t] = "ending"
      BY <2>1, KickSends
    <3> QED
      BY <1>2, <2>2, <2>4, <3>1
      DEF Retry, UpToDate, ToldBeforeItWrites, HearsItsOwnWrites, BaseIsTree, Attached
  <2> QED
    BY <2>3, <2>4
<1>3. ASSUME NEW t \in Tabs, Attach(t) PROVE UpToDate(u)'
  <2>1. tree \in Draft /\ canvas[t] \in Draft /\ pass[t] = "idle" /\ ~told[t] /\ ~reading[t]
    BY <1>3 DEF Attach, TypeOK, UpToDate, ToldBeforeItWrites, HearsItsOwnWrites
  <2>2. UNCHANGED <<tree, fresh, said, told, reading, rows, watchError, missed>>
    BY <1>3 DEF Attach, watchVars
  <2>3. CASE u # t
    <3>1. UNCHANGED <<pass[u], flight[u]>>
      BY <1>3, <2>1, <2>3, KickSends DEF Attach
    <3>2. UNCHANGED <<phase[u], canvas[u], base[u]>>
      BY <1>3, <2>3 DEF Attach, TypeOK
    <3> QED
      BY <2>2, <3>1, <3>2, OthersUndisturbed DEF TabState
  <2>4. CASE u = t
    <3>1. phase'[t] = "attached" /\ base'[t] = tree
      BY <1>3 DEF Attach, TypeOK
    <3>2. pass'[t] \in {"idle", "sent", "ending"}
      BY <1>3, <2>1, KickSends DEF Attach
    <3>3. ~said[t] => canvas'[t] = tree /\ pass'[t] = "idle"
      BY <1>3, <2>1 DEF Attach, TypeOK, UpToDate, ToldBeforeItWrites
    <3>4. ToldBeforeItWrites(t)'
      BY <2>2, <3>1, <3>3 DEF UpToDate, ToldBeforeItWrites, Attached
    <3>5. HearsItsOwnWrites(t)' /\ BaseIsTree(t)'
      BY <2>1, <2>2, <3>1, <3>2 DEF HearsItsOwnWrites, BaseIsTree
    <3> QED
      BY <2>4, <3>4, <3>5 DEF UpToDate
  <2> QED
    BY <2>3, <2>4
<1>4. ASSUME NEW t \in Tabs, Watch(t) PROVE UpToDate(u)'
  <2>1. UNCHANGED <<tree, fresh, canvas, said, base, pass, flight, told, reading, rows,
                    watchError, missed>>
    BY <1>4 DEF Watch, writerVars, watchVars
  <2>2. CASE u # t
    BY <1>4, <2>1, <2>2, OthersUndisturbed DEF Watch, TypeOK, TabState
  <2>3. CASE u = t
    BY <1>4, <2>1, <2>3
    DEF Watch, TypeOK, UpToDate, ToldBeforeItWrites, HearsItsOwnWrites, BaseIsTree, Attached
  <2> QED
    BY <2>2, <2>3
<1>5. ASSUME NEW t \in Tabs, Dispose(t) PROVE UpToDate(u)'
  <2>1. UNCHANGED <<tree, fresh, canvas, said, base, pass, flight, rows, watchError, missed>>
    BY <1>5 DEF Dispose, writerVars
  <2>2. CASE u # t
    BY <1>5, <2>1, <2>2, OthersUndisturbed DEF Dispose, TypeOK, TabState
  <2>3. CASE u = t
    BY <1>5, <2>1, <2>3
    DEF Dispose, TypeOK, UpToDate, ToldBeforeItWrites, HearsItsOwnWrites, BaseIsTree, Attached
  <2> QED
    BY <2>2, <2>3
<1>6. ASSUME NEW t \in Tabs, Reopen(t) PROVE UpToDate(u)'
  <2>1. UNCHANGED <<tree, pass, flight, told, reading, rows>>
    BY <1>6 DEF Reopen
  <2>2. CASE u # t
    BY <1>6, <2>1, <2>2, OthersUndisturbed DEF Reopen, TypeOK, TabState
  <2>3. CASE u = t
    <3>1. phase'[t] = "opening" /\ pass'[t] = "idle" /\ ~fresh'[t] /\ ~told'[t] /\ ~reading'[t]
      BY <1>6, <2>1 DEF Reopen, TypeOK, UpToDate, HearsItsOwnWrites
    <3> QED
      BY <2>3, <3>1 DEF UpToDate, ToldBeforeItWrites, HearsItsOwnWrites, BaseIsTree, Attached
  <2> QED
    BY <2>2, <2>3
<1>7. ASSUME NEW t \in Tabs, Land(t) PROVE UpToDate(u)'
  <2>1. UNCHANGED <<phase, fresh, canvas, said, base, flight, reading, rows, watchError>>
    BY <1>7 DEF Land
  <2>2. /\ told'[u] = (told[u] \/ phase[u] = "watching")
        /\ missed'[u] = (missed[u] \/ (u # t /\ phase[u] = "attached"))
    BY <1>7 DEF Land
  <2>3. CASE u # t
    <3>1. pass'[u] = pass[u]
      BY <1>7, <2>3 DEF Land, TypeOK
    <3>2. Attached(u) => told'[u] \/ missed'[u]
      BY <2>2, <2>3 DEF Attached
    <3> QED
      BY <2>1, <2>2, <3>1, <3>2
      DEF UpToDate, ToldBeforeItWrites, HearsItsOwnWrites, BaseIsTree, Attached
  <2>4. CASE u = t
    <3>1. pass[t] = "sent" /\ pass'[t] = "landed" /\ flight[t].key \in Keys
      BY <1>7 DEF Land, TypeOK, Flight
    <3>2. /\ tree'[flight[t].key] = flight[t].body
          /\ \A k \in Keys \ {flight[t].key} : tree'[k] = tree[k]
      BY <1>7, <3>1 DEF Land, TypeOK, Draft
    <3>3. ToldBeforeItWrites(t)'
      BY <2>1, <2>4, <3>1 DEF UpToDate, ToldBeforeItWrites, Attached
    <3>4. HearsItsOwnWrites(t)'
      BY <2>1, <2>2, <2>4 DEF UpToDate, HearsItsOwnWrites
    <3>5. BaseIsTree(t)'
      BY <2>1, <2>2, <2>4, <3>1, <3>2 DEF UpToDate, HearsItsOwnWrites, BaseIsTree, Attached, Copied
    <3> QED
      BY <2>4, <3>3, <3>4, <3>5 DEF UpToDate
  <2> QED
    BY <2>3, <2>4
<1>8. ASSUME NEW t \in Tabs, Answer(t) PROVE UpToDate(u)'
  <2>1. UNCHANGED <<tree, phase, fresh, canvas, said, told, reading, rows, watchError, missed>>
    BY <1>8 DEF Answer, watchVars
  <2>2. CASE Attached(t)
    <3>1. Answered(t) \in Draft /\ canvas[t] \in Draft
      BY DEF Answered, TypeOK, Draft, Flight
    <3>2. /\ pass[t] = "landed"
          /\ base' = [base EXCEPT ![t] = Answered(t)]
          /\ Continue(t, Answered(t), canvas[t])
      BY <1>8, <2>2 DEF Answer
    <3>3. CASE u # t
      <4>1. UNCHANGED <<base[u], pass[u], flight[u]>>
        BY <3>1, <3>2, <3>3, ContinueSends DEF TypeOK
      <4> QED
        BY <2>1, <4>1, OthersUndisturbed DEF TabState
    <3>4. CASE u = t
      <4>1. pass'[t] \in {"sent", "ending"}
        BY <3>1, <3>2, ContinueSends
      <4>2. base'[t] = Answered(t) /\ said[t]
        BY <2>2, <3>2, <3>4 DEF TypeOK, UpToDate, ToldBeforeItWrites
      <4>3. \A k \in Copied :
              Answered(t)[k] = IF flight[t].key = k THEN flight[t].body ELSE base[t][k]
        BY DEF Answered, TypeOK, Flight, Draft, Copied
      <4>4. ToldBeforeItWrites(t)' /\ HearsItsOwnWrites(t)'
        BY <2>1, <2>2, <3>4, <4>1, <4>2
        DEF UpToDate, ToldBeforeItWrites, HearsItsOwnWrites, Attached
      <4>5. BaseIsTree(t)'
        BY <2>1, <2>2, <3>2, <3>4, <4>1, <4>2, <4>3
        DEF UpToDate, HearsItsOwnWrites, BaseIsTree, Attached
      <4> QED
        BY <3>4, <4>4, <4>5 DEF UpToDate
    <3> QED
      BY <3>3, <3>4
  <2>3. CASE ~Attached(t)
    <3>1. pass' = [pass EXCEPT ![t] = "ending"] /\ UNCHANGED <<base, flight>>
      BY <1>8, <2>3 DEF Answer
    <3>2. CASE u # t
      BY <2>1, <3>1, <3>2, OthersUndisturbed DEF TypeOK, TabState
    <3>3. CASE u = t
      BY <1>8, <2>1, <2>3, <3>1, <3>3
      DEF Answer, TypeOK, UpToDate, ToldBeforeItWrites, HearsItsOwnWrites, BaseIsTree, Attached
    <3> QED
      BY <3>2, <3>3
  <2> QED
    BY <2>2, <2>3
<1>9. ASSUME NEW t \in Tabs, Refuse(t) PROVE UpToDate(u)'
  <2>1. UNCHANGED <<tree, phase, fresh, canvas, said, base, flight, told, reading, rows,
                    watchError, missed>>
    BY <1>9 DEF Refuse, watchVars
  <2>2. CASE u # t
    BY <1>9, <2>1, <2>2, OthersUndisturbed DEF Refuse, TypeOK, TabState
  <2>3. CASE u = t
    BY <1>9, <2>1, <2>3
    DEF Refuse, TypeOK, UpToDate, ToldBeforeItWrites, HearsItsOwnWrites, BaseIsTree, Attached
  <2> QED
    BY <2>2, <2>3
<1>10. ASSUME NEW t \in Tabs, EndPass(t) PROVE UpToDate(u)'
  <2>1. UNCHANGED <<tree, phase, fresh, canvas, said, base, flight, told, reading, rows,
                    watchError, missed>>
    BY <1>10 DEF EndPass, watchVars
  <2>2. CASE u # t
    BY <1>10, <2>1, <2>2, OthersUndisturbed DEF EndPass, TypeOK, TabState
  <2>3. CASE u = t
    BY <1>10, <2>1, <2>3
    DEF EndPass, TypeOK, UpToDate, ToldBeforeItWrites, HearsItsOwnWrites, BaseIsTree, Attached
  <2> QED
    BY <2>2, <2>3
<1>11. ASSUME NEW t \in Tabs, Reread(t) PROVE UpToDate(u)'
  <2>1. UNCHANGED <<tree, phase, fresh, canvas, said, base, pass, flight>>
    BY <1>11 DEF Reread, writerVars
  <2>2. CASE u # t
    BY <1>11, <2>1, <2>2, OthersUndisturbed DEF Reread, TypeOK, TabState
  <2>3. CASE u = t
    <3>1. phase[t] = "watching" /\ pass[t] # "landed" /\ ~told'[t] /\ ~reading[t]
      BY <1>11, <2>3 DEF Reread, TypeOK, UpToDate, HearsItsOwnWrites
    <3>2. \/ reading'[t] /\ rows'[t] = tree
          \/ ~reading'[t] /\ watchError'[t]
      BY <1>11, <3>1 DEF Reread, TypeOK
    <3> QED
      BY <2>1, <2>3, <3>1, <3>2
      DEF UpToDate, ToldBeforeItWrites, HearsItsOwnWrites, BaseIsTree, Attached
  <2> QED
    BY <2>2, <2>3
<1>12. ASSUME NEW t \in Tabs, Deliver(t) PROVE UpToDate(u)'
  <2>1. UNCHANGED <<tree, phase, fresh, told, rows, missed>>
    BY <1>12 DEF Deliver
  <2>2. /\ reading' = [reading EXCEPT ![t] = FALSE]
        /\ watchError' = [watchError EXCEPT ![t] = FALSE]
        /\ base' = [base EXCEPT ![t] = rows[t]]
        /\ said' = [said EXCEPT ![t] = TRUE]
    BY <1>12 DEF Deliver
  <2>3. rows[t] \in Draft /\ Merged(t) \in Draft
    BY DEF TypeOK, Merged, Draft
  <2>4. CASE u # t
    <3>1. canvas'[u] = canvas[u]
      BY <1>12, <2>4 DEF Deliver, TypeOK
    <3>2. pass'[u] = pass[u] /\ flight'[u] = flight[u]
      <4>1. CASE pass[t] = "idle"
        BY <1>12, <2>3, <2>4, <4>1, ContinueSends DEF Deliver
      <4>2. CASE pass[t] # "idle"
        BY <1>12, <2>4, <4>2 DEF Deliver, TypeOK
      <4> QED
        BY <4>1, <4>2
    <3>3. UNCHANGED <<reading[u], watchError[u], base[u], said[u]>>
      BY <2>2, <2>4 DEF TypeOK
    <3> QED
      BY <2>1, <3>1, <3>2, <3>3, OthersUndisturbed DEF TabState
  <2>5. CASE u = t
    <3>1. /\ ~reading'[t] /\ ~watchError'[t] /\ base'[t] = rows[t] /\ said'[t]
          /\ reading[t] /\ phase[t] = "watching"
      BY <1>12, <2>2, <2>5 DEF Deliver, TypeOK, UpToDate, HearsItsOwnWrites
    <3>2. pass[t] # "landed" => pass'[t] # "landed"
      <4>1. CASE pass[t] = "idle"
        BY <1>12, <2>3, <4>1, ContinueSends DEF Deliver
      <4>2. CASE pass[t] # "idle"
        BY <1>12, <4>2 DEF Deliver
      <4> QED
        BY <4>1, <4>2
    <3> QED
      BY <2>1, <2>5, <3>1, <3>2
      DEF UpToDate, ToldBeforeItWrites, HearsItsOwnWrites, BaseIsTree, Attached
  <2> QED
    BY <2>4, <2>5
<1>13. CASE UNCHANGED vars
  BY <1>13, OthersUndisturbed DEF vars, writerVars, watchVars, TabState
<1> QED
  BY <1>1, <1>2, <1>3, <1>4, <1>5, <1>6, <1>7, <1>8, <1>9, <1>10, <1>11, <1>12, <1>13 DEF Next

\* The invariant answers for the quiet tabs.
LEMMA UpToDateIsNeverStale == IInv => NeverSilentlyStale
<1> SUFFICES ASSUME IInv, NEW t \in Tabs, Quiet(t), ~missed[t], NEW k \in Keys \ Schemas
             PROVE  canvas[t][k] = tree[k]
  BY DEF NeverSilentlyStale
<1>1. phase[t] = "watching" /\ Held(t) = {} /\ ~told[t] /\ ~reading[t] /\ ~watchError[t]
  BY DEF Quiet
<1>2. canvas[t] \in Draft /\ base[t] \in Draft
  BY DEF IInv, TypeOK
<1>3. canvas[t][k] = base[t][k]
  <2>1. CASE said[t]
    BY <1>1, <1>2, <2>1, DiffIsWhereTheyDiffer DEF Held, Attached
  <2>2. CASE ~said[t]
    BY <1>1, <2>2 DEF IInv, UpToDate, ToldBeforeItWrites, Attached
  <2> QED
    BY <2>1, <2>2
<1>4. base[t][k] = tree[k]
  BY <1>1 DEF IInv, UpToDate, BaseIsTree, Attached, Copied
<1> QED
  BY <1>3, <1>4

LEMMA AlwaysUpToDate ==
  ASSUME InOrder
  PROVE  Spec => []IInv
<1>1. Init => IInv
  BY InitTypeOK, InitUpToDate DEF IInv
<1>2. IInv /\ [Next]_vars => IInv'
  <2> SUFFICES ASSUME IInv, [Next]_vars PROVE IInv'
    OBVIOUS
  <2>1. TypeOK'
    BY NextTypeOK DEF IInv
  <2>2. \A u \in Tabs : UpToDate(u)'
    BY NextUpToDate
  <2> QED
    BY <2>1, <2>2 DEF IInv
<1> QED
  BY <1>1, <1>2, PTL DEF Spec

\* For any number of tabs, records and edits, with or without refusals: when a
\* tab hears its answers and its re-reads in order, it never shows what the tree
\* does not hold while having nothing to write and nothing to hear (rebase,
\* pass and attach together).
THEOREM TabsFollowTheTree ==
  ASSUME InOrder
  PROVE  Spec => []NeverSilentlyStale
<1>1. IInv => NeverSilentlyStale
  BY UpToDateIsNeverStale
<1> QED
  BY <1>1, AlwaysUpToDate, PTL

(***************************************************************************)
(* What a tab holds to write is its own person's last edit of the record.  *)
(* A body is the number of the edit that made it, so until its write lands *)
(* nobody else has it: that is what no re-read of the tab can undo.  It is *)
(* not so of a removal, which every tab may show of a record.              *)
(***************************************************************************)

InAir(t) == pass[t] \in {"sent", "landed"}

Differs(t, k) == base[t][k] # canvas[t][k]

\* Is the body that the canvas shows in the tree, its write not answered yet?
Out(t, k) == pass[t] = "landed" /\ flight[t].key = k /\ flight[t].body = canvas[t][k]

\* Tab u has no body x of record k, to show, to compare with or to write.
HasNot(u, k, x) ==
  /\ canvas[u][k] # x /\ base[u][k] # x /\ rows[u][k] # x
  /\ InAir(u) /\ flight[u].key = k => flight[u].body # x

\* A record that differs is the person's edit, and no one has it before its write lands;
\* and a record whose write is in the air differs until the door answers.
Own(t, k) ==
  Attached(t) =>
    /\ k \in shared[t] => ~Differs(t, k)
    /\ InAir(t) /\ flight[t].key = k => Differs(t, k)
    /\ Differs(t, k) =>
         /\ mine[t][k] = canvas[t][k]
         /\ reading[t] => rows[t][k] # canvas[t][k]
         /\ ~Out(t, k) =>
              tree[k] # canvas[t][k] /\ \A u \in Tabs \ {t} : HasNot(u, k, canvas[t][k])

UpTo(draft, n) == \A k \in Keys : draft[k] <= n

\* No body is of an edit that is still to come.
BodiesAreMade ==
  /\ UpTo(tree, edits)
  /\ \A t \in Tabs : /\ UpTo(canvas[t], edits) /\ UpTo(base[t], edits) /\ UpTo(rows[t], edits)
                     /\ flight[t].body <= edits

\* A write that landed is answered before the next re-read of the draft is handed over.
AnsweredFirst == \A t \in Tabs : ~(reading[t] /\ pass[t] = "landed")

\* A turn of the pass sends a record that differs, as the canvas has it.
LEMMA ContinueInAir ==
  ASSUME TypeOK, NEW t \in Tabs, NEW b \in Draft, NEW w \in Draft, Continue(t, b, w)
  PROVE  /\ pass'[t] # "landed"
         /\ \A k \in Keys : InAir(t)' /\ flight'[t].key = k => b[k] # w[k] /\ flight'[t].body = w[k]
         /\ flight'[t] = flight[t] \/ \E k \in Keys : flight'[t].body = w[k]
         /\ \A u \in Tabs \ {t} : pass'[u] = pass[u] /\ flight'[u] = flight[u]
<1>1. CASE /\ pass' = [pass EXCEPT ![t] = "ending"]
           /\ UNCHANGED flight
  BY <1>1 DEF TypeOK, InAir
<1>2. CASE \E k \in NextKeys(b, w) :
             /\ pass' = [pass EXCEPT ![t] = "sent"]
             /\ flight' = [flight EXCEPT ![t] =
                             [key |-> k, body |-> w[k], shared |-> k \in Schemas]]
  <2>1. PICK k \in NextKeys(b, w) :
             /\ pass' = [pass EXCEPT ![t] = "sent"]
             /\ flight' = [flight EXCEPT ![t] =
                             [key |-> k, body |-> w[k], shared |-> k \in Schemas]]
    BY <1>2
  <2>2. k \in Keys /\ b[k] # w[k]
    BY DEF NextKeys, Puts, Dels
  <2>3. pass'[t] = "sent" /\ flight'[t].key = k /\ flight'[t].body = w[k]
    BY <2>1 DEF TypeOK
  <2>4. \A u \in Tabs \ {t} : pass'[u] = pass[u] /\ flight'[u] = flight[u]
    BY <2>1 DEF TypeOK
  <2> QED
    BY <2>2, <2>3, <2>4 DEF InAir
<1> QED
  BY <1>1, <1>2 DEF Continue

\* So does a kick, unless a pass is running, which it leaves alone.
LEMMA KickInAir ==
  ASSUME TypeOK, NEW t \in Tabs, NEW b \in Draft, NEW w \in Draft, Kick(t, b, w)
  PROVE  /\ pass'[t] = "landed" => pass[t] = "landed" /\ flight'[t] = flight[t]
         /\ \A k \in Keys : InAir(t)' /\ flight'[t].key = k =>
              \/ b[k] # w[k] /\ flight'[t].body = w[k]
              \/ InAir(t) /\ flight[t].key = k /\ flight'[t] = flight[t]
         /\ flight'[t] = flight[t] \/ \E k \in Keys : flight'[t].body = w[k]
         /\ \A u \in Tabs \ {t} : pass'[u] = pass[u] /\ flight'[u] = flight[u]
<1>1. CASE pass[t] = "idle"
  BY <1>1, ContinueInAir DEF Kick
<1>2. CASE pass[t] # "idle"
  <2>1. UNCHANGED <<pass, flight>>
    BY <1>2 DEF Kick
  <2> QED
    BY <2>1 DEF InAir
<1> QED
  BY <1>1, <1>2

\* An edit leaves a record as it was, or makes it the person's: with a body of its own or
\* none, which a schema's base shows at once.
LEMMA EditMoves ==
  ASSUME TypeOK, BodiesAreMade, NEW t \in Tabs, NEW j \in Keys, Edit(t, j), NEW k \in Keys
  PROVE  /\ \/ /\ canvas'[t][k] = canvas[t][k] /\ mine'[t][k] = mine[t][k]
               /\ base'[t][k] = base[t][k]
            \/ /\ canvas'[t][k] \in {edits + 1, Absent} /\ mine'[t][k] = canvas'[t][k]
               /\ base'[t][k] = IF k \in shared[t] THEN canvas'[t][k] ELSE base[t][k]
         /\ pass'[t] = "landed" => pass[t] = "landed" /\ flight'[t] = flight[t]
         /\ InAir(t)' /\ flight'[t].key = k =>
              \/ base'[t][k] # canvas'[t][k] /\ flight'[t].body = canvas'[t][k]
              \/ InAir(t) /\ flight[t].key = k /\ flight'[t] = flight[t]
         /\ flight'[t] = flight[t] \/ \E i \in Keys : flight'[t].body = canvas'[t][i]
         /\ \A u \in Tabs \ {t} : /\ canvas'[u] = canvas[u] /\ base'[u] = base[u] /\ mine'[u] = mine[u]
                                  /\ pass'[u] = pass[u] /\ flight'[u] = flight[u]
<1>1. PICK v \in NewBodies(t, j) :
        LET w == Edited(t, j, v)
            b == IF j \in shared[t] THEN [base[t] EXCEPT ![j] = v] ELSE base[t]
        IN  /\ canvas' = [canvas EXCEPT ![t] = w]
            /\ base' = [base EXCEPT ![t] = b]
            /\ mine' = [mine EXCEPT ![t] =
                          [i \in Keys |-> IF i = j \/ w[i] # canvas[t][i] THEN w[i] ELSE @[i]]]
            /\ IF Attached(t) THEN Kick(t, b, w) ELSE UNCHANGED <<pass, flight>>
  BY DEF Edit
<1> DEFINE w == Edited(t, j, v)
           b == IF j \in shared[t] THEN [base[t] EXCEPT ![j] = v] ELSE base[t]
<1>2. w \in Draft /\ b \in Draft
  BY EditedType DEF Edit, TypeOK, Draft
<1>3. /\ canvas'[t] = w /\ base'[t] = b
      /\ mine'[t][k] = IF k = j \/ w[k] # canvas[t][k] THEN w[k] ELSE mine[t][k]
  BY <1>1 DEF TypeOK
<1>4. \A u \in Tabs \ {t} : canvas'[u] = canvas[u] /\ base'[u] = base[u] /\ mine'[u] = mine[u]
  BY <1>1 DEF TypeOK
<1>5. v \in {edits + 1, Absent}
  BY DEF NewBodies
<1>6. w[k] = IF k = j THEN v
             ELSE IF k \in Meta /\ j \in Components /\ Absent \in {v, canvas[t][j]} THEN edits + 1
             ELSE canvas[t][k]
  BY DEF Edited
<1>7. b[k] = IF k = j /\ k \in shared[t] THEN v ELSE base[t][k]
  BY DEF TypeOK, Draft
<1>8. k \in Meta => k \notin shared[t]
  BY ConstantsOK DEF TypeOK
<1> HIDE DEF w, b
<1>9. CASE Attached(t)
  <2>1. Kick(t, b, w)
    BY <1>1, <1>9 DEF w, b
  <2> QED
    BY <1>2, <1>3, <1>4, <1>5, <1>6, <1>7, <1>8, <2>1, KickInAir
<1>10. CASE ~Attached(t)
  <2>1. UNCHANGED <<pass, flight>>
    BY <1>1, <1>10
  <2>2. InAir(t)' => InAir(t)
    BY <2>1 DEF InAir
  <2> QED
    BY <1>3, <1>4, <1>5, <1>6, <1>7, <1>8, <2>1, <2>2
<1> QED
  BY <1>9, <1>10

\* A draft handed over leaves what the tab holds, and takes the rest from the re-read but
\* for a stamp.
LEMMA DeliverMoves ==
  ASSUME TypeOK, NEW t \in Tabs, Deliver(t), NEW k \in Keys
  PROVE  /\ base'[t][k] = rows[t][k]
         /\ \/ canvas'[t][k] = Merged(t)[k] /\ mine'[t][k] = mine[t][k]
            \/ /\ k \in Meta \ Held(t) /\ edits' = edits + 1
               /\ canvas'[t][k] = edits + 1 /\ mine'[t][k] = edits + 1
         /\ k \in shared'[t] => k \in Schemas \ Held(t)
         /\ pass'[t] = "landed" => pass[t] = "landed"
         /\ InAir(t)' /\ flight'[t].key = k =>
              \/ Merged(t)[k] # rows[t][k] /\ flight'[t].body = Merged(t)[k]
              \/ InAir(t) /\ flight[t].key = k /\ flight'[t].body = flight[t].body
         /\ flight'[t].body = flight[t].body \/ \E i \in Keys : flight'[t].body = Merged(t)[i]
         /\ \A u \in Tabs \ {t} : /\ canvas'[u] = canvas[u] /\ base'[u] = base[u] /\ mine'[u] = mine[u]
                                  /\ pass'[u] = pass[u] /\ flight'[u] = flight[u]
                                  /\ shared'[u] = shared[u]
<1>1. Merged(t) \in Draft /\ rows[t] \in Draft
  BY DEF TypeOK, Merged, Draft
<1>2. base' = [base EXCEPT ![t] = rows[t]]
  BY DEF Deliver
<1>3. shared' = [shared EXCEPT ![t] =
                   {i \in Schemas : Merged(t) # canvas[t] /\ i \notin Held(t) /\ rows[t][i] # Absent}]
  BY DEF Deliver
<1>4. \/ canvas' = [canvas EXCEPT ![t] = Merged(t)] /\ UNCHANGED <<edits, mine>>
      \/ /\ edits' = edits + 1
         /\ \E i \in Meta \ Held(t) :
              /\ canvas' = [canvas EXCEPT ![t] = [Merged(t) EXCEPT ![i] = edits + 1]]
              /\ mine' = [mine EXCEPT ![t][i] = edits + 1]
  BY DEF Deliver
<1>5. /\ \/ canvas'[t][k] = Merged(t)[k] /\ mine'[t][k] = mine[t][k]
         \/ /\ k \in Meta \ Held(t) /\ edits' = edits + 1
            /\ canvas'[t][k] = edits + 1 /\ mine'[t][k] = edits + 1
      /\ \A u \in Tabs \ {t} : canvas'[u] = canvas[u] /\ mine'[u] = mine[u]
  <2>1. CASE canvas' = [canvas EXCEPT ![t] = Merged(t)] /\ UNCHANGED <<edits, mine>>
    BY <2>1 DEF TypeOK
  <2>2. CASE edits' = edits + 1 /\ \E i \in Meta \ Held(t) :
              /\ canvas' = [canvas EXCEPT ![t] = [Merged(t) EXCEPT ![i] = edits + 1]]
              /\ mine' = [mine EXCEPT ![t][i] = edits + 1]
    <3>1. PICK i \in Meta \ Held(t) :
              /\ canvas' = [canvas EXCEPT ![t] = [Merged(t) EXCEPT ![i] = edits + 1]]
              /\ mine' = [mine EXCEPT ![t][i] = edits + 1]
      BY <2>2
    <3>2. i \in Keys
      BY DEF Keys
    <3>3. canvas'[t][k] = IF k = i THEN edits + 1 ELSE Merged(t)[k]
      BY <1>1, <3>1, <3>2 DEF TypeOK, Draft
    <3>4. mine'[t][k] = IF k = i THEN edits + 1 ELSE mine[t][k]
      BY <3>1, <3>2 DEF TypeOK
    <3>5. \A u \in Tabs \ {t} : canvas'[u] = canvas[u] /\ mine'[u] = mine[u]
      BY <3>1 DEF TypeOK
    <3> QED
      BY <2>2, <3>3, <3>4, <3>5
  <2> QED
    BY <1>4, <2>1, <2>2
<1>6. /\ pass'[t] = "landed" => pass[t] = "landed"
      /\ InAir(t)' /\ flight'[t].key = k =>
           \/ Merged(t)[k] # rows[t][k] /\ flight'[t].body = Merged(t)[k]
           \/ InAir(t) /\ flight[t].key = k /\ flight'[t].body = flight[t].body
      /\ flight'[t].body = flight[t].body \/ \E i \in Keys : flight'[t].body = Merged(t)[i]
      /\ \A u \in Tabs \ {t} : pass'[u] = pass[u] /\ flight'[u] = flight[u]
  <2>1. CASE pass[t] = "idle"
    <3>1. Continue(t, rows[t], Merged(t))
      BY <2>1 DEF Deliver
    <3> QED
      BY <1>1, <3>1, ContinueInAir
  <2>2. CASE pass[t] # "idle"
    <3> DEFINE it == [flight[t] EXCEPT !.shared =
                        @ /\ (Merged(t) # canvas[t] => flight[t].key \in Held(t))]
    <3>1. pass' = pass /\ flight' = [flight EXCEPT ![t] = it]
      BY <2>2 DEF Deliver, TypeOK
    <3>2. it.key = flight[t].key /\ it.body = flight[t].body
      BY DEF TypeOK, Flight
    <3> HIDE DEF it
    <3>3. flight'[t].key = flight[t].key /\ flight'[t].body = flight[t].body
      BY <3>1, <3>2 DEF TypeOK
    <3>4. \A u \in Tabs \ {t} : flight'[u] = flight[u]
      BY <3>1 DEF TypeOK
    <3> QED
      BY <3>1, <3>3, <3>4 DEF InAir
  <2> QED
    BY <2>1, <2>2
<1>7. base'[t] = rows[t] /\ \A u \in Tabs \ {t} : base'[u] = base[u] /\ shared'[u] = shared[u]
  BY <1>2, <1>3 DEF TypeOK
<1>8. k \in shared'[t] => k \in Schemas \ Held(t)
  BY <1>3 DEF TypeOK
<1> QED
  BY <1>5, <1>6, <1>7, <1>8

\* A tab's step leaves the other tabs as they were, but for what they are told of the head.
Step(t) ==
  \/ \E k \in Keys : Edit(t, k)
  \/ Retry(t) \/ Attach(t) \/ Watch(t) \/ Dispose(t) \/ Reopen(t)
  \/ Land(t) \/ Answer(t) \/ Refuse(t) \/ EndPass(t)
  \/ Reread(t) \/ Deliver(t)

OwnState(t) ==
  <<phase[t], fresh[t], canvas[t], said[t], base[t], shared[t], pass[t], flight[t],
    reading[t], rows[t], mine[t]>>

LEMMA OthersStay ==
  ASSUME TypeOK, BodiesAreMade, NEW t \in Tabs, Step(t), NEW u \in Tabs \ {t}
  PROVE  UNCHANGED OwnState(u)
<1> USE DEF OwnState, writerVars, watchVars
<1>0. Keys # {}
  BY ConstantsOK
<1>1. CASE \E k \in Keys : Edit(t, k)
  <2>1. PICK k \in Keys : Edit(t, k)
    BY <1>1
  <2>2. /\ canvas'[u] = canvas[u] /\ base'[u] = base[u] /\ mine'[u] = mine[u]
        /\ pass'[u] = pass[u] /\ flight'[u] = flight[u]
    BY <2>1, EditMoves
  <2>3. UNCHANGED <<phase, fresh, shared, reading, rows>> /\ said'[u] = said[u]
    BY <2>1 DEF Edit, TypeOK
  <2> QED
    BY <2>2, <2>3
<1>2. CASE Retry(t)
  <2>1. base[t] \in Draft /\ canvas[t] \in Draft
    BY DEF TypeOK
  <2>2. pass'[u] = pass[u] /\ flight'[u] = flight[u]
    BY <1>2, <2>1, KickSends DEF Retry
  <2> QED
    BY <1>2, <2>2 DEF Retry
<1>3. CASE Attach(t)
  <2>1. tree \in Draft /\ canvas[t] \in Draft
    BY DEF TypeOK
  <2>2. pass'[u] = pass[u] /\ flight'[u] = flight[u]
    BY <1>3, <2>1, KickSends DEF Attach
  <2>3. canvas'[u] = canvas[u] /\ shared'[u] = shared[u]
    BY <1>3 DEF Attach, TypeOK
  <2>4. UNCHANGED <<fresh, said, reading, rows, mine>> /\ phase'[u] = phase[u] /\ base'[u] = base[u]
    BY <1>3 DEF Attach, TypeOK
  <2> QED
    BY <2>2, <2>3, <2>4
<1>4. CASE Watch(t) \/ Dispose(t)
  BY <1>4 DEF Watch, Dispose, TypeOK
<1>5. CASE Reopen(t)
  BY <1>5 DEF Reopen, TypeOK
<1>6. CASE Land(t) \/ Refuse(t) \/ EndPass(t)
  BY <1>6 DEF Land, Refuse, EndPass, TypeOK
<1>7. CASE Answer(t)
  <2>1. Answered(t) \in Draft /\ canvas[t] \in Draft
    BY DEF Answered, TypeOK, Flight, Draft
  <2>2. pass'[u] = pass[u] /\ flight'[u] = flight[u] /\ base'[u] = base[u] /\ shared'[u] = shared[u]
    <3>1. CASE Attached(t)
      <4>1. Continue(t, Answered(t), canvas[t])
        BY <1>7, <3>1 DEF Answer
      <4> QED
        BY <1>7, <2>1, <3>1, <4>1, ContinueSends DEF Answer, TypeOK
    <3>2. CASE ~Attached(t)
      BY <1>7, <3>2 DEF Answer, TypeOK
    <3> QED
      BY <3>1, <3>2
  <2> QED
    BY <1>7, <2>2 DEF Answer
<1>8. CASE Reread(t)
  <2>1. reading'[u] = reading[u] /\ rows'[u] = rows[u]
    BY <1>8 DEF Reread, TypeOK
  <2> QED
    BY <1>8, <2>1 DEF Reread
<1>9. CASE Deliver(t)
  <2>1. /\ canvas'[u] = canvas[u] /\ base'[u] = base[u] /\ mine'[u] = mine[u]
        /\ pass'[u] = pass[u] /\ flight'[u] = flight[u] /\ shared'[u] = shared[u]
    BY <1>0, <1>9, DeliverMoves
  <2>2. UNCHANGED <<phase, fresh, rows>> /\ said'[u] = said[u] /\ reading'[u] = reading[u]
    BY <1>9 DEF Deliver, TypeOK
  <2> QED
    BY <2>1, <2>2
<1> QED
  BY <1>1, <1>2, <1>3, <1>4, <1>5, <1>6, <1>7, <1>8, <1>9 DEF Step

\* What the tab that steps then shows, compares with and writes of a record is what it
\* or the tree had of it, nothing, or the edit just made.
LEMMA BodiesComeFrom ==
  ASSUME TypeOK, BodiesAreMade, NEW t \in Tabs, Step(t), NEW k \in Keys, NEW x \in Nat,
         x # Absent, x <= edits, tree[k] # x, HasNot(t, k, x)
  PROVE  tree'[k] # x /\ HasNot(t, k, x)'
<1> USE DEF writerVars, watchVars
<1>0. /\ canvas[t][k] # x /\ base[t][k] # x /\ rows[t][k] # x
      /\ InAir(t) /\ flight[t].key = k => flight[t].body # x
      /\ edits \in Nat /\ x # edits + 1
  BY DEF HasNot, TypeOK, Body
<1>1. CASE \E j \in Keys : Edit(t, j)
  <2>1. PICK j \in Keys : Edit(t, j)
    BY <1>1
  <2>2. /\ canvas'[t][k] \in {canvas[t][k], edits + 1, Absent}
        /\ base'[t][k] \in {base[t][k], canvas'[t][k]}
        /\ InAir(t)' /\ flight'[t].key = k =>
             \/ flight'[t].body = canvas'[t][k]
             \/ InAir(t) /\ flight[t].key = k /\ flight'[t] = flight[t]
    BY <2>1, EditMoves
  <2>3. UNCHANGED <<tree, rows>>
    BY <2>1 DEF Edit
  <2> QED
    BY <1>0, <2>2, <2>3 DEF HasNot
<1>2. CASE Retry(t)
  <2>1. base[t] \in Draft /\ canvas[t] \in Draft /\ Kick(t, base[t], canvas[t])
    BY <1>2 DEF Retry, TypeOK
  <2>2. InAir(t)' /\ flight'[t].key = k =>
             \/ flight'[t].body = canvas[t][k]
             \/ InAir(t) /\ flight[t].key = k /\ flight'[t] = flight[t]
    BY <2>1, KickInAir
  <2> QED
    BY <1>0, <1>2, <2>2 DEF Retry, HasNot
<1>3. CASE Attach(t)
  <2>1. UNCHANGED <<tree, rows>> /\ base'[t] = tree
    BY <1>3 DEF Attach, TypeOK
  <2>2. CASE fresh[t]
    <3>1. tree \in Draft /\ canvas[t] \in Draft /\ Kick(t, tree, canvas[t]) /\ canvas' = canvas
      BY <1>3, <2>2 DEF Attach, TypeOK
    <3>2. InAir(t)' /\ flight'[t].key = k =>
             \/ flight'[t].body = canvas[t][k]
             \/ InAir(t) /\ flight[t].key = k /\ flight'[t] = flight[t]
      BY <3>1, KickInAir
    <3> QED
      BY <1>0, <2>1, <3>1, <3>2 DEF HasNot
  <2>3. CASE ~fresh[t]
    <3>1. canvas'[t] = tree /\ UNCHANGED <<pass, flight>>
      BY <1>3, <2>3 DEF Attach, TypeOK
    <3> QED
      BY <1>0, <2>1, <3>1 DEF HasNot, InAir
  <2> QED
    BY <2>2, <2>3
<1>4. CASE Watch(t) \/ Dispose(t) \/ Refuse(t) \/ EndPass(t)
  <2>1. UNCHANGED <<tree, canvas, base, rows, flight>>
    BY <1>4 DEF Watch, Dispose, Refuse, EndPass
  <2>2. InAir(t)' => InAir(t)
    BY <1>4 DEF Watch, Dispose, Refuse, EndPass, InAir, TypeOK
  <2> QED
    BY <1>0, <2>1, <2>2 DEF HasNot
<1>5. CASE Reopen(t)
  <2>1. UNCHANGED <<tree, rows, pass, flight>> /\ canvas'[t] = Empty /\ base'[t] = Empty
    BY <1>5 DEF Reopen, TypeOK
  <2> QED
    BY <1>0, <2>1 DEF HasNot, InAir, Empty
<1>6. CASE Land(t)
  <2>1. UNCHANGED <<canvas, base, rows, flight>> /\ InAir(t)
        /\ tree' = [tree EXCEPT ![flight[t].key] = flight[t].body]
    BY <1>6 DEF Land, InAir
  <2>2. tree'[k] # x
    BY <1>0, <2>1 DEF TypeOK, Draft
  <2> QED
    BY <1>0, <2>1, <2>2 DEF HasNot
<1>7. CASE Answer(t)
  <2>1. UNCHANGED <<tree, canvas, rows>> /\ InAir(t)
    BY <1>7 DEF Answer, InAir
  <2>2. CASE Attached(t)
    <3>1. Answered(t) \in Draft /\ canvas[t] \in Draft
      BY DEF Answered, TypeOK, Flight, Draft
    <3>2. Continue(t, Answered(t), canvas[t]) /\ base'[t] = Answered(t)
      BY <1>7, <2>2 DEF Answer, TypeOK
    <3>3. Answered(t)[k] # x
      <4>1. base[t] \in Draft
        BY DEF TypeOK
      <4> QED
        BY <1>0, <2>1, <4>1 DEF Answered, Draft
    <3>4. InAir(t)' /\ flight'[t].key = k => flight'[t].body = canvas[t][k]
      BY <3>1, <3>2, ContinueInAir
    <3> QED
      BY <1>0, <2>1, <3>2, <3>3, <3>4 DEF HasNot
  <2>3. CASE ~Attached(t)
    BY <1>0, <1>7, <2>1, <2>3 DEF Answer, HasNot
  <2> QED
    BY <2>2, <2>3
<1>8. CASE Reread(t)
  <2>1. UNCHANGED <<tree, canvas, base, pass, flight>>
    BY <1>8 DEF Reread
  <2>2. rows'[t] \in {rows[t], tree}
    BY <1>8 DEF Reread, TypeOK
  <2> QED
    BY <1>0, <2>1, <2>2 DEF HasNot, InAir
<1>9. CASE Deliver(t)
  <2>1. UNCHANGED <<tree, rows>>
    BY <1>9 DEF Deliver
  <2>2. Merged(t)[k] \in {canvas[t][k], rows[t][k]}
    BY DEF Merged
  <2>3. /\ base'[t][k] = rows[t][k]
        /\ canvas'[t][k] \in {Merged(t)[k], edits + 1}
        /\ InAir(t)' /\ flight'[t].key = k =>
              \/ flight'[t].body = Merged(t)[k]
              \/ InAir(t) /\ flight[t].key = k /\ flight'[t].body = flight[t].body
    BY <1>9, DeliverMoves
  <2> QED
    BY <1>0, <2>1, <2>2, <2>3 DEF HasNot
<1> QED
  BY <1>1, <1>2, <1>3, <1>4, <1>5, <1>6, <1>7, <1>8, <1>9 DEF Step

\* No step makes up a body: what it leaves is what was there, or the next edit's.
LEMMA NextBodies ==
  ASSUME TypeOK, BodiesAreMade, [Next]_vars
  PROVE  BodiesAreMade'
<1> USE DEF writerVars, watchVars
<1>0. /\ edits \in Nat /\ edits' \in Nat /\ edits <= edits'
      /\ \A d \in Draft : (\A k \in Keys : d[k] \in Nat) /\ (UpTo(d, edits) => UpTo(d, edits'))
  <2>1. edits \in Nat /\ edits' \in {edits, edits + 1}
    BY DEF TypeOK, Body, Next, vars, Edit, Retry, Attach, Watch, Dispose, Reopen, Land, Answer, Refuse,
           EndPass, Reread, Deliver
  <2>2. \A d \in Draft : \A k \in Keys : d[k] \in Nat
    BY DEF Draft, Body
  <2> QED
    BY <2>1, <2>2 DEF UpTo
<1>1. CASE UNCHANGED vars
  BY <1>1 DEF vars, BodiesAreMade
<1>2. ASSUME NEW t \in Tabs, Step(t) PROVE BodiesAreMade'
  <2> DEFINE Made(u) == /\ UpTo(canvas[u], edits) /\ UpTo(base[u], edits) /\ UpTo(rows[u], edits)
                        /\ flight[u].body <= edits
  <2>0. /\ \A u \in Tabs : /\ Made(u) /\ canvas[u] \in Draft /\ base[u] \in Draft /\ rows[u] \in Draft
                           /\ flight[u].body \in Nat /\ flight[u].key \in Keys
        /\ tree \in Draft /\ UpTo(tree, edits)
    BY DEF BodiesAreMade, TypeOK, Flight, Body
  <2>1. \A u \in Tabs \ {t} : Made(u)'
    <3>1. \A u \in Tabs \ {t} : UNCHANGED OwnState(u)
      BY <1>2, OthersStay
    <3> QED
      BY <1>0, <2>0, <3>1 DEF OwnState
  <2> HIDE DEF Made
  <2>2. SUFFICES UpTo(tree, edits)' /\ Made(t)'
    BY <2>1 DEF BodiesAreMade, Made
  <2>3. \A k \in Keys : tree[k] <= edits /\ canvas[t][k] <= edits /\ base[t][k] <= edits /\ rows[t][k] <= edits
    BY <2>0 DEF UpTo, Made
  <2>4. \A k \in Keys : tree[k] \in Nat /\ canvas[t][k] \in Nat /\ base[t][k] \in Nat /\ rows[t][k] \in Nat
    BY <1>0, <2>0
  <2>5. flight[t].body <= edits' /\ flight[t].body <= edits
    BY <1>0, <2>0 DEF Made
  <2>6. \A k \in Keys :
          /\ tree[k] <= edits' /\ canvas[t][k] <= edits' /\ base[t][k] <= edits' /\ rows[t][k] <= edits'
    BY <1>0, <2>3, <2>4
  <2>7. Absent <= edits' /\ Absent <= edits
    BY <1>0 DEF Absent
  <2>8. SUFFICES /\ \A k \in Keys : /\ tree'[k] <= edits' /\ canvas'[t][k] <= edits'
                                    /\ base'[t][k] <= edits' /\ rows'[t][k] <= edits'
                 /\ flight'[t].body <= edits'
    BY DEF UpTo, Made
  <2> HIDE DEF writerVars, watchVars
  <2>9. CASE \E j \in Keys : Edit(t, j)
    <3>1. PICK j \in Keys : Edit(t, j)
      BY <2>9
    <3>2. UNCHANGED <<tree, rows>> /\ edits' = edits + 1
      BY <3>1 DEF Edit, watchVars
    <3>3. \A k \in Keys : canvas'[t][k] \in {canvas[t][k], edits + 1, Absent}
                          /\ base'[t][k] \in {base[t][k], canvas'[t][k]}
      BY <3>1, EditMoves
    <3>4. \A k \in Keys : canvas'[t][k] <= edits' /\ base'[t][k] <= edits'
      BY <1>0, <2>6, <2>7, <3>2, <3>3
    <3>5. flight'[t] = flight[t] \/ \E i \in Keys : flight'[t].body = canvas'[t][i]
      BY <3>1, EditMoves, ConstantsOK
    <3> QED
      BY <2>5, <2>6, <3>2, <3>4, <3>5
  <2>10. CASE Retry(t)
    <3>1. flight'[t] = flight[t] \/ \E i \in Keys : flight'[t].body = canvas[t][i]
      BY <2>0, <2>10, KickInAir DEF Retry
    <3> QED
      BY <2>5, <2>6, <2>10, <3>1 DEF Retry, watchVars
  <2>11. CASE Attach(t)
    <3>1. UNCHANGED <<tree, rows, edits>> /\ base'[t] = tree /\ canvas'[t] \in {canvas[t], tree}
      BY <2>11 DEF Attach, watchVars, TypeOK
    <3>2. flight'[t] = flight[t] \/ \E i \in Keys : flight'[t].body = canvas[t][i]
      BY <2>0, <2>11, KickInAir DEF Attach
    <3> QED
      BY <2>5, <2>6, <3>1, <3>2
  <2>12. CASE Watch(t) \/ Dispose(t) \/ Refuse(t) \/ EndPass(t)
    <3>1. UNCHANGED <<tree, canvas, base, rows, flight>>
      BY <2>12 DEF Watch, Dispose, Refuse, EndPass, writerVars, watchVars
    <3> QED
      BY <2>5, <2>6, <3>1
  <2>13. CASE Reopen(t)
    <3>1. UNCHANGED <<tree, rows, flight>> /\ canvas'[t] = Empty /\ base'[t] = Empty
      BY <2>13 DEF Reopen, TypeOK
    <3>2. \A k \in Keys : Empty[k] = Absent
      BY DEF Empty
    <3> QED
      BY <2>5, <2>6, <2>7, <3>1, <3>2
  <2>14. CASE Land(t)
    <3>1. UNCHANGED <<canvas, base, rows, flight>>
          /\ tree' = [tree EXCEPT ![flight[t].key] = flight[t].body]
      BY <2>14 DEF Land
    <3>2. \A k \in Keys : tree'[k] \in {tree[k], flight[t].body}
      BY <2>0, <3>1 DEF Draft
    <3> QED
      BY <2>5, <2>6, <3>1, <3>2
  <2>15. CASE Answer(t)
    <3>1. UNCHANGED <<tree, canvas, rows>>
      BY <2>15 DEF Answer, watchVars
    <3>2. Answered(t) \in Draft /\ \A k \in Keys : Answered(t)[k] \in {base[t][k], canvas[t][k], flight[t].body}
      BY <2>0 DEF Answered, TypeOK, Flight, Draft
    <3>3. base'[t] \in {base[t], Answered(t)}
      BY <2>15 DEF Answer, TypeOK
    <3>4. flight'[t] = flight[t] \/ \E i \in Keys : flight'[t].body = canvas[t][i]
      BY <2>0, <2>15, <3>2, ContinueInAir DEF Answer
    <3> QED
      BY <2>5, <2>6, <3>1, <3>2, <3>3, <3>4
  <2>16. CASE Reread(t)
    <3>1. UNCHANGED <<tree, canvas, base, flight>> /\ rows'[t] \in {rows[t], tree}
      BY <2>16 DEF Reread, writerVars, TypeOK
    <3> QED
      BY <2>5, <2>6, <3>1
  <2>17. CASE Deliver(t)
    <3>1. UNCHANGED <<tree, rows>>
      BY <2>17 DEF Deliver
    <3>2. \A k \in Keys : Merged(t)[k] \in {canvas[t][k], rows[t][k]}
      BY DEF Merged
    <3>3. \A k \in Keys : base'[t][k] = rows[t][k]
      BY <2>17, DeliverMoves
    <3>4. \A k \in Keys : canvas'[t][k] = Merged(t)[k] \/ canvas'[t][k] = edits'
      BY <2>17, DeliverMoves
    <3>5. flight'[t].body = flight[t].body \/ \E i \in Keys : flight'[t].body = Merged(t)[i]
      BY <2>17, DeliverMoves, ConstantsOK
    <3> QED
      BY <1>0, <2>5, <2>6, <3>1, <3>2, <3>3, <3>4, <3>5
  <2> QED
    BY <1>2, <2>9, <2>10, <2>11, <2>12, <2>13, <2>14, <2>15, <2>16, <2>17 DEF Step
<1> QED
  BY <1>1, <1>2 DEF Next, Step

\* A write lands while no re-read is on its way, and none begins before its answer.
LEMMA NextAnsweredFirst ==
  ASSUME InOrder, TypeOK, BodiesAreMade, AnsweredFirst, [Next]_vars
  PROVE  AnsweredFirst'
<1> USE DEF writerVars, watchVars
<1>1. CASE UNCHANGED vars
  BY <1>1 DEF vars, AnsweredFirst
<1>2. ASSUME NEW t \in Tabs, Step(t) PROVE AnsweredFirst'
  <2>1. \A u \in Tabs \ {t} : ~(reading'[u] /\ pass'[u] = "landed")
    BY <1>2, OthersStay DEF OwnState, AnsweredFirst
  <2>2. SUFFICES ~(reading'[t] /\ pass'[t] = "landed")
    BY <2>1 DEF AnsweredFirst
  <2>3. Keys # {} /\ base[t] \in Draft /\ canvas[t] \in Draft /\ tree \in Draft
    BY ConstantsOK DEF TypeOK
  <2>4. CASE \E j \in Keys : Edit(t, j)
    BY <2>4, EditMoves DEF Edit, AnsweredFirst
  <2>5. CASE Retry(t) \/ Attach(t)
    <3>1. reading' = reading
      BY <2>5 DEF Retry, Attach
    <3>2. pass'[t] = "landed" => pass[t] = "landed"
      BY <2>3, <2>5, KickInAir DEF Retry, Attach
    <3> QED
      BY <3>1, <3>2 DEF AnsweredFirst
  <2>6. CASE Watch(t) \/ Reopen(t)
    BY <2>6 DEF Watch, Reopen, AnsweredFirst
  <2>7. CASE Dispose(t)
    BY <2>7 DEF Dispose, TypeOK
  <2>8. CASE Land(t)
    BY <2>8 DEF Land
  <2>9. CASE Answer(t)
    <3>1. Answered(t) \in Draft
      BY <2>3 DEF Answered, TypeOK, Flight, Draft
    <3> QED
      BY <2>3, <2>9, <3>1, ContinueInAir DEF Answer, TypeOK
  <2>10. CASE Refuse(t) \/ EndPass(t)
    BY <2>10 DEF Refuse, EndPass, TypeOK
  <2>11. CASE Reread(t)
    BY <2>11 DEF Reread, AnsweredFirst, TypeOK
  <2>12. CASE Deliver(t)
    BY <2>12 DEF Deliver, TypeOK
  <2> QED
    BY <1>2, <2>4, <2>5, <2>6, <2>7, <2>8, <2>9, <2>10, <2>11, <2>12 DEF Step
<1> QED
  BY <1>1, <1>2 DEF Next, Step

\* Another tab's step leaves a record of this one as it was.
LEMMA OthersKeepOwn ==
  ASSUME TypeOK, BodiesAreMade, NEW t \in Tabs, NEW k \in Keys, Own(t, k), mine[t][k] # Absent,
         NEW u \in Tabs \ {t}, Step(u)
  PROVE  Own(t, k)'
<1>1. UNCHANGED OwnState(t) /\ \A i \in Tabs \ {u} : UNCHANGED OwnState(i)
  BY OthersStay
<1>2. canvas'[t] = canvas[t] /\ canvas[t][k] \in Nat /\ canvas[t][k] <= edits
  BY <1>1 DEF TypeOK, Draft, Body, BodiesAreMade, UpTo, OwnState
<1>3. ASSUME Differs(t, k), Attached(t), ~Out(t, k)
      PROVE  tree'[k] # canvas'[t][k] /\ \A i \in Tabs \ {t} : HasNot(i, k, canvas[t][k])'
  <2>1. PICK x \in Nat : x = canvas[t][k]
    BY <1>2
  <2>2. x # Absent /\ x <= edits /\ tree[k] # x /\ \A i \in Tabs \ {t} : HasNot(i, k, x)
    BY <1>2, <1>3, <2>1 DEF Own
  <2>3. tree'[k] # x /\ HasNot(u, k, x)'
    BY <2>2, BodiesComeFrom
  <2>4. \A i \in Tabs \ {t, u} : HasNot(i, k, x)'
    BY <1>1, <2>2 DEF HasNot, InAir, OwnState
  <2>5. \A i \in Tabs \ {t} : HasNot(i, k, x)'
    BY <2>3, <2>4
  <2> QED
    BY <1>2, <2>1, <2>3, <2>5 DEF HasNot
<1> QED
  BY <1>1, <1>2, <1>3 DEF Own, OwnState, Differs, Out, InAir, Attached

\* A record that differs is the tab's own: what Own says of it.
IsOwn(t, k) ==
  /\ mine[t][k] = canvas[t][k]
  /\ reading[t] => rows[t][k] # canvas[t][k]
  /\ ~Out(t, k) => tree[k] # canvas[t][k] /\ \A u \in Tabs \ {t} : HasNot(u, k, canvas[t][k])

LEMMA OwnIs ==
  \A t, k : Own(t, k) <=>
    (Attached(t) => /\ k \in shared[t] => ~Differs(t, k)
                    /\ InAir(t) /\ flight[t].key = k => Differs(t, k)
                    /\ Differs(t, k) => IsOwn(t, k))
BY DEF Own, IsOwn

\* It stays so while the canvas and the tree keep their bodies of it.
LEMMA StaysOwn ==
  ASSUME TypeOK, BodiesAreMade, NEW t \in Tabs, NEW k \in Keys, Step(t), IsOwn(t, k),
         canvas'[t][k] = canvas[t][k], mine'[t][k] = mine[t][k], tree' = tree,
         reading'[t] => rows'[t][k] # canvas[t][k], ~Out(t, k)' => ~Out(t, k)
  PROVE  IsOwn(t, k)'
<1>1. \A u \in Tabs \ {t} : HasNot(u, k, canvas[t][k]) => HasNot(u, k, canvas[t][k])'
  <2> SUFFICES ASSUME NEW u \in Tabs \ {t}, HasNot(u, k, canvas[t][k])
               PROVE  HasNot(u, k, canvas[t][k])'
    OBVIOUS
  <2>1. UNCHANGED OwnState(u)
    BY OthersStay
  <2> QED
    BY <2>1 DEF HasNot, InAir, OwnState
<1> QED
  BY <1>1 DEF IsOwn

\* And it comes to be so with an edit: no one has the body that was just made.
LEMMA AnEditIsOwn ==
  ASSUME TypeOK, BodiesAreMade, NEW t \in Tabs, NEW k \in Keys, Step(t),
         canvas'[t][k] = edits + 1, mine'[t][k] = edits + 1, tree' = tree, rows' = rows
  PROVE  IsOwn(t, k)'
<1>1. edits \in Nat /\ tree[k] \in Nat /\ tree[k] <= edits
  BY DEF TypeOK, Draft, Body, BodiesAreMade, UpTo
<1>2. \A u \in Tabs : /\ canvas[u][k] \in Nat /\ canvas[u][k] <= edits
                      /\ base[u][k] \in Nat /\ base[u][k] <= edits
                      /\ rows[u][k] \in Nat /\ rows[u][k] <= edits
                      /\ flight[u].body \in Nat /\ flight[u].body <= edits
  BY DEF TypeOK, Draft, Flight, Body, BodiesAreMade, UpTo
<1>3. ASSUME NEW u \in Tabs \ {t} PROVE HasNot(u, k, canvas[t][k])'
  <2>1. UNCHANGED OwnState(u)
    BY OthersStay
  <2> QED
    BY <1>1, <1>2, <2>1 DEF HasNot, OwnState
<1> QED
  BY <1>1, <1>2, <1>3 DEF IsOwn

\* The tab's own step keeps its records its own.
LEMMA StepKeepsOwn ==
  ASSUME InOrder, IInv, BodiesAreMade, AnsweredFirst, NEW t \in Tabs, NEW k \in Keys,
         ~fresh[t] => Own(t, k) /\ mine[t][k] # Absent,
         ~fresh'[t], mine'[t][k] # Absent, Step(t)
  PROVE  Own(t, k)'
<1> USE DEF writerVars, watchVars
<1>0. TypeOK /\ UpToDate(t)
  BY DEF IInv
<1>1. CASE Reopen(t)
  BY <1>0, <1>1 DEF Reopen, Own, Attached, TypeOK
<1>2. CASE Dispose(t)
  BY <1>0, <1>2 DEF Dispose, Own, Attached, TypeOK
<1>3. CASE ~Reopen(t) /\ ~Dispose(t)
  <2>0. fresh' = fresh /\ ~fresh[t] /\ Own(t, k) /\ mine[t][k] # Absent
    <3>1. fresh' = fresh
      BY <1>3 DEF Step, Edit, Retry, Attach, Watch, Land, Answer, Refuse, EndPass, Reread, Deliver
    <3> QED
      BY <3>1
  <2>1. CASE \E j \in Keys : Edit(t, j)
    <3>1. PICK j \in Keys : Edit(t, j)
      BY <2>1
    <3>2. UNCHANGED <<tree, phase, fresh, shared, reading, rows>> /\ Attached(t)
      BY <2>0, <3>1 DEF Edit, Editable
    <3>3. /\ k \in shared[t] => ~Differs(t, k)
          /\ InAir(t) /\ flight[t].key = k => Differs(t, k)
          /\ Differs(t, k) => IsOwn(t, k)
      BY <2>0, <3>2, OwnIs
    <3>4. /\ pass'[t] = "landed" => pass[t] = "landed" /\ flight'[t] = flight[t]
          /\ InAir(t)' /\ flight'[t].key = k =>
               base'[t][k] # canvas'[t][k] \/ (InAir(t) /\ flight[t].key = k)
      BY <1>0, <3>1, EditMoves
    <3>5. CASE canvas'[t][k] = canvas[t][k] /\ mine'[t][k] = mine[t][k] /\ base'[t][k] = base[t][k]
      <4>1. Differs(t, k)' <=> Differs(t, k)
        BY <3>5 DEF Differs
      <4>2. ASSUME Differs(t, k) PROVE IsOwn(t, k)'
        <5>1. IsOwn(t, k)
          BY <3>3, <4>2
        <5>2. reading'[t] => rows'[t][k] # canvas[t][k]
          BY <3>2, <5>1 DEF IsOwn
        <5>3. CASE pass'[t] = pass[t] /\ flight'[t] = flight[t]
          <6>1. ~Out(t, k)' => ~Out(t, k)
            BY <3>5, <5>3 DEF Out
          <6> QED
            BY <1>0, <2>1, <3>2, <3>5, <5>1, <5>2, <6>1, StaysOwn DEF Step
        <5>4. CASE ~(pass'[t] = pass[t] /\ flight'[t] = flight[t])
          <6>1. pass[t] = "idle"
            <7>1. /\ pass[t] # "idle" /\ Attached(t) => UNCHANGED <<pass, flight>>
              BY <3>1, <3>2 DEF Edit, Kick
            <7> QED
              BY <3>2, <5>4, <7>1
          <6>2. ~Out(t, k)
            BY <6>1 DEF Out
          <6> QED
            BY <1>0, <2>1, <3>2, <3>5, <5>1, <5>2, <6>2, StaysOwn DEF Step
        <5> QED
          BY <5>3, <5>4
      <4>3. InAir(t)' /\ flight'[t].key = k => Differs(t, k)'
        BY <3>3, <3>4, <4>1 DEF Differs
      <4>4. Attached(t)' /\ shared' = shared
        BY <3>2 DEF Attached
      <4>5. /\ k \in shared'[t] => ~Differs(t, k)'
            /\ Differs(t, k)' => IsOwn(t, k)'
        BY <3>3, <4>1, <4>2, <4>4
      <4> QED
        BY <4>3, <4>5 DEF Own, IsOwn
    <3>6. CASE /\ canvas'[t][k] = edits + 1 /\ mine'[t][k] = canvas'[t][k]
               /\ base'[t][k] = IF k \in shared[t] THEN canvas'[t][k] ELSE base[t][k]
      <4>1. IsOwn(t, k)'
        BY <1>0, <2>1, <3>2, <3>6, AnEditIsOwn DEF Step
      <4>2. base[t][k] # edits + 1
        BY <1>0 DEF TypeOK, Draft, Body, BodiesAreMade, UpTo
      <4>3. k \in shared[t] <=> ~Differs(t, k)'
        BY <3>6, <4>2 DEF Differs
      <4>4. InAir(t)' /\ flight'[t].key = k => Differs(t, k)'
        BY <3>3, <3>4, <4>3 DEF Differs
      <4> QED
        BY <3>2, <4>1, <4>3, <4>4 DEF Own, IsOwn
    <3> QED
      BY <1>0, <3>1, <3>5, <3>6, EditMoves
  <2>2. CASE Attach(t)
    <3>1. phase[t] = "opening" /\ canvas'[t] = tree /\ base'[t] = tree /\ UNCHANGED pass
      BY <1>0, <2>0, <2>2 DEF Attach, TypeOK
    <3>2. pass'[t] = "idle"
      BY <1>0, <3>1 DEF UpToDate, ToldBeforeItWrites
    <3> QED
      BY <3>1, <3>2 DEF Own, Differs, InAir
  <2>3. CASE Land(t)
    <3>1. /\ UNCHANGED <<phase, canvas, base, shared, flight, reading, rows, mine>>
          /\ pass[t] = "sent" /\ pass'[t] = "landed"
          /\ tree' = [tree EXCEPT ![flight[t].key] = flight[t].body]
      BY <1>0, <2>3 DEF Land, TypeOK
    <3>2. tree'[k] = IF flight[t].key = k THEN flight[t].body ELSE tree[k]
      BY <1>0, <3>1 DEF TypeOK, Draft
    <3>3. ASSUME Differs(t, k), Attached(t) PROVE IsOwn(t, k)'
      <4>1. IsOwn(t, k) /\ ~Out(t, k)
        BY <2>0, <3>1, <3>3 DEF Own, IsOwn, Out
      <4>2. ASSUME ~Out(t, k)' PROVE tree'[k] # canvas'[t][k]
        BY <3>1, <3>2, <4>1, <4>2 DEF IsOwn, Out
      <4>3. ASSUME NEW u \in Tabs \ {t} PROVE HasNot(u, k, canvas[t][k])'
        <5>1. UNCHANGED OwnState(u)
          BY <1>0, <2>3, OthersStay DEF Step
        <5> QED
          BY <3>1, <4>1, <5>1 DEF IsOwn, HasNot, InAir, OwnState
      <4> QED
        BY <3>1, <4>1, <4>2, <4>3 DEF IsOwn
    <3>4. InAir(t)
      BY <3>1 DEF InAir
    <3> QED
      BY <2>0, <3>1, <3>3, <3>4 DEF Own, IsOwn, Attached, Differs
  <2>4. CASE Retry(t) \/ Watch(t) \/ Refuse(t) \/ EndPass(t)
    <3>1. UNCHANGED <<tree, canvas, base, shared, reading, rows, mine>>
      BY <2>4 DEF Retry, Watch, Refuse, EndPass
    <3>2. pass[t] # "landed" /\ Attached(t)' => Attached(t)
      BY <2>4 DEF Retry, Watch, Refuse, EndPass, Attached
    <3>3. Attached(t)' => Attached(t)
      BY <2>4 DEF Retry, Watch, Refuse, EndPass, Attached
    <3>4. pass[t] # "landed"
      BY <2>4 DEF Retry, Watch, Refuse, EndPass
    <3>5. InAir(t)' /\ flight'[t].key = k => base[t][k] # canvas[t][k] \/ (InAir(t) /\ flight[t].key = k)
      <4>1. CASE Retry(t)
        <5>1. base[t] \in Draft /\ canvas[t] \in Draft /\ Kick(t, base[t], canvas[t])
          BY <1>0, <4>1 DEF Retry, TypeOK
        <5> QED
          BY <1>0, <5>1, KickInAir
      <4>2. CASE Watch(t) \/ Refuse(t) \/ EndPass(t)
        BY <1>0, <4>2 DEF Watch, Refuse, EndPass, InAir, TypeOK
      <4> QED
        BY <2>4, <4>1, <4>2
    <3>6. ASSUME Differs(t, k), Attached(t) PROVE IsOwn(t, k)'
      <4>1. IsOwn(t, k) /\ ~Out(t, k)
        BY <2>0, <3>4, <3>6 DEF Own, IsOwn, Out
      <4> QED
        BY <1>0, <2>4, <3>1, <4>1, StaysOwn DEF Step, IsOwn
    <3> QED
      BY <2>0, <3>1, <3>3, <3>5, <3>6 DEF Own, IsOwn, Differs
  <2>5. CASE Answer(t)
    <3>1. UNCHANGED <<tree, phase, canvas, reading, rows, mine>> /\ InAir(t) /\ pass[t] = "landed"
      BY <2>5 DEF Answer, InAir
    <3>2. CASE ~Attached(t)
      BY <3>1, <3>2 DEF Own, Attached
    <3>3. CASE Attached(t)
      <4>1. Answered(t) \in Draft /\ canvas[t] \in Draft /\ base[t] \in Draft
        BY <1>0 DEF Answered, TypeOK, Flight, Draft
      <4>2. Continue(t, Answered(t), canvas[t]) /\ base'[t] = Answered(t)
            /\ (k \in shared'[t] => k \in shared[t] \/ (flight[t].shared /\ k = flight[t].key))
        BY <1>0, <2>5, <3>3 DEF Answer, TypeOK
      <4>3. InAir(t)' /\ flight'[t].key = k => Answered(t)[k] # canvas[t][k]
        BY <1>0, <4>1, <4>2, ContinueInAir
      <4>4. Answered(t)[k] = IF k = flight[t].key
                               THEN IF flight[t].shared THEN canvas[t][k] ELSE flight[t].body
                               ELSE base[t][k]
        BY <4>1 DEF Answered, Draft
      <4>5. flight[t].key = k => Differs(t, k)
        BY <2>0, <3>1, <3>3 DEF Own
      <4>6. k \in shared'[t] => ~Differs(t, k)'
        BY <2>0, <3>1, <3>3, <4>2, <4>4, <4>5 DEF Own, Differs
      <4>7. ASSUME Differs(t, k)' PROVE IsOwn(t, k)'
        <5>1. Differs(t, k) /\ ~Out(t, k)
          BY <3>1, <4>2, <4>4, <4>5, <4>7 DEF Differs, Out
        <5>2. IsOwn(t, k)
          BY <2>0, <3>3, <5>1 DEF Own, IsOwn
        <5> QED
          BY <1>0, <2>5, <3>1, <5>1, <5>2, StaysOwn DEF Step, IsOwn
      <4> QED
        BY <3>1, <4>2, <4>3, <4>6, <4>7 DEF Own, IsOwn, Differs
    <3> QED
      BY <3>2, <3>3
  <2>6. CASE Reread(t)
    <3>1. UNCHANGED <<tree, phase, canvas, base, shared, pass, flight, mine>> /\ pass[t] # "landed"
      BY <2>6 DEF Reread
    <3>2. rows'[t] = tree \/ (rows'[t] = rows[t] /\ reading'[t] = reading[t])
      BY <1>0, <2>6 DEF Reread, TypeOK
    <3>3. ASSUME Differs(t, k), Attached(t) PROVE IsOwn(t, k)'
      <4>1. IsOwn(t, k) /\ ~Out(t, k)
        BY <2>0, <3>1, <3>3 DEF Own, IsOwn, Out
      <4>2. reading'[t] => rows'[t][k] # canvas[t][k]
        BY <3>2, <4>1 DEF IsOwn
      <4> QED
        BY <1>0, <2>6, <3>1, <4>1, <4>2, StaysOwn DEF Step
    <3> QED
      BY <2>0, <3>1, <3>3 DEF Own, IsOwn, Differs, Attached, InAir
  <2>7. CASE Deliver(t)
    <3>1. /\ UNCHANGED <<tree, phase, rows>> /\ reading[t] /\ ~reading'[t]
          /\ pass[t] # "landed" /\ Attached(t)
      BY <1>0, <2>7 DEF Deliver, TypeOK, AnsweredFirst, UpToDate, HearsItsOwnWrites, Attached
    <3>2. k \in Held(t) <=> Differs(t, k)
      <4>1. CASE said[t]
        <5>1. Held(t) = {i \in Keys : base[t][i] # canvas[t][i]}
          BY <1>0, <3>1, <4>1, DiffIsWhereTheyDiffer DEF Held, TypeOK
        <5> QED
          BY <5>1 DEF Differs
      <4>2. CASE ~said[t]
        BY <1>0, <3>1, <4>2 DEF Held, Differs, UpToDate, ToldBeforeItWrites
      <4> QED
        BY <4>1, <4>2
    <3>3. Merged(t)[k] = IF Differs(t, k) THEN canvas[t][k] ELSE rows[t][k]
      BY <3>2 DEF Merged
    <3>4. /\ base'[t][k] = rows[t][k]
          /\ \/ canvas'[t][k] = Merged(t)[k] /\ mine'[t][k] = mine[t][k]
             \/ /\ k \in Meta \ Held(t) /\ canvas'[t][k] = edits + 1 /\ mine'[t][k] = edits + 1
          /\ k \in shared'[t] => k \in Schemas \ Held(t)
          /\ pass'[t] = "landed" => pass[t] = "landed"
          /\ InAir(t)' /\ flight'[t].key = k =>
               Merged(t)[k] # rows[t][k] \/ (InAir(t) /\ flight[t].key = k)
      BY <1>0, <2>7, DeliverMoves
    <3>5. ~Out(t, k)' /\ ~Out(t, k)
      BY <3>1, <3>4 DEF Out
    <3>6. InAir(t)' /\ flight'[t].key = k => Differs(t, k)
      BY <2>0, <3>1, <3>3, <3>4 DEF Own
    <3>7. CASE Differs(t, k)
      <4>1. canvas'[t][k] = canvas[t][k] /\ mine'[t][k] = mine[t][k] /\ k \notin shared'[t]
        BY <3>2, <3>3, <3>4, <3>7
      <4>2. IsOwn(t, k)
        BY <2>0, <3>1, <3>7 DEF Own, IsOwn
      <4>3. Differs(t, k)'
        BY <3>1, <3>4, <4>1, <4>2 DEF Differs, IsOwn
      <4>4. IsOwn(t, k)'
        BY <1>0, <2>7, <3>1, <3>5, <4>1, <4>2, StaysOwn DEF Step
      <4> QED
        BY <4>1, <4>3, <4>4 DEF Own, IsOwn
    <3>8. CASE ~Differs(t, k) /\ canvas'[t][k] = Merged(t)[k]
      <4>1. ~Differs(t, k)'
        BY <3>3, <3>4, <3>8 DEF Differs
      <4> QED
        BY <3>6, <3>8, <4>1 DEF Own
    <3>9. CASE ~Differs(t, k) /\ k \in Meta /\ canvas'[t][k] = edits + 1 /\ mine'[t][k] = edits + 1
      <4>1. IsOwn(t, k)'
        BY <1>0, <2>7, <3>1, <3>9, AnEditIsOwn DEF Step
      <4>2. k \notin shared'[t]
        BY <3>4, <3>9, ConstantsOK
      <4> QED
        BY <3>6, <3>9, <4>1, <4>2 DEF Own, IsOwn
    <3> QED
      BY <3>4, <3>7, <3>8, <3>9
  <2> QED
    BY <1>3, <2>1, <2>2, <2>3, <2>4, <2>5, <2>6, <2>7 DEF Step
<1> QED
  BY <1>1, <1>2, <1>3

\* What the invariant says of the records in K, in every tab but one that made the project.
OwnIn(K) == \A t \in Tabs : ~fresh[t] => \A k \in K : Own(t, k)

\* No person's last word on a record in K is its removal.
NoneRemoved(K) == \A t \in Tabs : ~fresh[t] => \A k \in K : mine[t][k] # Absent

OwnInv(K) == IInv /\ BodiesAreMade /\ AnsweredFirst /\ OwnIn(K)

LEMMA InitOwn == Init => BodiesAreMade /\ AnsweredFirst /\ OwnIn(Keys)
<1> SUFFICES ASSUME Init PROVE BodiesAreMade /\ AnsweredFirst /\ OwnIn(Keys)
  OBVIOUS
<1>1. UpTo(tree, 1) /\ UpTo(Empty, 1)
  BY DEF Init, UpTo, Empty, Absent
<1> QED
  BY <1>1 DEF Init, BodiesAreMade, AnsweredFirst, OwnIn, Own, Attached, Absent

LEMMA NextOwn ==
  ASSUME InOrder, NEW K \in SUBSET Keys, OwnInv(K), NoneRemoved(K), NoneRemoved(K)', [Next]_vars
  PROVE  OwnInv(K)'
<1>1. IInv'
  BY NextTypeOK, NextUpToDate DEF IInv, OwnInv
<1>2. BodiesAreMade' /\ AnsweredFirst'
  BY NextBodies, NextAnsweredFirst DEF IInv, OwnInv
<1>3. OwnIn(K)'
  <2>1. CASE UNCHANGED vars
    BY <2>1 DEF OwnInv, OwnIn, Own, IsOwn, Attached, Differs, InAir, Out, HasNot, vars, writerVars,
                watchVars
  <2>2. ASSUME NEW u \in Tabs, Step(u) PROVE OwnIn(K)'
    <3> SUFFICES ASSUME NEW t \in Tabs, ~fresh'[t], NEW k \in K PROVE Own(t, k)'
      BY DEF OwnIn
    <3>1. ~fresh[t] => Own(t, k) /\ mine[t][k] # Absent
      BY DEF OwnInv, OwnIn, NoneRemoved
    <3>2. mine'[t][k] # Absent
      BY DEF NoneRemoved
    <3>3. CASE t = u
      BY <2>2, <3>1, <3>2, <3>3, StepKeepsOwn DEF OwnInv
    <3>4. CASE t # u
      <4>1. UNCHANGED OwnState(t)
        BY <2>2, <3>4, OthersStay DEF OwnInv, IInv
      <4>2. ~fresh[t]
        BY <4>1 DEF OwnState
      <4> QED
        BY <2>2, <3>1, <3>4, <4>2, OthersKeepOwn DEF OwnInv, IInv
    <3> QED
      BY <3>3, <3>4
  <2> QED
    BY <2>1, <2>2 DEF Next, Step
<1> QED
  BY <1>1, <1>2, <1>3 DEF OwnInv

\* What is held differs, and what differs is the tab's own.
LEMMA OwnIsHeld ==
  ASSUME NEW K, OwnInv(K), NEW t \in Tabs, ~fresh[t], NEW k \in K \cap Held(t)
  PROVE  mine[t][k] = canvas[t][k]
<1>1. Attached(t) /\ k \in Keys /\ k \in Diff(base[t], canvas[t])
  BY DEF Held, Diff, Puts, Dels
<1>2. base[t] \in Draft /\ canvas[t] \in Draft
  BY DEF OwnInv, IInv, TypeOK
<1>3. Differs(t, k)
  BY <1>1, <1>2, DiffIsWhereTheyDiffer DEF Differs
<1> QED
  BY <1>1, <1>3 DEF OwnInv, OwnIn, Own

\* Where no person removes a record, whatever a tab holds to write is the last edit its
\* own person made of it: no other tab's body is written back (`rebase`, `attach`, `pass`).
THEOREM WhatIsHeldIsOwn ==
  ASSUME InOrder
  PROVE  Spec /\ []NoneRemoved(Keys) => []OnlyOwnEdits
<1>1. Init => OwnInv(Keys)
  BY InitOwn, InitTypeOK, InitUpToDate DEF OwnInv, IInv
<1>2. OwnInv(Keys) /\ NoneRemoved(Keys) /\ NoneRemoved(Keys)' /\ [Next]_vars => OwnInv(Keys)'
  BY NextOwn
<1>3. OwnInv(Keys) => OnlyOwnEdits
  <2> SUFFICES ASSUME OwnInv(Keys), NEW t \in Tabs, ~fresh[t], NEW k \in Held(t)
               PROVE  mine[t][k] = canvas[t][k]
    BY DEF OnlyOwnEdits
  <2>1. k \in Keys
    BY DEF Held, Diff, Puts, Dels
  <2> QED
    BY <2>1, OwnIsHeld
<1> QED
  BY <1>1, <1>2, <1>3, PTL DEF Spec

\* The records that no one removes: the schemas and the meta.
Kept == Keys \ Components

\* Only a component is removed.
LEMMA NoneOfTheKeptIsRemoved ==
  TypeOK /\ NoneRemoved(Kept) /\ [Next]_vars => NoneRemoved(Kept)'
<1> SUFFICES ASSUME TypeOK, NoneRemoved(Kept), [Next]_vars PROVE NoneRemoved(Kept)'
  OBVIOUS
<1> USE DEF writerVars, watchVars
<1>0. Never # Absent /\ edits \in Nat /\ edits + 1 # Absent
  BY ConstantsOK DEF TypeOK, Body, Never, Absent
<1>1. CASE UNCHANGED vars
  BY <1>1 DEF vars, NoneRemoved
<1>2. ASSUME NEW u \in Tabs, Step(u) PROVE NoneRemoved(Kept)'
  <2> SUFFICES ASSUME NEW t \in Tabs, ~fresh'[t], NEW k \in Kept PROVE mine'[t][k] # Absent
    BY DEF NoneRemoved
  <2>0. k \in Keys /\ k \notin Components
    BY DEF Kept
  <2>1. CASE Reopen(u)
    <3>1. t = u => mine'[t][k] = Never
      BY <2>0, <2>1 DEF Reopen, TypeOK
    <3>2. t # u => mine'[t] = mine[t] /\ fresh'[t] = fresh[t]
      BY <2>1 DEF Reopen, TypeOK
    <3> QED
      BY <1>0, <3>1, <3>2 DEF NoneRemoved
  <2>2. CASE ~Reopen(u)
    <3>1. fresh' = fresh
      BY <1>2, <2>2 DEF Step, Edit, Retry, Attach, Watch, Dispose, Land, Answer, Refuse, EndPass,
                        Reread, Deliver
    <3>2. mine[t][k] # Absent
      BY <3>1 DEF NoneRemoved
    <3>3. CASE \E j \in Keys : Edit(u, j)
      <4>1. PICK j \in Keys : Edit(u, j)
        BY <3>3
      <4>2. PICK v \in NewBodies(u, j) :
              mine' = [mine EXCEPT ![u] =
                [i \in Keys |-> IF i = j \/ Edited(u, j, v)[i] # canvas[u][i]
                                  THEN Edited(u, j, v)[i] ELSE @[i]]]
        BY <4>1 DEF Edit
      <4>3. mine'[u][k] = IF k = j \/ Edited(u, j, v)[k] # canvas[u][k]
                            THEN Edited(u, j, v)[k] ELSE mine[u][k]
        BY <2>0, <4>2 DEF TypeOK
      <4>4. k = j => Edited(u, j, v)[k] # Absent
        BY <2>0 DEF Edited, NewBodies
      <4>5. k # j => Edited(u, j, v)[k] \in {edits + 1, canvas[u][k]}
        BY <2>0 DEF Edited
      <4>6. t # u => mine'[t] = mine[t]
        BY <4>2 DEF TypeOK
      <4> QED
        BY <1>0, <3>2, <4>3, <4>4, <4>5, <4>6
    <3>4. CASE Deliver(u)
      <4>1. mine'[u][k] \in {mine[u][k], edits + 1}
        BY <2>0, <3>4, DeliverMoves
      <4>2. t # u => mine'[t] = mine[t]
        BY <2>0, <3>4, DeliverMoves
      <4> QED
        BY <1>0, <3>2, <4>1, <4>2
    <3>5. CASE ~(\E j \in Keys : Edit(u, j)) /\ ~Deliver(u)
      <4>1. mine' = mine
        BY <1>2, <2>2, <3>5 DEF Step, Retry, Attach, Watch, Dispose, Land, Answer, Refuse, EndPass, Reread
      <4> QED
        BY <3>2, <4>1
    <3> QED
      BY <3>3, <3>4, <3>5
  <2> QED
    BY <2>1, <2>2
<1> QED
  BY <1>1, <1>2 DEF Next, Step

\* Of the schemas and the meta it is so whatever people remove: what a tab holds of them to
\* write is its own person's last edit, and another tab's is never written back.
THEOREM SchemasAndMetaAreOwn ==
  ASSUME InOrder
  PROVE  Spec => [](\A t \in Tabs : ~fresh[t] =>
                      \A k \in Held(t) \ Components : mine[t][k] = canvas[t][k])
<1> DEFINE Inv == OwnInv(Kept) /\ NoneRemoved(Kept)
           TheirOwn == \A t \in Tabs : ~fresh[t] =>
                         \A k \in Held(t) \ Components : mine[t][k] = canvas[t][k]
<1>1. Init => Inv
  <2> SUFFICES ASSUME Init PROVE Inv
    OBVIOUS
  <2>1. OwnIn(Kept)
    BY InitOwn DEF OwnIn, Kept
  <2>2. NoneRemoved(Kept)
    BY ConstantsOK DEF Init, NoneRemoved, Kept, Never, Absent
  <2> QED
    BY <2>1, <2>2, InitOwn, InitTypeOK, InitUpToDate DEF OwnInv, IInv
<1>2. Inv /\ [Next]_vars => Inv'
  <2> SUFFICES ASSUME Inv, [Next]_vars PROVE Inv'
    OBVIOUS
  <2>1. NoneRemoved(Kept)'
    BY NoneOfTheKeptIsRemoved DEF OwnInv, IInv
  <2>2. Kept \in SUBSET Keys
    BY DEF Kept
  <2>3. OwnInv(Kept)'
    BY <2>1, <2>2, NextOwn
  <2> QED
    BY <2>1, <2>3
<1>3. Inv => TheirOwn
  <2> SUFFICES ASSUME Inv, NEW t \in Tabs, ~fresh[t], NEW k \in Held(t) \ Components
               PROVE  mine[t][k] = canvas[t][k]
    OBVIOUS
  <2>1. k \in Kept
    BY DEF Held, Diff, Puts, Dels, Kept
  <2> QED
    BY <2>1, OwnIsHeld
<1> QED
  BY <1>1, <1>2, <1>3, PTL DEF Spec

=============================================================================
