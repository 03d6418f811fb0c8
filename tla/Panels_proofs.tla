--------------------------- MODULE Panels_proofs ---------------------------
(***************************************************************************)
(* Proofs about the versions panel, the upgrade offer and the Assets tab,  *)
(* for any build, any SDK, any stamp and any number of blocks and mounts:  *)
(* that what is painted is what is known, in whatever order it came to be  *)
(* known, that each verdict is earned, and that a pass does what was asked *)
(* of it and closes its page.                                              *)
(***************************************************************************)
EXTENDS Panels, FiniteSetTheorems, WellFoundedInduction, TLAPS

\* The two halves of what the offer compares come one after the other, and no part is
\* offered before both are there.
HalvesCome ==
  /\ ~baked => build = NoBuildInfo
  /\ build = NoBuildInfo \/ sdk = NoSdk => offer = {}

\* The inductive invariant.  The panel is not painted before it is mounted (TypeOK),
\* so PanelIsCurrent says all there is of it; HalvesCome is what lets OfferUpgrade
\* leave the bar as it is while a half is missing.
IInv == TypeOK /\ HalvesCome /\ PaintedIsCurrent /\ PagesAreClosed

-----------------------------------------------------------------------------
(* The comparisons.                                                        *)

\* An SDK that can name itself is not the missing one.
LEMMA ReportsAreNotNoSdk == NoSdk \notin Reports
BY ConstantsOK DEF NoSdk

\* A stamp made while the SDK can name itself is a stamp, and says which SDK it was.
LEMMA AStampIsOne ==
  ASSUME NEW b, NEW r, r.rev # NoRev
  PROVE  stamp(b, r)["SDK"] = r.rev /\ stamp(b, r) # NoStamp
<1>1. stamp(b, r)["SDK"] = r.rev
  BY DEF stamp, Base
<1>2. NoStamp["SDK"] = NoRev
  BY DEF NoStamp, Base, Absent
<1> QED
  BY <1>1, <1>2

\* What moved on is a part that the stamp names.
LEMMA DriftIsOfTheStamp ==
  \A v, b, r : drift(v, b, r) \subseteq DOMAIN v
BY DEF drift

\* A set of indices that is not empty has a last one: the one past which the fewest are.
LEMMA LastIndex ==
  ASSUME NEW n \in Nat, NEW S \in SUBSET (1 .. n), S # {}
  PROVE  Max(S) \in S /\ \A j \in S : j <= Max(S)
<1> DEFINE Past(i) == {j \in S : j > i}
           Pasts == {Past(i) : i \in S}
<1>1. IsFiniteSet(S)
  <2>1. IsFiniteSet(1 .. n)
    BY FS_Interval
  <2> QED
    BY <2>1, FS_Subset
<1>2. Pasts \subseteq FiniteSubsetsOf(S)
  <2>1. Pasts \subseteq SUBSET S
    OBVIOUS
  <2> HIDE DEF Pasts
  <2> QED
    BY <1>1, <2>1, FS_FiniteSubsetsOfFinite
<1>3. PICK least \in Pasts : \A x \in Pasts : <<x, least>> \notin StrictSubsetOrdering(S)
  <2>1. Pasts # {}
    OBVIOUS
  <2> HIDE DEF Pasts
  <2> QED
    BY <1>1, <1>2, <2>1, FS_StrictSubsetOrderingWellFounded, WFMin
<1>4. PICK i \in S : least = Past(i)
  BY <1>3
<1>5. ASSUME NEW j \in S, ~(i >= j) PROVE FALSE
  <2>1. j \in Past(i) /\ j \notin Past(j) /\ Past(j) \subseteq Past(i)
    <3>1. i \in Nat /\ j \in Nat /\ j > i
      BY <1>5
    <3>2. ASSUME NEW k \in S, k > j PROVE k > i
      BY <3>1, <3>2
    <3>3. Past(j) \subseteq Past(i)
      BY <3>2
    <3>4. j \in Past(i)
      BY <3>1
    <3>5. j \notin Past(j)
      BY <3>1
    <3> QED
      BY <3>3, <3>4, <3>5
  <2>2. <<Past(j), Past(i)>> \in StrictSubsetOrdering(S)
    BY <2>1 DEF StrictSubsetOrdering
  <2> QED
    BY <1>3, <1>4, <2>2
<1>6. \E x \in S : \A y \in S : x >= y
  BY <1>5
<1>7. Max(S) \in S /\ \A y \in S : Max(S) >= y
  BY <1>6 DEF Max
<1> QED
  BY <1>7

\* The SDK is called verified only when its digits are the pinned ones.
LEMMA VerifiedAgrees ==
  ASSUME NEW pinned, NEW rev, NEW profile,
         verification(pinned, rev, profile) \in {"ok", "info", "warn"}
  PROVE  rev # NoRev /\ rev # Unknown /\ rev.six = pinned.six /\ rev.rest = pinned.rest
<1>1. rev # NoRev
  BY DEF verification
<1>2. ~(rev = Unknown \/ (rev # NoRev /\ ~sameRev(rev, pinned)))
  BY <1>1 DEF verification
<1> QED
  BY <1>1, <1>2 DEF sameRev

-----------------------------------------------------------------------------
(* A contract's code, of a released table with its epochs in order.        *)

InOrder(released) ==
  \A i, j \in DOMAIN released : i <= j => released[i].number <= released[j].number

NewestOf(released) ==
  {e \in {released[i] : i \in DOMAIN released} : \A i \in DOMAIN released : released[i].number <= e.number}

\* What a sequence holds is of the set it is over.
LEMMA SeqIsOf ==
  ASSUME NEW E, NEW s \in Seq(E)
  PROVE  \A i \in DOMAIN s : s[i] \in E
OBVIOUS

\* Current is said of code that the newest epoch has, whatever order they are in;
\* superseded, when they are in order, only of code that it does not have.
LEMMA CodeStateIsEarned ==
  ASSUME NEW released \in Seq([number : Nat, code : SUBSET Nat]), NEW hash, NEW current
  PROVE  LET has == \E e \in NewestOf(released) : hash \in e.code
         IN  /\ codeState(hash, released, current) = "current" => has
             /\ codeState(hash, released, current) = "superseded" /\ InOrder(released) => ~has
<1> DEFINE holding == Holding(hash, released)
           said == codeState(hash, released, current)
           has == \E e \in NewestOf(released) : hash \in e.code
           IsLast == \A i \in DOMAIN released : released[i].number <= released[Mine(holding)].number
<1>1. CASE hash = 0 \/ released = <<>> \/ holding = {}
  <2>1. said \notin {"current", "superseded"}
    BY <1>1 DEF codeState
  <2> QED
    BY <2>1
<1>2. CASE ~(hash = 0 \/ released = <<>> \/ holding = {})
  <2>1. said = IF IsLast THEN "current" ELSE "superseded"
    BY <1>2 DEF codeState
  <2>2. holding \in SUBSET (1 .. Len(released)) /\ Len(released) \in Nat /\ holding # {}
    BY <1>2 DEF Holding
  <2> DEFINE mine == Mine(holding)
  <2>3. mine \in holding /\ \A j \in holding : j <= mine
    <3> HIDE DEF holding
    <3> QED
      BY <2>2, LastIndex DEF Mine
  <2>4. mine \in DOMAIN released /\ hash \in released[mine].code
    BY <2>3 DEF Holding
  <2> HIDE DEF mine
  <2>5. ASSUME IsLast PROVE has
    <3>1. released[mine] \in NewestOf(released)
      BY <2>4, <2>5 DEF NewestOf, mine
    <3> QED
      BY <2>4, <3>1
  <2>6. ASSUME ~IsLast, InOrder(released), has PROVE FALSE
    <3>1. PICK e \in NewestOf(released) : hash \in e.code
      BY <2>6
    <3>2. PICK j \in DOMAIN released : released[j] = e
      BY <3>1 DEF NewestOf
    <3>3. j \in holding /\ j <= mine
      BY <2>3, <3>1, <3>2 DEF Holding
    <3>4. \A i \in DOMAIN released : released[i].number \in Nat
      <4>1. \A i \in DOMAIN released : released[i] \in [number : Nat, code : SUBSET Nat]
        BY SeqIsOf
      <4> QED
        BY <4>1
    <3>5. \A i \in DOMAIN released : released[i].number <= released[j].number
      BY <3>1, <3>2 DEF NewestOf
    <3>6. released[j].number <= released[mine].number
      BY <2>4, <2>6, <3>3 DEF InOrder
    <3>7. \A i \in DOMAIN released : released[i].number <= released[mine].number
      BY <2>4, <3>4, <3>5, <3>6
    <3> QED
      BY <2>6, <3>7 DEF mine
  <2> QED
    BY <2>1, <2>5, <2>6
<1> QED
  BY <1>1, <1>2

-----------------------------------------------------------------------------
(* The versions panel and the offer, step by step.                         *)

\* What TypeOK and IInv say of the part that is painted from what is known.
StampHolds == stamped \in BOOLEAN /\ (stamped <=> versions # NoStamp)
PanelsHold ==
  /\ baked \in BOOLEAN /\ build \in BakedInfos /\ sdk \in Reports \cup {NoSdk} /\ loaded \in BOOLEAN
  /\ StampHolds /\ offer \subseteq DOMAIN versions /\ (panel # {} <=> baked)
  /\ HalvesCome /\ PaintedIsCurrent
AssetsHold ==
  /\ tab \in 0 .. Mounts /\ lost \subseteq Blocks /\ mount \in [1 .. Mounts -> Rows]
  /\ PagesAreClosed

LEMMA IInvIs == IInv <=> PanelsHold /\ AssetsHold
BY DEF IInv, TypeOK, PanelsHold, AssetsHold, StampHolds

\* stampIfNew leaves a stamp only where the project says it has one.
LEMMA StampingHolds ==
  ASSUME sdk' \in Reports \cup {NoSdk},
         \/ StampedOr(stamped, versions, loaded) /\ StampHolds
         \/ \E has \in BOOLEAN : \E v, isLoaded : StampedOr(has, v, isLoaded) /\ (has <=> v # NoStamp)
  PROVE  StampHolds'
<1>1. sdk' # NoSdk => stamp(build', sdk') # NoStamp
  BY ConstantsOK, AStampIsOne
<1> QED
  BY <1>1 DEF StampedOr, StampHolds

\* Painted again from what is then known, both say what is.
LEMMA RepaintedHolds ==
  ASSUME baked' \in BOOLEAN, build' \in BakedInfos, sdk' \in Reports \cup {NoSdk}, loaded' \in BOOLEAN,
         StampHolds', ~baked' => build' = NoBuildInfo,
         build' = NoBuildInfo \/ sdk' = NoSdk => offer = {},
         Refresh, OfferUpgrade
  PROVE  PanelsHold'
<1>1. offer' \subseteq DOMAIN versions'
  BY DriftIsOfTheStamp DEF OfferUpgrade
<1>2. panel' # {} <=> baked'
  BY DEF Refresh
<1>3. HalvesCome'
  BY DEF HalvesCome, OfferUpgrade
<1>4. PaintedIsCurrent'
  BY DEF PaintedIsCurrent, PanelIsCurrent, OfferIsCurrent, Refresh, OfferUpgrade
<1> QED
  BY <1>1, <1>2, <1>3, <1>4 DEF PanelsHold

LEMMA BuildInfoArrivesHolds ==
  ASSUME PanelsHold, NEW b \in BakedInfos, BuildInfoArrives(b)
  PROVE  PanelsHold'
<1>1. baked' \in BOOLEAN /\ build' \in BakedInfos /\ sdk' \in Reports \cup {NoSdk} /\ loaded' \in BOOLEAN
  BY DEF PanelsHold, BuildInfoArrives
<1>2. StampHolds'
  BY <1>1, StampingHolds DEF PanelsHold, BuildInfoArrives
<1>3. baked' /\ offer = {}
  BY DEF PanelsHold, HalvesCome, BuildInfoArrives
<1> QED
  BY <1>1, <1>2, <1>3, RepaintedHolds DEF BuildInfoArrives

LEMMA SdkArrivesHolds ==
  ASSUME PanelsHold, NEW r \in Reports, SdkArrives(r)
  PROVE  PanelsHold'
<1>1. baked' \in BOOLEAN /\ build' \in BakedInfos /\ sdk' \in Reports \cup {NoSdk} /\ loaded' \in BOOLEAN
  BY DEF PanelsHold, SdkArrives
<1>2. StampHolds'
  BY <1>1, StampingHolds DEF PanelsHold, SdkArrives
<1>3. (~baked' => build' = NoBuildInfo) /\ offer = {}
  BY DEF PanelsHold, HalvesCome, SdkArrives
<1> QED
  BY <1>1, <1>2, <1>3, RepaintedHolds DEF SdkArrives, PaintsAtSdk

\* What each step of the open project keeps of what is known of the two halves.
LEMMA KnownStays ==
  ASSUME PanelsHold, UNCHANGED known
  PROVE  /\ baked' \in BOOLEAN /\ build' \in BakedInfos /\ sdk' \in Reports \cup {NoSdk}
         /\ ~baked' => build' = NoBuildInfo
         /\ build' = NoBuildInfo \/ sdk' = NoSdk => offer = {}
BY DEF PanelsHold, HalvesCome, known

LEMMA OpenHolds ==
  ASSUME PanelsHold, NEW fresh \in BOOLEAN, Open(fresh)
  PROVE  PanelsHold'
<1>1. StampHolds'
  BY KnownStays, StampingHolds DEF Open
<1> QED
  BY <1>1, KnownStays, RepaintedHolds DEF Open

LEMMA DraftReadHolds ==
  ASSUME PanelsHold, NEW has \in BOOLEAN, NEW v, has <=> v # NoStamp, DraftRead(has, v)
  PROVE  PanelsHold'
<1>1. StampHolds'
  BY KnownStays, StampingHolds DEF DraftRead
<1> QED
  BY <1>1, KnownStays, RepaintedHolds DEF DraftRead, OffersAtDraft

LEMMA AcceptHolds ==
  ASSUME PanelsHold, Accept
  PROVE  PanelsHold'
<1>1. sdk # NoSdk
  BY DEF PanelsHold, HalvesCome, Accept
<1>2. stamp(build, sdk) # NoStamp
  BY <1>1, ConstantsOK, AStampIsOne DEF PanelsHold
<1>3. StampHolds'
  BY <1>2 DEF Accept, StampHolds
<1>4. loaded' \in BOOLEAN
  BY DEF PanelsHold, Accept
<1> QED
  BY <1>3, <1>4, KnownStays, RepaintedHolds DEF Accept

\* The Assets tab paints neither, and they do not touch it.
LEMMA PanelsStay ==
  ASSUME PanelsHold, UNCHANGED <<known, project, painted>>
  PROVE  PanelsHold'
BY DEF PanelsHold, StampHolds, HalvesCome, PaintedIsCurrent, PanelIsCurrent, OfferIsCurrent,
       known, project, painted

-----------------------------------------------------------------------------
(* The Assets tab, step by step.                                           *)

\* A row whose pass has ended has no page.
HasClosed(row) == row.phase # "running" => row.page \in {"none", "closed"}

\* A step that changes one row, to one that has closed what it ended, keeps the rest.
LEMMA RowHolds ==
  ASSUME AssetsHold, NEW m \in 1 .. Mounts, NEW row \in Rows, HasClosed(row),
         mount' = [mount EXCEPT ![m] = row], tab' \in 0 .. Mounts, lost' = lost
  PROVE  AssetsHold'
<1>1. mount' \in [1 .. Mounts -> Rows]
  BY DEF AssetsHold
<1>2. \A n \in 1 .. Mounts : HasClosed(mount'[n])
  BY DEF AssetsHold, PagesAreClosed, HasClosed
<1> QED
  BY <1>1, <1>2 DEF AssetsHold, PagesAreClosed, HasClosed

LEMMA RowsOfTheTab ==
  /\ Row \in Rows /\ HasClosed(Row)
  /\ \A checking \in BOOLEAN : Started(checking) \in Rows /\ HasClosed(Started(checking))
BY DEF Row, Rows, NoReport, Report, Started, HasClosed

\* What a pass ends with is a report of one of the shapes the row shows.
Said == [list : {"none", "groupHealth", "repairOutcome"},
         word : groupHealth \cup repairOutcome \cup {"none", "new"}, missing : BOOLEAN]

LEMMA ReportsOfAPass == CancelledReport \in Said /\ \A row : Reported(row) \subseteq Said
<1>1. \A list \in {"none", "groupHealth", "repairOutcome"},
         word \in groupHealth \cup repairOutcome \cup {"none", "new"}, missing \in BOOLEAN :
        Report(list, word, missing) \in Said
  BY DEF Report, Said
<1>2. {"whole", "degraded", "damaged", "repaired", "partial", "cancelled", "new"}
         \subseteq groupHealth \cup repairOutcome \cup {"none", "new"}
  BY DEF groupHealth, repairOutcome
<1>3. CancelledReport \in Said
  BY <1>1, <1>2 DEF CancelledReport
<1>4. ASSUME NEW row, NEW r \in Reported(row) PROVE r \in Said
  <2> DEFINE missing == lost # {}
             health == IF ~missing THEN "whole" ELSE IF Enough(lost) THEN "degraded" ELSE "damaged"
             outcome == IF missing THEN "partial" ELSE "repaired"
  <2>1. missing \in BOOLEAN /\ health \in groupHealth \cup repairOutcome \cup {"none", "new"}
        /\ outcome \in groupHealth \cup repairOutcome \cup {"none", "new"}
    BY <1>2
  <2>2. r \in {Report("repairOutcome", "cancelled", missing), Report("groupHealth", health, missing),
               Report("groupHealth", "new", missing), Report("repairOutcome", outcome, missing)}
    BY <1>4 DEF Reported
  <2> HIDE DEF missing, health, outcome
  <2> QED
    BY <1>1, <1>2, <2>1, <2>2
<1> QED
  BY <1>3, <1>4

LEMMA EndedHolds ==
  ASSUME NEW row \in Rows, NEW report \in Said
  PROVE  Ended(row, report) \in Rows /\ HasClosed(Ended(row, report)) /\ Ended(row, report).page = "closed"
BY DEF Ended, Rows, Said, HasClosed

LEMMA OpenTabHolds ==
  ASSUME AssetsHold, OpenTab
  PROVE  AssetsHold'
<1>1. PICK m \in 1 .. Mounts : tab' = m /\ mount' = [mount EXCEPT ![m] = Started(TRUE)]
  BY DEF OpenTab
<1>2. tab' \in 0 .. Mounts /\ lost' = lost
  BY <1>1, ConstantsOK DEF OpenTab
<1> QED
  BY <1>1, <1>2, RowsOfTheTab, RowHolds

LEMMA RepairNowHolds ==
  ASSUME AssetsHold, RepairNow
  PROVE  AssetsHold'
<1>1. tab \in 1 .. Mounts /\ tab' \in 0 .. Mounts /\ lost' = lost
  BY ConstantsOK DEF AssetsHold, RepairNow
<1>2. mount' = [mount EXCEPT ![tab] = Started(FALSE)]
  BY DEF RepairNow
<1> QED
  BY <1>1, <1>2, RowsOfTheTab, RowHolds

\* Cancel marks the row, and leaves its phase and its page as they are.
LEMMA CancelHolds ==
  ASSUME AssetsHold, Cancel
  PROVE  AssetsHold'
<1>1. tab \in 1 .. Mounts /\ tab' \in 0 .. Mounts /\ lost' = lost
  BY ConstantsOK DEF AssetsHold, Cancel
<1> DEFINE row == [mount[tab] EXCEPT !.cancelling = TRUE, !.cancelled = TRUE]
<1>2. mount[tab] \in Rows /\ HasClosed(mount[tab])
  BY <1>1 DEF AssetsHold, PagesAreClosed, HasClosed
<1>3. row \in Rows /\ HasClosed(row)
  BY <1>2 DEF Rows, HasClosed
<1>4. mount' = [mount EXCEPT ![tab] = row]
  BY <1>1 DEF Cancel, AssetsHold
<1> QED
  BY <1>1, <1>3, <1>4, RowHolds

LEMMA PageOpensHolds ==
  ASSUME AssetsHold, NEW m \in 1 .. Mounts, PageOpens(m)
  PROVE  AssetsHold'
<1> DEFINE row == IF Begins(mount[m]) THEN [mount[m] EXCEPT !.page = "reading"]
                                      ELSE Ended(mount[m], CancelledReport)
<1>1. mount[m] \in Rows /\ mount[m].phase = "running"
  BY DEF AssetsHold, PagesAreClosed, PageOpens
<1>2. Begins(mount[m]) => row \in Rows /\ HasClosed(row)
  BY <1>1 DEF Rows, HasClosed
<1>3. ~Begins(mount[m]) => row \in Rows /\ HasClosed(row)
  BY <1>1, ReportsOfAPass, EndedHolds
<1>4. row \in Rows /\ HasClosed(row)
  BY <1>2, <1>3
<1>5. mount' = [mount EXCEPT ![m] = row] /\ tab' \in 0 .. Mounts /\ lost' = lost
  BY DEF PageOpens, AssetsHold
<1> QED
  BY <1>4, <1>5, RowHolds

LEMMA PassReportsHolds ==
  ASSUME AssetsHold, NEW m \in 1 .. Mounts, PassReports(m)
  PROVE  AssetsHold'
<1>1. PICK r \in Reported(mount[m]) : mount' = [mount EXCEPT ![m] = Ended(mount[m], r)]
  BY DEF PassReports
<1>2. Ended(mount[m], r) \in Rows /\ HasClosed(Ended(mount[m], r))
  BY ReportsOfAPass, EndedHolds DEF AssetsHold
<1>3. tab' \in 0 .. Mounts /\ lost' = lost
  BY DEF PassReports, AssetsHold
<1> QED
  BY <1>1, <1>2, <1>3, RowHolds

LEMMA PassFailsHolds ==
  ASSUME AssetsHold, NEW m \in 1 .. Mounts, PassFails(m)
  PROVE  AssetsHold'
<1> DEFINE row == [mount[m] EXCEPT !.phase = "failed", !.page = Closed(mount[m].page)]
<1>1. mount[m] \in Rows
  BY DEF AssetsHold
<1>2. row \in Rows /\ HasClosed(row)
  BY <1>1 DEF Rows, HasClosed, Closed
<1>3. mount' = [mount EXCEPT ![m] = row]
  BY DEF PassFails, AssetsHold
<1>4. tab' \in 0 .. Mounts /\ lost' = lost
  BY DEF PassFails, AssetsHold
<1> QED
  BY <1>2, <1>3, <1>4, RowHolds

LEMMA BlocksHold ==
  ASSUME AssetsHold, lost' \subseteq lost \cup Blocks, UNCHANGED mount, tab' \in 0 .. Mounts
  PROVE  AssetsHold'
BY DEF AssetsHold, PagesAreClosed

LEMMA AssetsStay ==
  ASSUME AssetsHold, UNCHANGED assets
  PROVE  AssetsHold'
BY DEF AssetsHold, PagesAreClosed, assets

-----------------------------------------------------------------------------
(* The invariant.                                                          *)

LEMMA InitHolds == Init => IInv
<1> SUFFICES ASSUME Init PROVE IInv
  OBVIOUS
<1>1. PanelsHold
  BY ConstantsOK DEF Init, PanelsHold, StampHolds, HalvesCome, PaintedIsCurrent, PanelIsCurrent, OfferIsCurrent
<1>2. AssetsHold
  <2>1. mount \in [1 .. Mounts -> Rows] /\ \A m \in 1 .. Mounts : HasClosed(mount[m])
    BY RowsOfTheTab DEF Init
  <2> QED
    BY <2>1, ConstantsOK DEF Init, AssetsHold, PagesAreClosed, HasClosed
<1> QED
  BY <1>1, <1>2, IInvIs

LEMMA NextHolds == IInv /\ [Next]_vars => IInv'
<1> SUFFICES ASSUME PanelsHold, AssetsHold, [Next]_vars PROVE PanelsHold' /\ AssetsHold'
  BY IInvIs, PTL
<1>1. CASE \E b \in BakedInfos : BuildInfoArrives(b)
  BY <1>1, BuildInfoArrivesHolds, AssetsStay DEF BuildInfoArrives
<1>2. CASE \E r \in Reports : SdkArrives(r)
  BY <1>2, SdkArrivesHolds, AssetsStay DEF SdkArrives
<1>3. CASE \E fresh \in BOOLEAN : Open(fresh)
  BY <1>3, OpenHolds, AssetsStay DEF Open
<1>4. CASE DraftRead(FALSE, NoStamp) \/ \E v \in Stamps : DraftRead(TRUE, v)
  <2>1. \A v \in Stamps : v # NoStamp
    BY ConstantsOK
  <2>2. UNCHANGED assets
    BY <1>4 DEF DraftRead
  <2>3. AssetsHold'
    BY <2>2, AssetsStay
  <2>4. CASE DraftRead(FALSE, NoStamp)
    BY <2>3, <2>4, DraftReadHolds
  <2>5. CASE \E v \in Stamps : DraftRead(TRUE, v)
    BY <2>1, <2>3, <2>5, DraftReadHolds
  <2> QED
    BY <1>4, <2>4, <2>5
<1>5. CASE Accept
  <2>1. UNCHANGED assets
    BY <1>5 DEF Accept, assets
  <2> QED
    BY <1>5, <2>1, AcceptHolds, AssetsStay
<1>6. CASE OpenTab
  BY <1>6, OpenTabHolds, PanelsStay DEF OpenTab
<1>7. CASE CloseTab
  BY <1>7, BlocksHold, PanelsStay, ConstantsOK DEF CloseTab, AssetsHold
<1>8. CASE RepairNow
  BY <1>8, RepairNowHolds, PanelsStay DEF RepairNow
<1>9. CASE Cancel
  BY <1>9, CancelHolds, PanelsStay DEF Cancel
<1>10. ASSUME NEW m \in 1 .. Mounts, Answers(m) PROVE PanelsHold' /\ AssetsHold'
  <2>1. PanelsHold'
    BY <1>10, PanelsStay DEF Answers, PageOpens, PassReports, PassFails
  <2> QED
    BY <1>10, <2>1, PageOpensHolds, PassReportsHolds, PassFailsHolds DEF Answers
<1>11. ASSUME NEW m \in 1 .. Mounts, NEW b \in Blocks, PutBack(m, b) PROVE PanelsHold' /\ AssetsHold'
  BY <1>11, BlocksHold, PanelsStay DEF PutBack, AssetsHold
<1>12. ASSUME NEW b \in Blocks, BlockLost(b) PROVE PanelsHold' /\ AssetsHold'
  BY <1>12, BlocksHold, PanelsStay DEF BlockLost, AssetsHold
<1>13. CASE UNCHANGED vars
  BY <1>13, PanelsStay, AssetsStay DEF vars
<1> QED
  BY <1>1, <1>2, <1>3, <1>4, <1>5, <1>6, <1>7, <1>8, <1>9, <1>10, <1>11, <1>12, <1>13 DEF Next

LEMMA AlwaysHolds == Spec => []IInv
BY InitHolds, NextHolds, PTL DEF Spec

\* What each variable holds, for any build, SDK, stamp, group of blocks and number of
\* mounts: what the bar offers is always of the stamp the project has, a project is
\* stamped with something or not at all, and every row is one the tab can show
\* (app.js, versions-panel.js, assets-panel.js).
THEOREM TypeCorrect == Spec => []TypeOK
<1>1. IInv => TypeOK
  BY DEF IInv
<1> QED
  BY <1>1, AlwaysHolds, PTL

\* In whatever order build-info, the SDK, drafts, switches and an accepted offer come,
\* and however often, the panel says what is and the bar offers what has moved on
\* (app.js:145, 275-276, 346, 352-361, 372, 395).
THEOREM WhatIsPaintedIsCurrent == Spec => []PaintedIsCurrent
<1>1. IInv => PaintedIsCurrent
  BY DEF IInv
<1> QED
  BY <1>1, AlwaysHolds, PTL

\* However a pass ends, of whichever mount, its page is closed (assets.js:80-82).
THEOREM APassClosesItsPage == Spec => []PagesAreClosed
<1>1. IInv => PagesAreClosed
  BY DEF IInv
<1> QED
  BY <1>1, AlwaysHolds, PTL

-----------------------------------------------------------------------------
(* The verdicts.                                                           *)

\* The released table names its epochs in the order they were released in, which
\* releaseLabel and codeState take it to: they take the first and the last that hold
\* a hash (versions.js:70-73, project-versions.js:85-90).
EpochsInOrder == \A b \in BakedInfos : InOrder(b.released)

\* What the panel says is the model of what is known.
LEMMA PanelIsTheModel ==
  ASSUME IInv, NEW p \in panel
  PROVE  p = model(build, sdk, versions, stamped)
BY DEF IInv, TypeOK, PaintedIsCurrent, PanelIsCurrent

LEMMA TheVerifiedIsThePinned == IInv => VerifiedIsThePinned
<1> SUFFICES ASSUME IInv, NEW p \in panel, p.verdict \in {"ok", "info", "warn"}
             PROVE  /\ sdk \in Reports /\ sdk.rev # Unknown
                    /\ [six |-> sdk.rev.six, rest |-> sdk.rev.rest]
                         = [six |-> build.sdkRev.six, rest |-> build.sdkRev.rest]
  BY DEF VerifiedIsThePinned
<1>1. p.verdict = verification(build.sdkRev, sdk.rev, build.profile)
  BY PanelIsTheModel DEF model
<1>2. /\ sdk.rev # NoRev /\ sdk.rev # Unknown
      /\ sdk.rev.six = build.sdkRev.six /\ sdk.rev.rest = build.sdkRev.rest
  BY <1>1, VerifiedAgrees
<1>3. sdk \in Reports
  BY <1>2 DEF IInv, TypeOK, NoSdk
<1> QED
  BY <1>2, <1>3

LEMMA TheSupersededIsOlder ==
  ASSUME EpochsInOrder
  PROVE  IInv => SupersededIsOlder
<1> SUFFICES ASSUME IInv, NEW p \in panel, NEW section \in p.project, NEW name \in DOMAIN section.code
             PROVE  LET has == \E e \in NewestOf(build.released) : versions[name] \in e.code
                    IN  /\ section.code[name] = "superseded" => ~has
                        /\ section.code[name] = "current" => has
  BY DEF SupersededIsOlder, NewestOf
<1>1. section = appSection(versions, build, sdk)
  BY PanelIsTheModel DEF model
<1> DEFINE current == IF name \in DOMAIN build.code THEN build.code[name] ELSE 0
<1>2. section.code[name] = codeState(versions[name], build.released, current)
  BY <1>1 DEF appSection
<1>3. build.released \in Seq([number : Nat, code : SUBSET Nat]) /\ InOrder(build.released)
  BY ConstantsOK DEF IInv, TypeOK, EpochsInOrder
<1> HIDE DEF current
<1> QED
  BY <1>2, <1>3, CodeStateIsEarned

\* Where the epochs of the released table are in order, the panel's verdicts are
\* earned: it calls verified only the SDK this build pinned, superseded only what the
\* newest epoch does not have, and current only what it does (versions.js:26-28,
\* 45-49, project-versions.js:11-13, 85-102).
THEOREM VerdictsAreEarned ==
  ASSUME EpochsInOrder
  PROVE  Spec => []VerdictsHold
<1>1. IInv => VerdictsHold
  BY TheVerifiedIsThePinned, TheSupersededIsOlder DEF VerdictsHold
<1> QED
  BY <1>1, AlwaysHolds, PTL

-----------------------------------------------------------------------------
(* What a pass does.                                                       *)

LEMMA APassDoesWhatWasAsked ==
  IInv /\ [Next]_vars =>
    /\ lost' \subseteq lost /\ lost' # lost =>
         \E m \in 1 .. Mounts : mount[m].page = "reading" /\ ~mount[m].checking
    /\ \A m \in 1 .. Mounts :
         mount[m].page = "opening" /\ mount[m].cancelled => mount'[m].page # "reading"
<1> SUFFICES ASSUME IInv, [Next]_vars
             PROVE  /\ lost' \subseteq lost /\ lost' # lost =>
                         \E m \in 1 .. Mounts : mount[m].page = "reading" /\ ~mount[m].checking
                    /\ \A m \in 1 .. Mounts :
                         mount[m].page = "opening" /\ mount[m].cancelled => mount'[m].page # "reading"
  OBVIOUS
<1>1. mount \in [1 .. Mounts -> Rows]
  BY DEF IInv, TypeOK
<1>2. CASE UNCHANGED <<lost, mount>>
  BY <1>2
<1>3. CASE OpenTab \/ RepairNow
  <2>1. PICK n, checking : mount' = [mount EXCEPT ![n] = Started(checking)]
    BY <1>3 DEF OpenTab, RepairNow
  <2>2. Started(checking).page = "opening" /\ lost' = lost
    BY <1>3 DEF Started, Row, OpenTab, RepairNow
  <2> QED
    BY <1>1, <2>1, <2>2
<1>4. CASE Cancel
  <2>1. \A m \in 1 .. Mounts : mount'[m].page = mount[m].page
    BY <1>1, <1>4 DEF Cancel, Rows
  <2> QED
    BY <1>4, <2>1 DEF Cancel
<1>5. ASSUME NEW n \in 1 .. Mounts, Answers(n)
      PROVE  /\ lost' = lost
             /\ \A m \in 1 .. Mounts :
                  mount[m].page = "opening" /\ mount[m].cancelled => mount'[m].page # "reading"
  <2>1. lost' = lost
    BY <1>5 DEF Answers, PageOpens, PassReports, PassFails
  <2>2. CASE PageOpens(n)
    <3>1. mount[n].cancelled => mount'[n] = Ended(mount[n], CancelledReport)
      BY <1>1, <2>2 DEF PageOpens, Begins
    <3>2. Ended(mount[n], CancelledReport).page = "closed"
      BY <1>1, ReportsOfAPass, EndedHolds
    <3>3. \A m \in 1 .. Mounts \ {n} : mount'[m] = mount[m]
      BY <1>1, <2>2 DEF PageOpens
    <3> QED
      BY <2>1, <3>1, <3>2, <3>3
  <2>3. CASE PassReports(n)
    <3>1. mount[n].page = "reading" /\ \A m \in 1 .. Mounts \ {n} : mount'[m] = mount[m]
      BY <1>1, <2>3 DEF PassReports
    <3> QED
      BY <2>1, <3>1
  <2>4. CASE PassFails(n)
    <3>1. \A m \in 1 .. Mounts \ {n} : mount'[m] = mount[m]
      BY <1>1, <2>4 DEF PassFails
    <3>2. mount'[n].page # "reading"
      BY <1>1, <2>4 DEF PassFails, Closed, Rows
    <3> QED
      BY <2>1, <3>1, <3>2
  <2> QED
    BY <1>5, <2>2, <2>3, <2>4 DEF Answers
<1>6. ASSUME NEW n \in 1 .. Mounts, NEW b \in Blocks, PutBack(n, b)
      PROVE  /\ mount' = mount
             /\ \E m \in 1 .. Mounts : mount[m].page = "reading" /\ ~mount[m].checking
  BY <1>6 DEF PutBack, PutsBack
<1>7. ASSUME NEW b \in Blocks, BlockLost(b)
      PROVE  mount' = mount /\ ~(lost' \subseteq lost)
  BY <1>7 DEF BlockLost
<1>8. ~(OpenTab \/ RepairNow \/ Cancel)
      /\ ~(\E n \in 1 .. Mounts : Answers(n) \/ \E b \in Blocks : PutBack(n, b))
      /\ ~(\E b \in Blocks : BlockLost(b)) => UNCHANGED <<lost, mount>>
  BY DEF Next, vars, BuildInfoArrives, SdkArrives, Open, DraftRead, Accept, CloseTab, assets
<1> QED
  BY <1>2, <1>3, <1>4, <1>5, <1>6, <1>7, <1>8

\* A look puts nothing back, and a pass that was cancelled while its page was opening
\* never begins: with any number of passes under way, of any mounts (assets.js:66-71,
\* 78-79).
THEOREM APassKeepsToWhatWasAsked == Spec => OnlyWhatWasAsked
BY AlwaysHolds, APassDoesWhatWasAsked, PTL DEF Spec, OnlyWhatWasAsked, CheckPutsNothingBack, CancelWins
=============================================================================
