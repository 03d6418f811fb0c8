-------------------------- MODULE PagedView_proofs --------------------------
(***************************************************************************)
(* Proofs about a mount of the app, for any components, any page and any   *)
(* number of records, writes and answers under way: that a view which says *)
(* all is shown shows all, and that a person's own writes come to be seen. *)
(***************************************************************************)
EXTENDS PagedView, FiniteSetTheorems, WellFoundedInduction, TLAPS

(***************************************************************************)
(* What a read of a page is.                                               *)
(***************************************************************************)

\* The records that come before i in the direction of a read, and the first PAGE of them.
Earlier(T, reverse, i) == {j \in T : Before(reverse, j, i)}
FirstPage(T, reverse) == {i \in T : Cardinality(Earlier(T, reverse, i)) < PAGE}
Past(S, reverse, after) == IF after = None THEN S ELSE {i \in S : Before(reverse, after, i)}

LEMMA ScanIsTheFirstPage ==
  \A S, reverse, after : Scan(S, reverse, after) = FirstPage(Past(S, reverse, after), reverse)
BY DEF Scan, FirstPage, Past, Earlier

LEMMA BeforeIsAnOrder ==
  ASSUME NEW reverse \in BOOLEAN, NEW i \in Nat, NEW j \in Nat
  PROVE  /\ i = j \/ Before(reverse, i, j) \/ Before(reverse, j, i)
         /\ ~(Before(reverse, i, j) /\ Before(reverse, j, i)) /\ ~Before(reverse, i, i)
         /\ Before(~reverse, i, j) <=> Before(reverse, j, i)
         /\ \A k \in Nat : Before(reverse, i, j) /\ Before(reverse, j, k) => Before(reverse, i, k)
<1>1. CASE reverse
  BY <1>1 DEF Before
<1>2. CASE ~reverse
  BY <1>2 DEF Before
<1> QED
  BY <1>1, <1>2

\* A read that found something has a last record: the one after which the fewest are.
LEMMA LastExists ==
  ASSUME NEW S, IsFiniteSet(S), S \subseteq Nat, S # {}, NEW reverse \in BOOLEAN
  PROVE  \E i \in S : \A j \in S \ {i} : Before(reverse, j, i)
<1> DEFINE From(i) == {j \in S : ~Before(reverse, j, i)}
           Froms == {From(i) : i \in S}
<1>1. Froms \subseteq FiniteSubsetsOf(S)
  <2>1. Froms \subseteq SUBSET S
    OBVIOUS
  <2> HIDE DEF Froms
  <2> QED
    BY <2>1, FS_FiniteSubsetsOfFinite
<1>2. PICK least \in Froms : \A x \in Froms : <<x, least>> \notin StrictSubsetOrdering(S)
  <2>1. Froms # {}
    OBVIOUS
  <2> HIDE DEF Froms
  <2> QED
    BY <1>1, <2>1, FS_StrictSubsetOrderingWellFounded, WFMin
<1>3. PICK i \in S : least = From(i)
  BY <1>2
<1>4. ASSUME NEW j \in S \ {i}, ~Before(reverse, j, i) PROVE FALSE
  <2>1. Before(reverse, i, j) /\ i \in Nat /\ j \in Nat
    BY <1>4, BeforeIsAnOrder
  <2>2. i \in From(i) /\ i \notin From(j)
    BY <2>1, BeforeIsAnOrder
  <2>3. ASSUME NEW k \in From(j) PROVE k \in From(i)
    BY <2>1, BeforeIsAnOrder
  <2>4. <<From(j), From(i)>> \in StrictSubsetOrdering(S)
    BY <2>2, <2>3 DEF StrictSubsetOrdering
  <2> QED
    BY <1>2, <1>3, <2>4
<1> QED
  BY <1>4

LEMMA LastIs ==
  ASSUME NEW S, IsFiniteSet(S), S \subseteq Nat, S # {}, NEW reverse \in BOOLEAN
  PROVE  /\ Last(S, reverse) \in S
         /\ \A j \in S \ {Last(S, reverse)} : Before(reverse, j, Last(S, reverse))
BY LastExists DEF Last

\* Whatever is before a record of the page is on the page.
LEMMA PageIsFirst ==
  ASSUME NEW T, IsFiniteSet(T), T \subseteq Nat, NEW reverse \in BOOLEAN,
         NEW i \in FirstPage(T, reverse), NEW j \in T, Before(reverse, j, i)
  PROVE  j \in FirstPage(T, reverse)
<1>1. Earlier(T, reverse, j) \in SUBSET Earlier(T, reverse, i)
  <2>1. ASSUME NEW k \in T, Before(reverse, k, j) PROVE Before(reverse, k, i)
    <3>1. i \in Nat /\ j \in Nat /\ k \in Nat
      BY DEF FirstPage
    <3> QED
      BY <2>1, <3>1, BeforeIsAnOrder
  <2> QED
    BY <2>1 DEF Earlier
<1>2. IsFiniteSet(Earlier(T, reverse, i))
  BY FS_Subset DEF Earlier
<1>3. /\ Cardinality(Earlier(T, reverse, j)) <= Cardinality(Earlier(T, reverse, i))
      /\ Cardinality(Earlier(T, reverse, j)) \in Nat /\ Cardinality(Earlier(T, reverse, i)) \in Nat
  BY <1>1, <1>2, FS_Subset, FS_CardinalityType
<1> QED
  BY <1>3, ConstantsOK DEF FirstPage

\* A page holds PAGE records at most.
LEMMA PageFits ==
  ASSUME NEW T, IsFiniteSet(T), T \subseteq Nat, NEW reverse \in BOOLEAN
  PROVE  Cardinality(FirstPage(T, reverse)) <= PAGE
<1> DEFINE P == FirstPage(T, reverse)
<1>1. IsFiniteSet(P) /\ P \subseteq Nat /\ P \subseteq T
  BY FS_Subset DEF FirstPage
<1>2. CASE P = {}
  BY <1>2, FS_EmptySet, ConstantsOK
<1>3. CASE P # {}
  <2> HIDE DEF P
  <2>1. PICK i \in P : \A j \in P \ {i} : Before(reverse, j, i)
    BY <1>1, <1>3, LastExists
  <2>2. P \ {i} \in SUBSET Earlier(T, reverse, i)
    BY <1>1, <2>1 DEF Earlier
  <2>3. IsFiniteSet(Earlier(T, reverse, i)) /\ Cardinality(Earlier(T, reverse, i)) < PAGE
    BY <2>1, FS_Subset DEF Earlier, FirstPage, P
  <2>4. /\ Cardinality(P \ {i}) = Cardinality(P) - 1
        /\ Cardinality(P \ {i}) <= Cardinality(Earlier(T, reverse, i))
        /\ Cardinality(P) \in Nat /\ Cardinality(Earlier(T, reverse, i)) \in Nat
    BY <1>1, <2>1, <2>2, <2>3, FS_RemoveElement, FS_Subset, FS_CardinalityType
  <2> QED
    BY <2>3, <2>4, ConstantsOK DEF P
<1> QED
  BY <1>2, <1>3

\* A page that is short is all there is: the first record left out would have fewer
\* than PAGE before it.
LEMMA ShortIsAll ==
  ASSUME NEW T, IsFiniteSet(T), T \subseteq Nat, NEW reverse \in BOOLEAN,
         Cardinality(FirstPage(T, reverse)) < PAGE
  PROVE  FirstPage(T, reverse) = T
<1> DEFINE P == FirstPage(T, reverse)
<1>1. P \subseteq T /\ IsFiniteSet(P) /\ IsFiniteSet(T \ P) /\ T \ P \subseteq Nat
  BY FS_Subset DEF FirstPage
<1>2. ASSUME T \ P # {} PROVE FALSE
  <2> HIDE DEF P
  <2>1. PICK i \in T \ P : \A j \in (T \ P) \ {i} : Before(~reverse, j, i)
    BY <1>1, <1>2, LastExists
  <2>2. ASSUME NEW j \in T, Before(reverse, j, i) PROVE j \in P
    BY <1>1, <2>1, <2>2, BeforeIsAnOrder
  <2>3. Earlier(T, reverse, i) \in SUBSET P
    BY <2>2 DEF Earlier
  <2>4. Cardinality(Earlier(T, reverse, i)) <= Cardinality(P)
        /\ Cardinality(Earlier(T, reverse, i)) \in Nat /\ Cardinality(P) \in Nat
    BY <1>1, <2>3, FS_Subset, FS_CardinalityType
  <2>5. ~(Cardinality(Earlier(T, reverse, i)) < PAGE)
    BY <2>1 DEF P, FirstPage
  <2> QED
    BY <2>4, <2>5, ConstantsOK DEF P
<1> QED
  BY <1>1, <1>2

LEMMA SetsOfIds ==
  \A S \in SUBSET Ids : IsFiniteSet(S) /\ S \subseteq Nat /\ Cardinality(S) \in Nat
<1>1. IsFiniteSet(Ids) /\ Ids \subseteq Nat
  BY FS_Interval, ConstantsOK DEF Ids
<1> QED
  BY <1>1, FS_Subset, FS_CardinalityType

\* What a read of some records finds is some of them, PAGE at most.
LEMMA ScanType ==
  ASSUME NEW S, S \subseteq Ids, NEW reverse \in BOOLEAN, NEW after
  PROVE  /\ Scan(S, reverse, after) \subseteq S
         /\ Scan(S, reverse, after) \in SUBSET Ids
         /\ Cardinality(Scan(S, reverse, after)) <= PAGE
<1>1. /\ Past(S, reverse, after) \subseteq S
      /\ IsFiniteSet(Past(S, reverse, after)) /\ Past(S, reverse, after) \subseteq Nat
  <2>1. Past(S, reverse, after) \in SUBSET S
    BY DEF Past
  <2> QED
    BY <2>1, SetsOfIds
<1>2. FirstPage(Past(S, reverse, after), reverse) \subseteq Past(S, reverse, after)
  BY DEF FirstPage
<1> QED
  BY <1>1, <1>2, PageFits, ScanIsTheFirstPage

LEMMA EachType == \A b \in Each : b.reverse \in BOOLEAN /\ b.live \in BOOLEAN
<1> SUFFICES ASSUME NEW c \in Components
             PROVE  BindingOf(c).reverse \in BOOLEAN /\ BindingOf(c).live \in BOOLEAN
  BY DEF Each
<1>1. c.live \in BOOLEAN
  BY ConstantsOK
<1>2. (c.type = "list") \in BOOLEAN
  OBVIOUS
<1> QED
  BY <1>1, <1>2 DEF BindingOf, ReadsNewestFirst

LEMMA PageViewType ==
  ASSUME NEW page \in SUBSET Ids, NEW more \in More
  PROVE  PageView(page, more) \in View
BY DEF PageView, Extent, More, View

(***************************************************************************)
(* The queue of reloads.                                                   *)
(***************************************************************************)

LEMMA AppendIs ==
  ASSUME NEW q \in Seq(Reloading), NEW r \in Reloading
  PROVE  /\ Append(q, r) \in Seq(Reloading) /\ Len(Append(q, r)) = Len(q) + 1 /\ Len(q) \in Nat
         /\ \A i \in 1 .. Len(q) : Append(q, r)[i] = q[i]
         /\ Append(q, r)[Len(q) + 1] = r
OBVIOUS

LEMMA TailIs ==
  ASSUME NEW q \in Seq(Reloading), q # <<>>
  PROVE  /\ Tail(q) \in Seq(Reloading) /\ Len(Tail(q)) = Len(q) - 1 /\ Len(q) \in Nat \ {0}
         /\ \A i \in 1 .. Len(q) - 1 : Tail(q)[i] = q[i + 1]
         /\ Head(q) = q[1] /\ Head(q) \in Reloading
OBVIOUS

(***************************************************************************)
(* The inductive invariant.                                                *)
(***************************************************************************)

Queued == 1 .. Len(reads)

\* The canvas of a mount that is wanted is painted from what its bindings hold.
Painted == (canvas = "ours" => alive) /\ (alive => \A b \in Each : shown[b] = ViewOf(b))

\* Reads are answered in the order they were made, so a binding never goes back.
InOrder ==
  /\ own <= version
  /\ \A b \in Each : snap[b].version <= version
  /\ \A i \in Queued :
       /\ reads[i].version <= version
       /\ \A b \in Each : snap[b].version <= reads[i].version
       /\ \A j \in Queued : i < j => reads[i].version <= reads[j].version

\* A read of the domain as it is holds its first page.
ReadsHold ==
  /\ \A b \in Each : snap[b].version = version => snap[b].rows = Scan(rows, b.reverse, None)
  /\ \A i \in Queued :
       /\ Cardinality(reads[i].rows) <= PAGE
       /\ reads[i].version = version => reads[i].rows = Scan(rows, reads[i].of.reverse, None)

LeftIsReloading == \A o \in Writers : left[o] # {} => stage[o] = "reloading"

\* A binding not yet read since the person's last write is still to be: its reload is on
\* its way, or some refresh has it left.
OwnAwaited ==
  ~failed => \A b \in Each :
    \/ snap[b].version >= own
    \/ \E i \in Queued : reads[i].of = b /\ reads[i].version >= own
    \/ \E o \in Writers : b \in left[o]

\* Nothing of the domain is before a record of P and not in P.
Prefix(P, reverse) == P \subseteq rows /\ \A i \in P, j \in rows : Before(reverse, j, i) => j \in P

\* What a binding shows of a domain that has not moved: the first records, and all of them
\* once the end was read.
Stands(b, more) ==
  snap[b].version = version /\ ~more.stitched =>
    /\ Prefix(snap[b].rows \cup more.rows, b.reverse)
    /\ more.ended => rows \subseteq snap[b].rows \cup more.rows

\* An answer to Show more that its page still is under goes on from the page's last record.
GoesOn(s) ==
  snap[s.of].version = version /\ ~s.more.stitched =>
    /\ s.after \in snap[s.of].rows \cup s.more.rows
    /\ \A j \in snap[s.of].rows \cup s.more.rows : j # s.after => Before(s.of.reverse, j, s.after)
    /\ s.got # None => s.got = Scan(rows, s.of.reverse, s.after)

Follows(s) == ~s.more.ended /\ (~s.crossed => Stands(s.of, s.more) /\ GoesOn(s))

PagesFollow ==
  alive => (\A b \in Each : Stands(b, beyond[b])) /\ (\A s \in scans : Follows(s))

IInv ==
  /\ TypeOK /\ Painted /\ InOrder /\ ReadsHold
  /\ LeftIsReloading /\ OwnAwaited /\ PagesFollow

\* A read that is asked of the domain, by a refresh or for a change that was noticed.
LEMMA AskedType ==
  ASSUME rows \subseteq Ids, version \in Nat, NEW b \in Each, NEW o \in Writers \cup {"tick"}
  PROVE  /\ Asked(b, o) \in Reloading
         /\ Asked(b, o).of = b /\ Asked(b, o).version = version
         /\ Asked(b, o).rows = Scan(rows, b.reverse, None) /\ Cardinality(Asked(b, o).rows) <= PAGE
BY EachType, ScanType DEF Asked, Reloading

LEMMA TypeFacts ==
  ASSUME TypeOK
  PROVE  /\ rows \subseteq Ids /\ version \in Nat /\ own \in Nat /\ None \in Writers
         /\ reads \in Seq(Reloading)
         /\ \A b \in Each : /\ snap[b] \in Read /\ beyond[b] \in More /\ shown[b] \in View
                            /\ snap[b].rows \in SUBSET Ids /\ snap[b].version \in Nat
                            /\ Cardinality(snap[b].rows) <= PAGE
BY ConstantsOK DEF TypeOK, Ids, Writers, Read

LEMMA InitTypeOK == Init => TypeOK
<1> SUFFICES ASSUME Init PROVE TypeOK
  OBVIOUS
<1> USE ConstantsOK
<1>1. rows \subseteq Ids /\ rows \subseteq 1 .. minted /\ minted \in 0 .. MaxRow
  BY DEF Init, Ids
<1>2. version \in 1 .. MaxVersion /\ own \in 0 .. MaxVersion
  BY DEF Init
<1>3. snap \in [Each -> Read] /\ \A b \in Each : Cardinality(snap[b].rows) <= PAGE
  <2>1. snap \in [Each -> Read] /\ \A b \in Each : snap[b].rows = {}
    BY DEF Init, Read
  <2> QED
    BY <2>1, FS_EmptySet
<1>4. beyond \in [Each -> More]
  BY DEF Init, NoMore, More
<1>5. reads \in Seq(Reloading)
  <2>1. PICK b \in Each : reads = <<Asked(b, None)>>
    BY DEF Init
  <2>2. Asked(b, None) \in Reloading
    BY <1>1, <1>2, AskedType DEF Writers
  <2> QED
    BY <2>1, <2>2
<1>6. stage \in [Writers -> {"idle", "saving", "deleting", "reloading"}]
      /\ target \in [Writers -> Ids \cup {None}]
  BY DEF Init
<1>7. left \in [Writers -> SUBSET Each]
  BY DEF Init
<1>8. shown \in [Each -> View]
  BY DEF Init, View
<1>9. alive \in BOOLEAN /\ failed \in BOOLEAN /\ canvas \in {"blank", "ours", "taken"}
      /\ editing \in Ids \cup {None} /\ form \in Ids \cup {None} /\ scans \subseteq Scanning
  BY DEF Init
<1> QED
  BY <1>1, <1>2, <1>3, <1>4, <1>5, <1>6, <1>7, <1>8, <1>9 DEF TypeOK

PaintType == canvas \in {"blank", "ours", "taken"} /\ form \in Ids \cup {None} /\ shown \in [Each -> View]

LEMMA RenderType ==
  ASSUME PaintType, snap' \in [Each -> Read], beyond' \in [Each -> More],
         editing' \in Ids \cup {None}, Render
  PROVE  PaintType'
<1>1. CASE MayPaint
  <2>1. \A b \in Each : PageView(snap'[b].rows, beyond'[b]) \in View
    BY PageViewType DEF Read
  <2> QED
    BY <1>1, <2>1 DEF Render, PaintType
<1>2. CASE ~MayPaint
  BY <1>2 DEF Render, PaintType, paintVars
<1> QED
  BY <1>1, <1>2

\* What an accepted write leaves: a first reload on its way, the others left to make.
LEMMA AcceptedIs ==
  ASSUME TypeOK, rows' \subseteq Ids, version' \in 1 .. MaxVersion, NEW o \in Ops, Accepted(o)
  PROVE  /\ stage' = [stage EXCEPT ![o] = "reloading"] /\ target' = [target EXCEPT ![o] = None]
         /\ own' = version' /\ UNCHANGED <<snap, beyond, scans, paintVars>>
         /\ reads' \in Seq(Reloading)
         /\ \E b \in Each, r \in Reloading :
              /\ left' = [left EXCEPT ![o] = Each \ {b}] /\ reads' = Append(reads, r)
              /\ r.of = b /\ r.version = version' /\ r.rows = Scan(rows', b.reverse, None)
              /\ Cardinality(r.rows) <= PAGE
<1>1. PICK b \in Each :
        /\ left' = [left EXCEPT ![o] = Each \ {b}]
        /\ reads' = Append(reads, [Asked(b, o) EXCEPT
                      !.rows = Scan(rows', b.reverse, None), !.version = version'])
  BY DEF Accepted, Refreshed
<1> DEFINE r == [Asked(b, o) EXCEPT !.rows = Scan(rows', b.reverse, None), !.version = version']
<1>2. Asked(b, o) \in Reloading /\ Asked(b, o).of = b
  BY TypeFacts, AskedType DEF Writers
<1>3. Scan(rows', b.reverse, None) \in SUBSET Ids /\ Cardinality(Scan(rows', b.reverse, None)) <= PAGE
  BY EachType, ScanType
<1>4. r \in Reloading /\ r.of = b /\ r.version = version' /\ r.rows = Scan(rows', b.reverse, None)
  <2>1. PICK a \in Reloading, got \in SUBSET Ids, v \in Nat :
          a = Asked(b, o) /\ got = Scan(rows', b.reverse, None) /\ v = version'
    BY <1>2, <1>3, ConstantsOK
  <2>2. r = [a EXCEPT !.rows = got, !.version = v]
    BY <2>1
  <2> HIDE DEF r
  <2>3. r \in Reloading /\ r.of = a.of /\ r.version = v /\ r.rows = got
    BY <2>2 DEF Reloading
  <2> QED
    BY <1>2, <2>1, <2>3
<1> HIDE DEF r
<1>5. reads' \in Seq(Reloading)
  BY <1>1, <1>4, TypeFacts DEF r
<1> QED
  BY <1>1, <1>3, <1>4, <1>5 DEF Accepted, r

\* The parts of the type invariant, as the actions share them.
DomainType == rows \subseteq 1 .. minted /\ minted \in 0 .. MaxRow /\ version \in 1 .. MaxVersion
SnapType == snap \in [Each -> Read] /\ (\A b \in Each : Cardinality(snap[b].rows) <= PAGE)
             /\ beyond \in [Each -> More]
OpType ==
  /\ stage \in [Writers -> {"idle", "saving", "deleting", "reloading"}]
  /\ target \in [Writers -> Ids \cup {None}] /\ left \in [Writers -> SUBSET Each]
RestType ==
  editing \in Ids \cup {None} /\ alive \in BOOLEAN /\ failed \in BOOLEAN /\ own \in 0 .. MaxVersion

TypeParts ==
  DomainType /\ SnapType /\ reads \in Seq(Reloading) /\ scans \subseteq Scanning /\ OpType /\ PaintType /\ RestType

LEMMA TypeOKIsItsParts == (TypeOK <=> TypeParts) /\ (TypeOK' <=> TypeParts')
BY DEF TypeOK, TypeParts, DomainType, SnapType, OpType, PaintType, RestType

LEMMA ChangesIs ==
  ASSUME TypeOK, Changes
  PROVE  version' \in 1 .. MaxVersion /\ version' = version + 1
BY ConstantsOK DEF Changes, TypeOK

LEMMA PutIs ==
  ASSUME TypeOK, Put
  PROVE  rows' \subseteq 1 .. minted' /\ minted' \in 0 .. MaxRow
<1>1. minted \in 0 .. MaxRow /\ minted' = minted + 1 /\ rows' = rows \cup {minted + 1}
      /\ minted < MaxRow /\ rows \subseteq 1 .. minted
  BY DEF Put, TypeOK
<1>2. minted' \in 0 .. MaxRow
  BY <1>1, ConstantsOK
<1>3. ASSUME NEW r \in rows' PROVE r \in 1 .. minted'
  <2>1. CASE r \in rows
    BY <1>1, <2>1
  <2>2. CASE r = minted + 1
    BY <1>1, <2>2
  <2> QED
    BY <1>1, <1>3, <2>1, <2>2
<1> QED
  BY <1>2, <1>3

\* A view that says there is more is of a full page: it has a last row.
LEMMA MoreHasALast ==
  ASSUME TypeOK, Painted, OnCanvas, NEW b \in Each, shown[b].extent = "more"
  PROVE  /\ shown[b].rows = snap[b].rows \cup beyond[b].rows
         /\ ~(Cardinality(snap[b].rows) < PAGE) /\ ~beyond[b].ended
         /\ snap[b].rows # {} /\ snap[b].rows \subseteq Ids /\ beyond[b].rows \subseteq Ids
         /\ LET past == beyond[b].rows \ snap[b].rows
            IN  Last(IF past # {} THEN past ELSE shown[b].rows, b.reverse)
                  \in IF past # {} THEN past ELSE shown[b].rows
<1>1. shown[b] = PageView(snap[b].rows, beyond[b])
  BY DEF OnCanvas, Painted, ViewOf
<1>2. /\ shown[b].rows = snap[b].rows \cup beyond[b].rows
      /\ ~(Cardinality(snap[b].rows) < PAGE) /\ ~beyond[b].ended
  BY <1>1 DEF PageView, Extent
<1>3. snap[b].rows # {} /\ snap[b].rows \subseteq Ids /\ beyond[b].rows \subseteq Ids
  <2>1. snap[b].rows \in SUBSET Ids /\ beyond[b] \in More
    BY TypeFacts
  <2>2. snap[b].rows # {}
    BY <1>2, FS_EmptySet, ConstantsOK
  <2> QED
    BY <2>1, <2>2 DEF More
<1>4. ASSUME NEW S \in SUBSET Ids, S # {} PROVE Last(S, b.reverse) \in S
  BY <1>4, SetsOfIds, EachType, LastIs
<1> QED
  BY <1>2, <1>3, <1>4

LEMMA NextTypeOK == TypeOK /\ Painted /\ ReadsHold /\ [Next]_vars => TypeOK'
<1> SUFFICES ASSUME TypeOK, Painted, ReadsHold, [Next]_vars PROVE TypeOK'
  OBVIOUS
<1>0. TypeParts
  BY TypeOKIsItsParts
<1> USE DEF TypeParts, domainVars, readVars, opVars, paintVars
<1>1. CASE OthersWrite
  <2>1. rows' \subseteq 1 .. minted' /\ minted' \in 0 .. MaxRow
    BY <1>0, <1>1, PutIs DEF OthersWrite, DomainType
  <2>2. version' \in 1 .. MaxVersion
    BY <1>1, ChangesIs DEF OthersWrite
  <2> QED
    BY <1>0, <1>1, <2>1, <2>2, TypeOKIsItsParts
    DEF OthersWrite, DomainType, SnapType, OpType, PaintType, RestType
<1>2. CASE Reloaded
  <2> DEFINE r == Head(reads)
  <2>1. r \in Reloading /\ r = reads[1] /\ Tail(reads) \in Seq(Reloading) /\ 1 \in Queued
    BY <1>0, <1>2, TailIs DEF Reloaded, Queued
  <2>2. snap' = [snap EXCEPT ![r.of] = [rows |-> r.rows, version |-> r.version]]
    BY <1>2 DEF Reloaded
  <2>3. snap' \in [Each -> Read] /\ \A b \in Each : Cardinality(snap'[b].rows) <= PAGE
    <3>1. [rows |-> r.rows, version |-> r.version] \in Read /\ r.of \in Each
      BY <2>1 DEF Reloading, Read
    <3>2. Cardinality(r.rows) <= PAGE
      BY <2>1 DEF ReadsHold
    <3> HIDE DEF r
    <3> QED
      BY <1>0, <2>2, <3>1, <3>2 DEF SnapType
  <2>4. beyond' \in [Each -> More] /\ scans' \subseteq Scanning
    <3>1. CASE Resets(r.of)
      <4>1. NoMore \in More
        BY DEF NoMore, More
      <4>2. \A s \in Scanning : [s EXCEPT !.crossed = TRUE] \in Scanning
        BY DEF Scanning
      <4>3. scans' = {IF s.of = r.of THEN [s EXCEPT !.crossed = TRUE] ELSE s : s \in scans}
            /\ beyond' = [beyond EXCEPT ![r.of] = NoMore]
        BY <3>1 DEF Resets
      <4> HIDE DEF r
      <4> QED
        BY <1>0, <4>1, <4>2, <4>3 DEF SnapType
    <3>2. CASE UNCHANGED <<beyond, scans>>
      BY <1>0, <3>2 DEF SnapType
    <3> QED
      BY <1>2, <3>1, <3>2 DEF Reloaded
  <2>5. OpType' /\ reads' \in Seq(Reloading)
    <3>1. Continues(r.owner, r.of)
      BY <1>2 DEF Reloaded
    <3>2. CASE UNCHANGED opVars /\ reads' = Tail(reads)
      BY <1>0, <2>1, <3>2 DEF OpType
    <3>3. ASSUME r.owner # "tick", left[r.owner] = {} PROVE OpType' /\ reads' \in Seq(Reloading)
      BY <1>0, <2>1, <3>1, <3>3 DEF Continues, OpType
    <3>4. ASSUME r.owner # "tick", NEW n \in left[r.owner],
                 left' = [left EXCEPT ![r.owner] = @ \ {n}],
                 reads' = Append(Tail(reads), Asked(n, r.owner)), UNCHANGED <<stage, target>>
          PROVE  OpType' /\ reads' \in Seq(Reloading)
      <4>1. r.owner \in Writers /\ n \in Each
        BY <1>0, <2>1, <3>4 DEF Reloading, OpType
      <4>2. Asked(n, r.owner) \in Reloading
        BY <4>1, TypeFacts, AskedType
      <4>3. reads' \in Seq(Reloading)
        BY <2>1, <3>4, <4>2
      <4> HIDE DEF r
      <4> QED
        BY <1>0, <3>4, <4>1, <4>3 DEF OpType
    <3> HIDE DEF r
    <3> QED
      BY <3>1, <3>2, <3>3, <3>4 DEF Continues
  <2>6. PaintType'
    BY <1>0, <1>2, <2>3, <2>4, RenderType DEF Reloaded, Repaints, RestType
  <2> QED
    BY <1>0, <1>2, <2>3, <2>4, <2>5, <2>6, TypeOKIsItsParts
    DEF Reloaded, DomainType, SnapType, RestType
<1>3. CASE ReloadFails
  <2>1. reads' \in Seq(Reloading) /\ Head(reads) \in Reloading
    BY <1>0, <1>3, TailIs DEF ReloadFails
  <2>2. OpType'
    BY <1>0, <1>3, <2>1 DEF ReloadFails, OpType
  <2> QED
    BY <1>0, <1>3, <2>1, <2>2, TypeOKIsItsParts
    DEF ReloadFails, DomainType, SnapType, PaintType, RestType
<1>4. CASE Disowned
  BY <1>0, <1>4, TypeOKIsItsParts DEF Disowned, DomainType, SnapType, OpType, PaintType, RestType
<1>5. ASSUME NEW b \in Each, Notice(b) PROVE TypeOK'
  <2>1. reads' \in Seq(Reloading)
    BY <1>0, <1>5, TypeFacts, AskedType DEF Notice
  <2> QED
    BY <1>0, <1>5, <2>1, TypeOKIsItsParts DEF Notice, DomainType, SnapType, OpType, PaintType, RestType
<1>6. ASSUME NEW b \in Each, ShowMore(b) PROVE TypeOK'
  <2> DEFINE past == beyond[b].rows \ snap[b].rows
             after == Last(IF past # {} THEN past ELSE shown[b].rows, b.reverse)
  <2>1. after \in Ids
    BY <1>6, MoreHasALast DEF ShowMore
  <2>2. scans' = scans \cup {[of |-> b, more |-> beyond[b], after |-> after, got |-> None, crossed |-> FALSE]}
    BY <1>6 DEF ShowMore
  <2> HIDE DEF after
  <2>3. scans' \subseteq Scanning
    <3>1. beyond[b] \in More
      BY TypeFacts
    <3>2. [of |-> b, more |-> beyond[b], after |-> after, got |-> None, crossed |-> FALSE] \in Scanning
      BY <2>1, <3>1 DEF Scanning
    <3> QED
      BY <1>0, <2>2, <3>2
  <2> QED
    BY <1>0, <1>6, <2>3, TypeOKIsItsParts DEF ShowMore, DomainType, SnapType, OpType, PaintType, RestType
<1>7. ASSUME NEW o \in Ops, Save(o) \/ Refused(o) PROVE TypeOK'
  <2>1. OpType'
    BY <1>0, <1>7 DEF Save, Refused, OpType, PaintType, Writers
  <2> QED
    BY <1>0, <1>7, <2>1, TypeOKIsItsParts DEF Save, Refused, DomainType, SnapType, PaintType, RestType
<1>8. ASSUME NEW o \in Ops, NEW r \in Ids, Delete(o, r) PROVE TypeOK'
  <2>1. OpType'
    BY <1>0, <1>8 DEF Delete, OpType, Writers
  <2> QED
    BY <1>0, <1>8, <2>1, TypeOKIsItsParts DEF Delete, DomainType, SnapType, PaintType, RestType
<1>9. ASSUME NEW o \in Ops, Saved(o) \/ Deleted(o) PROVE TypeOK'
  <2>1. DomainType'
    <3>1. CASE Saved(o)
      BY <1>0, <3>1, ChangesIs, PutIs DEF Saved, DomainType
    <3>2. CASE Deleted(o)
      BY <1>0, <3>2, ChangesIs DEF Deleted, DomainType
    <3> QED
      BY <1>9, <3>1, <3>2
  <2>2. rows' \subseteq Ids /\ version' \in 1 .. MaxVersion /\ Accepted(o)
    BY <1>9, <2>1, ConstantsOK DEF Saved, Deleted, DomainType, Ids
  <2>3. own' \in 0 .. MaxVersion /\ editing' \in Ids \cup {None} /\ UNCHANGED <<alive, failed>>
    BY <1>0, <1>9, <2>2, AcceptedIs DEF Saved, Deleted, RestType
  <2>4. OpType'
    BY <1>0, <2>2, AcceptedIs DEF OpType, Writers
  <2> QED
    BY <1>0, <2>1, <2>2, <2>3, <2>4, AcceptedIs, TypeOKIsItsParts DEF SnapType, PaintType, RestType
<1>10. ASSUME NEW r \in Ids \cup {None}, SetEditing(r) PROVE TypeOK'
  <2>1. PaintType'
    BY <1>0, <1>10, RenderType DEF SetEditing, SnapType
  <2> QED
    BY <1>0, <1>10, <2>1, TypeOKIsItsParts DEF SetEditing, DomainType, SnapType, OpType, RestType
<1>11. ASSUME NEW s \in scans, ScanRead(s) PROVE TypeOK'
  <2>1. s \in Scanning
    BY <1>0
  <2>2. Scan(rows, s.of.reverse, s.after) \in SUBSET Ids
    BY <2>1, TypeFacts, EachType, ScanType DEF Scanning
  <2>3. scans' \subseteq Scanning
    <3>1. [s EXCEPT !.got = Scan(rows, s.of.reverse, s.after)] \in Scanning
      BY <2>1, <2>2 DEF Scanning
    <3> QED
      BY <1>0, <1>11, <3>1 DEF ScanRead
  <2> QED
    BY <1>0, <1>11, <2>3, TypeOKIsItsParts DEF ScanRead, DomainType, SnapType, OpType, PaintType, RestType
<1>12. ASSUME NEW s \in scans, ScanAnswered(s) PROVE TypeOK'
  <2>1. s \in Scanning
    BY <1>0
  <2>2. beyond' \in [Each -> More]
    <3>1. CASE s.got # None /\ beyond' = [beyond EXCEPT ![s.of] =
             [rows |-> s.more.rows \cup s.got, ended |-> Cardinality(s.got) < PAGE,
              stitched |-> s.crossed \/ s.more.stitched]]
      <4>1. [rows |-> s.more.rows \cup s.got, ended |-> Cardinality(s.got) < PAGE,
             stitched |-> s.crossed \/ s.more.stitched] \in More
        BY <2>1, <3>1 DEF Scanning, More
      <4> QED
        BY <1>0, <2>1, <3>1, <4>1 DEF SnapType, Scanning
    <3>2. CASE beyond' = [beyond EXCEPT ![s.of] = [s.more EXCEPT !.stitched = @ \/ s.crossed]]
      <4>1. [s.more EXCEPT !.stitched = @ \/ s.crossed] \in More
        BY <2>1 DEF Scanning, More
      <4> QED
        BY <1>0, <2>1, <3>2, <4>1 DEF SnapType, Scanning
    <3> QED
      BY <1>12, <3>1, <3>2 DEF ScanAnswered
  <2>3. PaintType'
    BY <1>0, <1>12, <2>2, RenderType DEF ScanAnswered, SnapType, RestType
  <2> QED
    BY <1>0, <1>12, <2>2, <2>3, TypeOKIsItsParts
    DEF ScanAnswered, DomainType, SnapType, OpType, RestType
<1>13. CASE UNCHANGED vars
  BY <1>0, <1>13, TypeOKIsItsParts DEF vars, DomainType, SnapType, OpType, PaintType, RestType
<1> QED
  BY <1>1, <1>2, <1>3, <1>4, <1>5, <1>6, <1>7, <1>8, <1>9, <1>10, <1>11, <1>12, <1>13 DEF Next

(***************************************************************************)
(* What one step does to the domain and to the queue.                      *)
(***************************************************************************)

\* A read that is made with this step holds the page as it then is.
Fresh(r) == /\ r.version = version' /\ r.rows = Scan(rows', r.of.reverse, None)
            /\ Cardinality(r.rows) <= PAGE

\* The queue moves by d places, and may take one fresh read at its end.
Moves(d) ==
  /\ \A i \in Queued' : \/ i + d \in Queued /\ reads'[i] = reads[i + d]
                        \/ i = Len(reads') /\ Fresh(reads'[i])
  /\ \A k \in Queued : k > d => k - d \in Queued' /\ reads'[k - d] = reads[k]

Answers == snap' = [snap EXCEPT ![reads[1].of] = [rows |-> reads[1].rows, version |-> reads[1].version]]

ReadsStep == \/ Moves(0) /\ snap' = snap
             \/ Moves(1) /\ 1 \in Queued /\ (snap' = snap \/ Answers)

DomainStep ==
  /\ version <= version' /\ (version' = version => rows' = rows)
  /\ own' = own \/ own' = version'

LEMMA AppendMoves ==
  ASSUME NEW r \in Reloading, Fresh(r), reads \in Seq(Reloading), reads' = Append(reads, r)
  PROVE  Moves(0)
<1>1. Len(reads') = Len(reads) + 1 /\ Len(reads) \in Nat /\ reads'[Len(reads) + 1] = r
      /\ \A i \in 1 .. Len(reads) : reads'[i] = reads[i]
  BY AppendIs
<1>2. ASSUME NEW i \in Queued'
      PROVE  \/ i + 0 \in Queued /\ reads'[i] = reads[i + 0]
             \/ i = Len(reads') /\ Fresh(reads'[i])
  <2>1. CASE i = Len(reads) + 1
    BY <1>1, <2>1
  <2>2. CASE i # Len(reads) + 1
    BY <1>1, <2>2 DEF Queued
  <2> QED
    BY <2>1, <2>2
<1>3. ASSUME NEW k \in Queued, k > 0 PROVE k - 0 \in Queued' /\ reads'[k - 0] = reads[k]
  BY <1>1 DEF Queued
<1> QED
  BY <1>2, <1>3 DEF Moves

LEMMA TailMoves ==
  ASSUME reads \in Seq(Reloading), reads # <<>>, reads' = Tail(reads)
  PROVE  Moves(1) /\ 1 \in Queued
<1>1. Len(reads') = Len(reads) - 1 /\ Len(reads) \in Nat \ {0}
      /\ \A i \in 1 .. Len(reads) - 1 : reads'[i] = reads[i + 1]
  BY TailIs
<1>2. \A i \in Queued' : i + 1 \in Queued /\ reads'[i] = reads[i + 1]
  BY <1>1 DEF Queued
<1>3. ASSUME NEW k \in Queued, k > 1 PROVE k - 1 \in Queued' /\ reads'[k - 1] = reads[k]
  <2>1. k - 1 \in 1 .. Len(reads) - 1 /\ (k - 1) + 1 = k
    BY <1>1, <1>3 DEF Queued
  <2> QED
    BY <1>1, <2>1 DEF Queued
<1>4. 1 \in Queued
  BY <1>1 DEF Queued
<1>5. Moves(1)
  BY <1>2, <1>3 DEF Moves
<1> QED
  BY <1>4, <1>5

LEMMA TailAppendMoves ==
  ASSUME reads \in Seq(Reloading), reads # <<>>, NEW r \in Reloading, Fresh(r),
         reads' = Append(Tail(reads), r)
  PROVE  Moves(1) /\ 1 \in Queued /\ Len(reads') \in Queued' /\ reads'[Len(reads')] = r
<1>1. Tail(reads) \in Seq(Reloading) /\ Len(Tail(reads)) = Len(reads) - 1 /\ Len(reads) \in Nat \ {0}
      /\ \A i \in 1 .. Len(reads) - 1 : Tail(reads)[i] = reads[i + 1]
  BY TailIs
<1>2. PICK n \in Nat \ {0} :
        /\ n = Len(reads) /\ n = Len(reads') /\ Queued = 1 .. n /\ Queued' = 1 .. n
        /\ reads'[n] = r /\ \A i \in 1 .. n - 1 : reads'[i] = reads[i + 1]
  <2>1. Len(reads') = Len(reads) /\ reads'[Len(reads)] = r
        /\ \A i \in 1 .. Len(reads) - 1 : reads'[i] = reads[i + 1]
    BY <1>1, AppendIs
  <2> QED
    BY <1>1, <2>1 DEF Queued
<1>3. ASSUME NEW i \in 1 .. n
      PROVE  \/ i + 1 \in 1 .. n /\ reads'[i] = reads[i + 1]
             \/ i = n /\ Fresh(reads'[i])
  <2>1. CASE i = n
    BY <1>2, <2>1
  <2>2. CASE i # n
    <3>1. i \in 1 .. n - 1 /\ i + 1 \in 1 .. n
      BY <2>2
    <3> QED
      BY <1>2, <3>1
  <2> QED
    BY <2>1, <2>2
<1>4. ASSUME NEW k \in 1 .. n, k > 1 PROVE k - 1 \in 1 .. n /\ reads'[k - 1] = reads[k]
  <2>1. k - 1 \in 1 .. n - 1 /\ (k - 1) + 1 = k
    BY <1>4
  <2> QED
    BY <1>2, <2>1
<1>5. Moves(1)
  BY <1>2, <1>3, <1>4 DEF Moves
<1> QED
  BY <1>2, <1>5

LEMMA StillMoves ==
  ASSUME reads \in Seq(Reloading), UNCHANGED reads
  PROVE  Moves(0)
<1>1. Len(reads) \in Nat
  OBVIOUS
<1> QED
  BY <1>1 DEF Moves, Queued

\* What the refresh of an answered reload goes on to.
LEMMA ContinuesIs ==
  ASSUME TypeOK, reads # <<>>, Head(reads).owner # "tick", UNCHANGED <<rows, version>>,
         Continues(Head(reads).owner, Head(reads).of)
  PROVE  LET o == Head(reads).owner
         IN  /\ o \in Writers
             /\ \/ /\ left[o] = {} /\ stage' = [stage EXCEPT ![o] = "idle"]
                   /\ UNCHANGED left /\ reads' = Tail(reads)
                \/ \E n \in left[o] : \E r \in Reloading :
                     /\ left' = [left EXCEPT ![o] = @ \ {n}] /\ UNCHANGED stage
                     /\ r.of = n /\ Fresh(r) /\ reads' = Append(Tail(reads), r)
<1> DEFINE o == Head(reads).owner
<1>1. o \in Writers
  BY TypeFacts, TailIs DEF Reloading
<1>2. CASE left[o] = {}
  BY <1>1, <1>2 DEF Continues
<1>3. CASE left[o] # {}
  <2>1. PICK n \in left[o] :
          left' = [left EXCEPT ![o] = @ \ {n}] /\ reads' = Append(Tail(reads), Asked(n, o))
          /\ UNCHANGED <<stage, target>>
    BY <1>3 DEF Continues
  <2>2. n \in Each
    BY <1>1 DEF TypeOK
  <2> HIDE DEF o
  <2>3. Asked(n, o) \in Reloading /\ Asked(n, o).of = n /\ Fresh(Asked(n, o))
    BY <1>1, <2>2, TypeFacts, AskedType DEF Fresh
  <2>4. \E x \in left[o] : \E r \in Reloading :
          /\ left' = [left EXCEPT ![o] = @ \ {x}] /\ UNCHANGED stage
          /\ r.of = x /\ Fresh(r) /\ reads' = Append(Tail(reads), r)
    BY <2>1, <2>3
  <2> QED
    BY <1>1, <2>4 DEF o
<1> QED
  BY <1>2, <1>3

LEMMA AcceptedMoves ==
  ASSUME TypeOK, TypeOK', NEW o \in Ops, Accepted(o)
  PROVE  Moves(0) /\ UNCHANGED <<snap, beyond, scans>> /\ own' = version'
<1>1. rows' \subseteq Ids /\ version' \in 1 .. MaxVersion
  BY ConstantsOK DEF TypeOK, Ids
<1>2. PICK b \in Each, r \in Reloading :
        /\ reads' = Append(reads, r) /\ r.of = b /\ r.version = version'
        /\ r.rows = Scan(rows', b.reverse, None) /\ Cardinality(r.rows) <= PAGE
  BY <1>1, AcceptedIs
<1>3. Fresh(r)
  BY <1>2 DEF Fresh
<1> QED
  BY <1>1, <1>2, <1>3, AcceptedIs, AppendMoves, TypeFacts

LEMMA NextSteps ==
  ASSUME TypeOK, TypeOK', [Next]_vars
  PROVE  DomainStep /\ ReadsStep
<1>0. reads \in Seq(Reloading) /\ version \in Nat
  BY TypeFacts
<1> USE DEF domainVars, readVars, opVars, paintVars
<1>1. CASE OthersWrite
  BY <1>0, <1>1, StillMoves DEF OthersWrite, Changes, DomainStep, ReadsStep
<1>2. CASE Reloaded
  <2> DEFINE r == Head(reads)
  <2>1. r = reads[1] /\ UNCHANGED <<rows, version, own>> /\ reads # <<>>
        /\ Continues(r.owner, r.of)
    BY <1>0, <1>2, TailIs DEF Reloaded
  <2>2. Answers
    BY <1>2, <2>1 DEF Reloaded, Answers
  <2>3. Moves(1) /\ 1 \in Queued
    <3>1. CASE r.owner = "tick"
      BY <1>0, <2>1, <3>1, TailMoves DEF Continues
    <3>2. CASE r.owner # "tick"
      BY <1>0, <2>1, <3>2, ContinuesIs, TailMoves, TailAppendMoves
    <3> QED
      BY <3>1, <3>2
  <2> QED
    BY <1>0, <2>1, <2>2, <2>3 DEF DomainStep, ReadsStep
<1>3. CASE ReloadFails
  BY <1>0, <1>3, TailMoves DEF ReloadFails, DomainStep, ReadsStep
<1>4. ASSUME NEW b \in Each, Notice(b) PROVE DomainStep /\ ReadsStep
  <2>1. Asked(b, "tick") \in Reloading /\ Asked(b, "tick").of = b
        /\ Asked(b, "tick").version = version
        /\ Asked(b, "tick").rows = Scan(rows, b.reverse, None)
        /\ Cardinality(Asked(b, "tick").rows) <= PAGE
    BY TypeFacts, AskedType
  <2>2. Fresh(Asked(b, "tick"))
    BY <1>4, <2>1 DEF Fresh, Notice
  <2> QED
    BY <1>0, <1>4, <2>1, <2>2, AppendMoves DEF Notice, DomainStep, ReadsStep
<1>5. ASSUME NEW o \in Ops, Saved(o) \/ Deleted(o) PROVE DomainStep /\ ReadsStep
  <2>1. Accepted(o)
    BY <1>5 DEF Saved, Deleted
  <2>2. version <= version' /\ (version' = version => rows' = rows)
    BY <1>0, <1>5 DEF Saved, Deleted, Changes
  <2> QED
    BY <2>1, <2>2, AcceptedMoves DEF DomainStep, ReadsStep
<1>6. ASSUME NEW b \in Each, ShowMore(b) PROVE DomainStep /\ ReadsStep
  BY <1>0, <1>6, StillMoves DEF ShowMore, DomainStep, ReadsStep
<1>7. ASSUME NEW o \in Ops, Save(o) \/ Refused(o) PROVE DomainStep /\ ReadsStep
  BY <1>0, <1>7, StillMoves DEF Save, Refused, DomainStep, ReadsStep
<1>8. ASSUME NEW o \in Ops, NEW r \in Ids, Delete(o, r) PROVE DomainStep /\ ReadsStep
  BY <1>0, <1>8, StillMoves DEF Delete, DomainStep, ReadsStep
<1>9. ASSUME NEW r \in Ids \cup {None}, SetEditing(r) PROVE DomainStep /\ ReadsStep
  BY <1>0, <1>9, StillMoves DEF SetEditing, DomainStep, ReadsStep
<1>10. ASSUME NEW s \in scans, ScanRead(s) \/ ScanAnswered(s) PROVE DomainStep /\ ReadsStep
  BY <1>0, <1>10, StillMoves DEF ScanRead, ScanAnswered, DomainStep, ReadsStep
<1>11. CASE Disowned \/ UNCHANGED vars
  BY <1>0, <1>11, StillMoves DEF Disowned, vars, DomainStep, ReadsStep
<1> QED
  BY <1>1, <1>2, <1>3, <1>4, <1>5, <1>6, <1>7, <1>8, <1>9, <1>10, <1>11 DEF Next

(***************************************************************************)
(* The parts of the invariant, kept by every step.                         *)
(***************************************************************************)

LEMMA NextInOrder == TypeOK /\ TypeOK' /\ InOrder /\ [Next]_vars => InOrder'
<1> SUFFICES ASSUME TypeOK, TypeOK', InOrder, [Next]_vars PROVE InOrder'
  OBVIOUS
<1>1. DomainStep /\ ReadsStep
  BY NextSteps
<1>2. /\ version \in Nat /\ version' \in Nat /\ own \in Nat
      /\ \A b \in Each : snap[b].version \in Nat /\ snap'[b].version \in Nat
      /\ Len(reads) \in Nat /\ Len(reads') \in Nat
      /\ \A i \in Queued : reads[i].version \in Nat /\ reads[i].of \in Each
      /\ snap \in [Each -> Read]
  <2>1. reads \in Seq(Reloading) /\ reads' \in Seq(Reloading) /\ version \in Nat /\ own \in Nat
        /\ version' \in Nat /\ snap \in [Each -> Read] /\ snap' \in [Each -> Read]
    BY ConstantsOK DEF TypeOK
  <2>2. \A i \in Queued : reads[i] \in Reloading
    BY <2>1 DEF Queued
  <2> QED
    BY <2>1, <2>2 DEF Reloading, Read
<1>3. own' <= version'
  BY <1>1, <1>2 DEF DomainStep, InOrder
<1>4. \A i \in Queued : reads[i].version <= version'
  BY <1>1, <1>2 DEF DomainStep, InOrder
\* The reads that are left are in order, and a fresh one is after them all.
<1>5. ASSUME NEW d \in {0, 1}, Moves(d)
      PROVE  \A i \in Queued' : /\ reads'[i].version <= version'
                               /\ \A j \in Queued' : i < j => reads'[i].version <= reads'[j].version
  <2>1. ASSUME NEW i \in Queued' PROVE reads'[i].version <= version'
    BY <1>2, <1>4, <1>5 DEF Moves, Fresh
  <2>2. ASSUME NEW i \in Queued', NEW j \in Queued', i < j
        PROVE  reads'[i].version <= reads'[j].version
    <3>1. CASE j = Len(reads') /\ Fresh(reads'[j])
      BY <2>1, <3>1 DEF Fresh
    <3>2. CASE j + d \in Queued /\ reads'[j] = reads[j + d]
      <4>1. i # Len(reads')
        BY <1>2, <2>2 DEF Queued
      <4>2. i + d \in Queued /\ reads'[i] = reads[i + d]
        BY <1>5, <4>1 DEF Moves
      <4>3. i + d < j + d
        BY <2>2 DEF Queued
      <4> QED
        BY <3>2, <4>2, <4>3 DEF InOrder
    <3> QED
      BY <1>5, <3>1, <3>2 DEF Moves
  <2> QED
    BY <2>1, <2>2
\* No binding holds what is newer than any read that is left.
<1>6. ASSUME NEW d \in {0, 1}, Moves(d), NEW b \in Each,
             \/ snap'[b].version = snap[b].version
             \/ d = 1 /\ 1 \in Queued /\ snap'[b].version = reads[1].version
      PROVE  snap'[b].version <= version' /\ \A i \in Queued' : snap'[b].version <= reads'[i].version
  <2>1. snap'[b].version <= version'
    BY <1>1, <1>2, <1>4, <1>6 DEF DomainStep, InOrder
  <2>2. ASSUME NEW i \in Queued' PROVE snap'[b].version <= reads'[i].version
    <3>1. CASE Fresh(reads'[i])
      BY <2>1, <3>1 DEF Fresh
    <3>2. CASE i + d \in Queued /\ reads'[i] = reads[i + d]
      <4>1. CASE snap'[b].version = snap[b].version
        BY <3>2, <4>1 DEF InOrder
      <4>2. CASE d = 1 /\ 1 \in Queued /\ snap'[b].version = reads[1].version
        <5>1. 1 < i + 1
          BY <1>2 DEF Queued
        <5> QED
          BY <3>2, <4>2, <5>1 DEF InOrder
      <4> QED
        BY <1>6, <4>1, <4>2
    <3> QED
      BY <1>6, <3>1, <3>2 DEF Moves
  <2> QED
    BY <2>1, <2>2
<1>7. \E d \in {0, 1} : Moves(d) /\ \A b \in Each :
        \/ snap'[b].version = snap[b].version
        \/ d = 1 /\ 1 \in Queued /\ snap'[b].version = reads[1].version
  <2>1. CASE snap' = snap
    BY <1>1, <2>1 DEF ReadsStep, Answers
  <2>2. CASE Moves(1) /\ 1 \in Queued /\ Answers
    <3>1. \A b \in Each : snap'[b].version = snap[b].version \/ snap'[b].version = reads[1].version
      BY <1>2, <2>2 DEF Answers
    <3> QED
      BY <2>2, <3>1
  <2> QED
    BY <1>1, <2>1, <2>2 DEF ReadsStep
<1> QED
  BY <1>3, <1>5, <1>6, <1>7 DEF InOrder

LEMMA NextReadsHold == TypeOK /\ TypeOK' /\ InOrder /\ ReadsHold /\ [Next]_vars => ReadsHold'
<1> SUFFICES ASSUME TypeOK, TypeOK', InOrder, ReadsHold, [Next]_vars PROVE ReadsHold'
  OBVIOUS
<1>1. DomainStep /\ ReadsStep
  BY NextSteps
<1>2. /\ version \in Nat /\ version' \in Nat
      /\ \A b \in Each : snap[b].version \in Nat
      /\ \A i \in Queued : reads[i].version \in Nat /\ reads[i].of \in Each
      /\ snap \in [Each -> Read]
  <2>1. reads \in Seq(Reloading) /\ version \in Nat
        /\ version' \in Nat /\ snap \in [Each -> Read]
    BY ConstantsOK DEF TypeOK
  <2>2. \A i \in Queued : reads[i] \in Reloading
    BY <2>1 DEF Queued
  <2> QED
    BY <2>1, <2>2 DEF Reloading, Read
<1>3. \A i \in Queued :
        Cardinality(reads[i].rows) <= PAGE
        /\ (reads[i].version = version' => reads[i].rows = Scan(rows', reads[i].of.reverse, None))
  <2> SUFFICES ASSUME NEW i \in Queued, reads[i].version = version'
               PROVE  reads[i].rows = Scan(rows', reads[i].of.reverse, None)
    BY DEF ReadsHold
  <2>1. version' = version
    BY <1>1, <1>2 DEF DomainStep, InOrder
  <2> QED
    BY <1>1, <2>1 DEF DomainStep, ReadsHold
<1>4. ASSUME NEW i \in Queued'
      PROVE  /\ Cardinality(reads'[i].rows) <= PAGE
             /\ reads'[i].version = version' => reads'[i].rows = Scan(rows', reads'[i].of.reverse, None)
  BY <1>1, <1>3 DEF ReadsStep, Moves, Fresh
<1>5. ASSUME NEW b \in Each, snap'[b].version = version' PROVE snap'[b].rows = Scan(rows', b.reverse, None)
  <2>1. CASE snap'[b] = snap[b]
    BY <1>1, <1>2, <1>5, <2>1 DEF DomainStep, InOrder, ReadsHold
  <2>2. CASE 1 \in Queued /\ b = reads[1].of /\ snap'[b] = [rows |-> reads[1].rows, version |-> reads[1].version]
    BY <1>3, <1>5, <2>2
  <2> QED
    BY <1>1, <1>2, <2>1, <2>2 DEF ReadsStep, Answers
<1> QED
  BY <1>4, <1>5 DEF ReadsHold

LEMMA RenderPaints ==
  ASSUME Painted, Render, UNCHANGED alive
  PROVE  Painted'
<1>1. CASE MayPaint
  BY <1>1 DEF Render, MayPaint, Painted, ViewOf
<1>2. CASE ~MayPaint
  BY <1>2 DEF Render, MayPaint, Painted, paintVars
<1> QED
  BY <1>1, <1>2

LEMMA NextPainted == TypeOK /\ TypeOK' /\ Painted /\ [Next]_vars => Painted'
<1> SUFFICES ASSUME TypeOK, TypeOK', Painted, [Next]_vars PROVE Painted'
  OBVIOUS
<1> USE DEF domainVars, readVars, opVars, paintVars
<1>1. ASSUME UNCHANGED <<snap, beyond, shown>>, \/ UNCHANGED <<alive, canvas>>
                                                \/ alive' = FALSE /\ canvas' = "taken"
      PROVE  Painted'
  BY <1>1 DEF Painted, ViewOf
<1>2. CASE Reloaded
  BY <1>2, RenderPaints DEF Reloaded, Repaints
<1>3. ASSUME NEW r \in Ids \cup {None}, SetEditing(r) PROVE Painted'
  BY <1>3, RenderPaints DEF SetEditing
<1>4. ASSUME NEW s \in scans, ScanRead(s) \/ ScanAnswered(s) PROVE Painted'
  BY <1>1, <1>4, RenderPaints DEF ScanRead, ScanAnswered
<1>5. CASE OthersWrite \/ ReloadFails \/ Disowned \/ UNCHANGED vars
  BY <1>1, <1>5 DEF OthersWrite, ReloadFails, Disowned, vars
<1>6. ASSUME NEW b \in Each, Notice(b) \/ ShowMore(b) PROVE Painted'
  BY <1>1, <1>6 DEF Notice, ShowMore
<1>7. ASSUME NEW o \in Ops, Save(o) \/ Refused(o) PROVE Painted'
  BY <1>1, <1>7 DEF Save, Refused
<1>8. ASSUME NEW o \in Ops, NEW r \in Ids, Delete(o, r) PROVE Painted'
  BY <1>1, <1>8 DEF Delete
<1>9. ASSUME NEW o \in Ops, Saved(o) \/ Deleted(o) PROVE Painted'
  BY <1>1, <1>9 DEF Saved, Deleted, Accepted
<1> QED
  BY <1>2, <1>3, <1>4, <1>5, <1>6, <1>7, <1>8, <1>9 DEF Next

LEMMA NextLeftIsReloading ==
  TypeOK /\ TypeOK' /\ LeftIsReloading /\ [Next]_vars => LeftIsReloading'
<1> SUFFICES ASSUME TypeOK, TypeOK', LeftIsReloading, [Next]_vars PROVE LeftIsReloading'
  OBVIOUS
<1> USE DEF domainVars, readVars, opVars, paintVars
<1>0. /\ stage \in [Writers -> {"idle", "saving", "deleting", "reloading"}]
      /\ left \in [Writers -> SUBSET Each] /\ Ops \subseteq Writers
  BY DEF TypeOK, Writers
<1>1. CASE UNCHANGED <<stage, left>>
  BY <1>1 DEF LeftIsReloading
<1>2. CASE Reloaded
  <2>1. CASE Head(reads).owner = "tick"
    BY <1>1, <1>2, <2>1 DEF Reloaded, Continues
  <2>2. CASE Head(reads).owner # "tick"
    <3>1. reads # <<>> /\ UNCHANGED <<rows, version>> /\ Continues(Head(reads).owner, Head(reads).of)
      BY <1>2 DEF Reloaded
    <3>2. PICK o \in Writers :
            \/ left[o] = {} /\ stage' = [stage EXCEPT ![o] = "idle"] /\ UNCHANGED left
            \/ \E n \in left[o] : left' = [left EXCEPT ![o] = @ \ {n}] /\ UNCHANGED stage
      BY <2>2, <3>1, ContinuesIs
    <3> QED
      BY <1>0, <3>2 DEF LeftIsReloading
  <2> QED
    BY <2>1, <2>2
<1>3. CASE ReloadFails
  <2>1. Head(reads) \in Reloading
    BY <1>3, TypeFacts, TailIs DEF ReloadFails
  <2>2. CASE Head(reads).owner = "tick"
    BY <1>1, <1>3, <2>2 DEF ReloadFails
  <2>3. CASE Head(reads).owner # "tick"
    <3>1. PICK o \in Writers : stage' = [stage EXCEPT ![o] = "idle"] /\ left' = [left EXCEPT ![o] = {}]
      BY <1>3, <2>1, <2>3 DEF ReloadFails, Reloading
    <3> QED
      BY <1>0, <3>1 DEF LeftIsReloading
  <2> QED
    BY <2>2, <2>3
<1>4. ASSUME NEW o \in Ops, Save(o) \/ Refused(o) \/ \E r \in Ids : Delete(o, r) PROVE LeftIsReloading'
  <2>1. stage[o] # "reloading" /\ UNCHANGED left /\ \E s : stage' = [stage EXCEPT ![o] = s]
    BY <1>4 DEF Save, Refused, Delete
  <2> QED
    BY <1>0, <2>1 DEF LeftIsReloading
<1>5. ASSUME NEW o \in Ops, Saved(o) \/ Deleted(o) PROVE LeftIsReloading'
  <2>1. /\ stage' = [stage EXCEPT ![o] = "reloading"]
        /\ \E b \in Each : left' = [left EXCEPT ![o] = Each \ {b}]
    BY <1>5 DEF Saved, Deleted, Accepted, Refreshed
  <2> QED
    BY <1>0, <2>1 DEF LeftIsReloading
<1>6. ASSUME NEW b \in Each, Notice(b) \/ ShowMore(b) PROVE LeftIsReloading'
  BY <1>1, <1>6 DEF Notice, ShowMore
<1>7. ASSUME NEW r \in Ids \cup {None}, SetEditing(r) PROVE LeftIsReloading'
  BY <1>1, <1>7 DEF SetEditing
<1>8. ASSUME NEW s \in scans, ScanRead(s) \/ ScanAnswered(s) PROVE LeftIsReloading'
  BY <1>1, <1>8 DEF ScanRead, ScanAnswered
<1>9. CASE OthersWrite \/ Disowned \/ UNCHANGED vars
  BY <1>1, <1>9 DEF OthersWrite, Disowned, vars
<1> QED
  BY <1>2, <1>3, <1>4, <1>5, <1>6, <1>7, <1>8, <1>9 DEF Next

\* What awaits a binding's read after a step that only adds to the queue, or moves it.
LEMMA StillAwaited ==
  ASSUME TypeOK, TypeOK', InOrder, OwnAwaited, ~failed, UNCHANGED own, ReadsStep, NEW b \in Each,
         \/ Moves(0) /\ snap' = snap
         \/ Moves(1) /\ Answers
  PROVE  \/ snap'[b].version >= own'
         \/ \E i \in Queued' : reads'[i].of = b /\ reads'[i].version >= own'
         \/ \E o \in Writers : b \in left[o]
<1>1. /\ own \in Nat /\ snap \in [Each -> Read] /\ \A x \in Each : snap[x].version \in Nat
      /\ \A i \in Queued : reads[i].version \in Nat /\ reads[i].of \in Each
      /\ Len(reads) \in Nat
  <2>1. reads \in Seq(Reloading) /\ own \in Nat /\ snap \in [Each -> Read]
    BY ConstantsOK DEF TypeOK
  <2>2. \A i \in Queued : reads[i] \in Reloading
    BY <2>1 DEF Queued
  <2> QED
    BY <2>1, <2>2 DEF Reloading, Read
<1>2. CASE snap[b].version >= own
  <2>1. snap'[b].version = snap[b].version
        \/ (1 \in Queued /\ snap'[b].version = reads[1].version)
    BY <1>1 DEF ReadsStep, Answers
  <2>2. snap'[b].version >= own
    BY <1>1, <1>2, <2>1 DEF InOrder
  <2> QED
    BY <2>2
<1>3. ASSUME NEW i \in Queued, reads[i].of = b, reads[i].version >= own
      PROVE  \/ snap'[b].version >= own'
             \/ \E k \in Queued' : reads'[k].of = b /\ reads'[k].version >= own'
  <2>1. CASE Moves(0)
    <3>1. i > 0 /\ i - 0 = i
      BY <1>1 DEF Queued
    <3> QED
      BY <1>3, <2>1, <3>1 DEF Moves
  <2>2. CASE Moves(1) /\ Answers /\ i = 1
    <3>1. snap'[b].version = reads[1].version
      BY <1>1, <1>3, <2>2 DEF Answers
    <3> QED
      BY <1>3, <2>2, <3>1
  <2>3. CASE Moves(1) /\ i # 1
    <3>1. i > 1
      BY <1>1, <2>3 DEF Queued
    <3> QED
      BY <1>3, <2>3, <3>1 DEF Moves
  <2> QED
    BY <2>1, <2>2, <2>3
<1> QED
  BY <1>2, <1>3 DEF OwnAwaited

LEMMA NextOwnAwaited ==
  TypeOK /\ TypeOK' /\ InOrder /\ OwnAwaited /\ [Next]_vars => OwnAwaited'
<1> SUFFICES ASSUME TypeOK, TypeOK', InOrder, OwnAwaited, [Next]_vars, ~failed', NEW b \in Each
             PROVE  \/ snap'[b].version >= own'
                    \/ \E i \in Queued' : reads'[i].of = b /\ reads'[i].version >= own'
                    \/ \E o \in Writers : b \in left'[o]
  BY DEF OwnAwaited
<1> DEFINE Awaited == \/ snap'[b].version >= own'
                      \/ \E i \in Queued' : reads'[i].of = b /\ reads'[i].version >= own'
                      \/ \E o \in Writers : b \in left'[o]
<1> USE DEF domainVars, readVars, opVars, paintVars
<1>0. ReadsStep /\ left \in [Writers -> SUBSET Each] /\ Ops \subseteq Writers /\ reads \in Seq(Reloading)
      /\ own \in Nat /\ version \in Nat /\ own <= version
  BY NextSteps, TypeFacts DEF TypeOK, Writers, InOrder
<1>1. ASSUME ~failed, UNCHANGED <<own, left>>,
             \/ Moves(0) /\ snap' = snap
             \/ Moves(1) /\ Answers
      PROVE  Awaited
  BY <1>0, <1>1, StillAwaited
<1>2. CASE UNCHANGED <<own, left, failed, reads, snap>>
  BY <1>0, <1>1, <1>2, StillMoves
<1>3. CASE Reloaded
  <2>1. /\ reads # <<>> /\ UNCHANGED <<rows, version, own, failed>>
        /\ Continues(Head(reads).owner, Head(reads).of) /\ Answers
    BY <1>0, <1>3, TailIs DEF Reloaded, Answers
  <2>2. CASE Head(reads).owner = "tick"
    BY <1>0, <1>1, <2>1, <2>2, TailMoves DEF Continues
  <2>3. CASE Head(reads).owner # "tick"
    <3>1. PICK o \in Writers :
            \/ UNCHANGED left /\ reads' = Tail(reads)
            \/ \E n \in left[o] : \E r \in Reloading :
                 /\ left' = [left EXCEPT ![o] = @ \ {n}]
                 /\ r.of = n /\ Fresh(r) /\ reads' = Append(Tail(reads), r)
      BY <2>1, <2>3, ContinuesIs
    <3>2. CASE UNCHANGED left /\ reads' = Tail(reads)
      BY <1>0, <1>1, <2>1, <3>2, TailMoves
    <3>3. ASSUME NEW n \in left[o], NEW r \in Reloading, left' = [left EXCEPT ![o] = @ \ {n}],
                 r.of = n, Fresh(r), reads' = Append(Tail(reads), r)
          PROVE  Awaited
      <4>1. Moves(1) /\ Len(reads') \in Queued' /\ reads'[Len(reads')] = r
        BY <1>0, <2>1, <3>3, TailAppendMoves
      <4>2. CASE b = n
        <5>1. r.version = version
          BY <2>1, <3>3 DEF Fresh
        <5>2. r.version >= own'
          BY <1>0, <2>1, <5>1
        <5> QED
          BY <3>3, <4>1, <4>2, <5>2
      <4>3. CASE b # n
        <5>1. \A x \in Writers : b \in left[x] => b \in left'[x]
          BY <1>0, <3>3, <4>3
        <5>2. \/ snap'[b].version >= own'
              \/ \E i \in Queued' : reads'[i].of = b /\ reads'[i].version >= own'
              \/ \E x \in Writers : b \in left[x]
          BY <1>0, <2>1, <4>1, StillAwaited
        <5> QED
          BY <5>1, <5>2
      <4> QED
        BY <4>2, <4>3
    <3> QED
      BY <3>1, <3>2, <3>3
  <2> QED
    BY <2>2, <2>3
<1>4. CASE ReloadFails
  BY <1>4 DEF ReloadFails
<1>5. ASSUME NEW o \in Ops, Saved(o) \/ Deleted(o) PROVE Awaited
  <2>1. Accepted(o) /\ rows' \subseteq Ids /\ version' \in 1 .. MaxVersion
    BY <1>5, ConstantsOK DEF Saved, Deleted, TypeOK, Ids
  <2>2. PICK first \in Each, r \in Reloading :
          /\ left' = [left EXCEPT ![o] = Each \ {first}] /\ reads' = Append(reads, r)
          /\ r.of = first /\ r.version = version'
    BY <2>1, AcceptedIs
  <2>3. own' = version' /\ version' \in Nat
    BY <2>1, AcceptedIs, ConstantsOK
  <2>4. CASE b = first
    <3>1. Len(reads) + 1 \in Queued' /\ reads'[Len(reads) + 1] = r
      BY <1>0, <2>2, AppendIs DEF Queued
    <3> QED
      BY <2>2, <2>3, <2>4, <3>1
  <2>5. CASE b # first
    BY <1>0, <2>2, <2>5
  <2> QED
    BY <2>4, <2>5
<1>6. ASSUME NEW x \in Each, Notice(x) PROVE Awaited
  <2>1. Asked(x, "tick") \in Reloading /\ Asked(x, "tick").of = x
        /\ Asked(x, "tick").version = version
        /\ Asked(x, "tick").rows = Scan(rows, x.reverse, None)
        /\ Cardinality(Asked(x, "tick").rows) <= PAGE
    BY TypeFacts, AskedType
  <2>2. Fresh(Asked(x, "tick"))
    BY <1>6, <2>1 DEF Fresh, Notice
  <2> QED
    BY <1>0, <1>1, <1>6, <2>1, <2>2, AppendMoves DEF Notice
<1>7. ASSUME NEW x \in Each, ShowMore(x) PROVE Awaited
  BY <1>2, <1>7 DEF ShowMore
<1>8. ASSUME NEW o \in Ops, Save(o) \/ Refused(o) \/ \E r \in Ids : Delete(o, r) PROVE Awaited
  BY <1>2, <1>8 DEF Save, Refused, Delete
<1>9. ASSUME NEW r \in Ids \cup {None}, SetEditing(r) PROVE Awaited
  BY <1>2, <1>9 DEF SetEditing
<1>10. ASSUME NEW s \in scans, ScanRead(s) \/ ScanAnswered(s) PROVE Awaited
  BY <1>2, <1>10 DEF ScanRead, ScanAnswered
<1>11. CASE OthersWrite \/ Disowned \/ UNCHANGED vars
  BY <1>2, <1>11 DEF OthersWrite, Disowned, vars
<1> QED
  BY <1>3, <1>4, <1>5, <1>6, <1>7, <1>8, <1>9, <1>10, <1>11 DEF Next

(***************************************************************************)
(* Rows read past a page.                                                  *)
(***************************************************************************)

\* The page of a binding, read of the domain as it is, is its first records.
LEMMA APageIsAPrefix ==
  ASSUME rows \subseteq Ids, NEW reverse \in BOOLEAN
  PROVE  Prefix(Scan(rows, reverse, None), reverse)
<1>1. IsFiniteSet(rows) /\ rows \subseteq Nat /\ Past(rows, reverse, None) = rows
  BY SetsOfIds DEF Past
<1>2. Scan(rows, reverse, None) = FirstPage(rows, reverse)
  BY <1>1, ScanIsTheFirstPage
<1>3. FirstPage(rows, reverse) \subseteq rows
  BY DEF FirstPage
<1>4. \A i \in FirstPage(rows, reverse), j \in rows :
        Before(reverse, j, i) => j \in FirstPage(rows, reverse)
  BY <1>1, PageIsFirst
<1> QED
  BY <1>2, <1>3, <1>4 DEF Prefix

\* The next page, read from the last record of a first part, makes a longer first part,
\* and if it came back short, all there is.
LEMMA ThePageAfter ==
  ASSUME rows \subseteq Ids, NEW reverse \in BOOLEAN, NEW P, Prefix(P, reverse),
         NEW after \in P, \A j \in P : j # after => Before(reverse, j, after),
         NEW got, got = Scan(rows, reverse, after)
  PROVE  /\ Prefix(P \cup got, reverse)
         /\ Cardinality(got) < PAGE => rows \subseteq P \cup got
<1> DEFINE T == Past(rows, reverse, after)
<1>1. after \in rows /\ after # None /\ rows \subseteq Nat
  BY ConstantsOK, SetsOfIds DEF Prefix
<1>2. T = {i \in rows : Before(reverse, after, i)}
  BY <1>1 DEF Past
<1>3. got = FirstPage(T, reverse) /\ got \subseteq T
  BY ScanIsTheFirstPage DEF FirstPage
<1>4. IsFiniteSet(T) /\ T \subseteq Nat
  <2>1. T \in SUBSET Ids
    BY <1>2
  <2> QED
    BY <2>1, SetsOfIds
<1> HIDE DEF T
<1>5. ASSUME NEW j \in rows PROVE j \in P \/ j \in T
  BY <1>1, <1>2, BeforeIsAnOrder DEF Prefix
<1>6. ASSUME NEW i \in got, NEW j \in rows, Before(reverse, j, i) PROVE j \in P \cup got
  BY <1>3, <1>4, <1>5, <1>6, PageIsFirst
<1>7. Prefix(P \cup got, reverse)
  BY <1>2, <1>3, <1>6 DEF Prefix
<1>8. Cardinality(got) < PAGE => got = T
  BY <1>3, <1>4, ShortIsAll
<1> QED
  BY <1>5, <1>7, <1>8

\* The last row painted is the last of the page and of what was read past it.
LEMMA ShowMoreGoesOn ==
  ASSUME TypeOK, Painted, ReadsHold, OnCanvas, NEW b \in Each, shown[b].extent = "more",
         Stands(b, beyond[b]), snap[b].version = version, ~beyond[b].stitched
  PROVE  LET past == beyond[b].rows \ snap[b].rows
             after == Last(IF past # {} THEN past ELSE shown[b].rows, b.reverse)
         IN  /\ after \in snap[b].rows \cup beyond[b].rows
             /\ \A j \in snap[b].rows \cup beyond[b].rows : j # after => Before(b.reverse, j, after)
<1> DEFINE page == snap[b].rows
           past == beyond[b].rows \ page
           after == Last(IF past # {} THEN past ELSE shown[b].rows, b.reverse)
<1>1. /\ shown[b].rows = page \cup beyond[b].rows
      /\ page # {} /\ page \subseteq Ids /\ beyond[b].rows \subseteq Ids
      /\ b.reverse \in BOOLEAN
      /\ Prefix(page \cup beyond[b].rows, b.reverse)
  BY MoreHasALast, EachType DEF Stands
<1>2. page = FirstPage(rows, b.reverse) /\ IsFiniteSet(rows) /\ rows \subseteq Nat
  <2>1. IsFiniteSet(rows) /\ rows \subseteq Nat /\ Past(rows, b.reverse, None) = rows
    BY TypeFacts, SetsOfIds DEF Past
  <2> QED
    BY <2>1, ScanIsTheFirstPage DEF ReadsHold
<1>3. ASSUME NEW S \in SUBSET Ids, S # {}
      PROVE  Last(S, b.reverse) \in S /\ \A j \in S \ {Last(S, b.reverse)} : Before(b.reverse, j, Last(S, b.reverse))
  BY <1>3, SetsOfIds, EachType, LastIs
<1>4. CASE past = {}
  BY <1>1, <1>3, <1>4
<1>5. CASE past # {}
  <2>1. after \in past /\ \A j \in past \ {after} : Before(b.reverse, j, after)
    BY <1>1, <1>3, <1>5
  <2> HIDE DEF after
  <2>2. ASSUME NEW j \in page PROVE Before(b.reverse, j, after)
    <3>1. j \in rows /\ after \in rows /\ after \notin page /\ j \in Nat /\ after \in Nat
      BY <1>1, <1>2, <2>1 DEF Prefix
    <3>2. ~Before(b.reverse, after, j)
      BY <1>1, <1>2, <3>1, PageIsFirst
    <3> QED
      BY <1>1, <3>1, <3>2, BeforeIsAnOrder
  <2>3. \A j \in page \cup beyond[b].rows : j # after => Before(b.reverse, j, after)
    BY <2>1, <2>2
  <2> QED
    BY <2>1, <2>3 DEF after
<1> QED
  BY <1>4, <1>5

LEMMA NextPagesFollow ==
  TypeOK /\ TypeOK' /\ Painted /\ InOrder /\ ReadsHold /\ PagesFollow /\ [Next]_vars => PagesFollow'
<1> SUFFICES ASSUME TypeOK, TypeOK', Painted, InOrder, ReadsHold, PagesFollow, [Next]_vars, alive'
             PROVE  (\A b \in Each : Stands(b, beyond[b])') /\ (\A s \in scans' : Follows(s)')
  BY DEF PagesFollow
<1> DEFINE Goal == (\A b \in Each : Stands(b, beyond[b])') /\ (\A s \in scans' : Follows(s)')
<1> USE DEF domainVars, readVars, opVars, paintVars
<1>0. /\ rows \subseteq Ids /\ version \in Nat /\ version' \in Nat
      /\ snap \in [Each -> Read] /\ beyond \in [Each -> More]
      /\ scans \subseteq Scanning
      /\ \A b \in Each : snap[b].version \in Nat /\ snap[b].version <= version
  BY TypeFacts, ConstantsOK DEF TypeOK, InOrder
<1>1. ASSUME alive, UNCHANGED <<snap, beyond, scans>>,
             UNCHANGED <<rows, version>> \/ version' = version + 1
      PROVE  Goal
  <2>1. (\A b \in Each : Stands(b, beyond[b])) /\ (\A s \in scans : Follows(s))
    BY <1>1 DEF PagesFollow
  <2>2. CASE UNCHANGED <<rows, version>>
    BY <1>1, <2>1, <2>2 DEF Stands, Follows, GoesOn, Prefix
  <2>3. CASE version' = version + 1
    <3>1. \A b \in Each : snap'[b].version # version'
      BY <1>0, <1>1, <2>3
    <3>2. \A s \in scans : s.of \in Each
      BY <1>0 DEF Scanning
    <3> QED
      BY <1>1, <2>1, <3>1, <3>2 DEF Stands, Follows, GoesOn
  <2> QED
    BY <1>1, <2>2, <2>3
<1>2. CASE Reloaded
  <2> DEFINE r == Head(reads)
  <2>1. /\ r \in Reloading /\ r = reads[1] /\ 1 \in Queued /\ reads # <<>>
    BY <1>2, TypeFacts, TailIs DEF Reloaded, Queued
  <2>2. /\ snap' = [snap EXCEPT ![r.of] = [rows |-> r.rows, version |-> r.version]]
        /\ beyond' = [beyond EXCEPT ![r.of] = NoMore]
        /\ scans' = {IF s.of = r.of THEN [s EXCEPT !.crossed = TRUE] ELSE s : s \in scans}
        /\ alive /\ UNCHANGED <<rows, version>>
    BY <1>2 DEF Reloaded, Resets
  <2>3. r.of \in Each /\ r.of.reverse \in BOOLEAN
        /\ (r.version = version => r.rows = Scan(rows, r.of.reverse, None))
    BY <2>1, EachType DEF Reloading, ReadsHold
  <2> HIDE DEF r
  <2>4. ASSUME NEW b \in Each PROVE Stands(b, beyond[b])'
    <3>1. CASE b = r.of
      <4>1. snap'[b].rows = r.rows /\ snap'[b].version = r.version /\ beyond'[b] = NoMore
        BY <1>0, <2>2, <2>3, <3>1
      <4>2. r.version = version => Prefix(r.rows \cup {}, r.of.reverse)
        <5>1. r.rows \cup {} = r.rows
          OBVIOUS
        <5> QED
          BY <1>0, <2>3, <5>1, APageIsAPrefix
      <4> QED
        BY <2>2, <3>1, <4>1, <4>2 DEF Stands, Prefix, NoMore
    <3>2. CASE b # r.of
      <4>1. snap'[b] = snap[b] /\ beyond'[b] = beyond[b] /\ Stands(b, beyond[b])
        BY <1>0, <2>2, <3>2 DEF PagesFollow
      <4> QED
        BY <2>2, <4>1 DEF Stands, Prefix
    <3> QED
      BY <3>1, <3>2
  <2>5. ASSUME NEW t \in scans' PROVE Follows(t)'
    <3>1. PICK s \in scans : t = IF s.of = r.of THEN [s EXCEPT !.crossed = TRUE] ELSE s
      BY <2>2
    <3>2. s \in Scanning /\ Follows(s)
      BY <1>0, <2>2 DEF PagesFollow
    <3>3. CASE s.of = r.of
      <4>1. t.crossed = TRUE /\ t.more = s.more
        BY <3>1, <3>2, <3>3 DEF Scanning
      <4> QED
        BY <3>2, <4>1 DEF Follows
    <3>4. CASE s.of # r.of
      <4>1. t = s /\ s.of \in Each /\ snap'[s.of] = snap[s.of]
        BY <1>0, <2>2, <3>1, <3>2, <3>4 DEF Scanning
      <4> QED
        BY <2>2, <3>2, <4>1 DEF Follows, Stands, GoesOn, Prefix
    <3> QED
      BY <3>3, <3>4
  <2> QED
    BY <2>2, <2>4, <2>5
<1>3. ASSUME NEW b \in Each, ShowMore(b) PROVE Goal
  <2> DEFINE past == beyond[b].rows \ snap[b].rows
             after == Last(IF past # {} THEN past ELSE shown[b].rows, b.reverse)
             new == [of |-> b, more |-> beyond[b], after |-> after, got |-> None, crossed |-> FALSE]
  <2>1. /\ scans' = scans \cup {new} /\ UNCHANGED <<rows, version, snap, beyond>>
        /\ OnCanvas /\ shown[b].extent = "more" /\ alive
    BY <1>3 DEF ShowMore, OnCanvas
  <2>2. (\A x \in Each : Stands(x, beyond[x])) /\ (\A s \in scans : Follows(s))
    BY <2>1 DEF PagesFollow
  <2>3. snap[b].version = version /\ ~beyond[b].stitched =>
          /\ after \in snap[b].rows \cup beyond[b].rows
          /\ \A j \in snap[b].rows \cup beyond[b].rows : j # after => Before(b.reverse, j, after)
    BY <2>1, <2>2, ShowMoreGoesOn
  <2>4. ~beyond[b].ended
    BY <2>1, MoreHasALast
  <2> HIDE DEF after
  <2>5. new.of = b /\ new.more = beyond[b] /\ new.after = after /\ new.got = None
    OBVIOUS
  <2> HIDE DEF new
  <2>6. Follows(new)
    BY <2>2, <2>3, <2>4, <2>5 DEF Follows, GoesOn
  <2> QED
    BY <2>1, <2>2, <2>6 DEF Stands, Follows, GoesOn, Prefix
<1>4. ASSUME NEW s \in scans, ScanRead(s) PROVE Goal
  <2> DEFINE got == Scan(rows, s.of.reverse, s.after)
             new == [s EXCEPT !.got = got]
  <2>1. scans' = (scans \ {s}) \cup {new} /\ UNCHANGED <<rows, version, snap, beyond>> /\ alive
    BY <1>4 DEF ScanRead
  <2>2. (\A x \in Each : Stands(x, beyond[x])) /\ (\A x \in scans : Follows(x))
    BY <2>1 DEF PagesFollow
  <2> HIDE DEF got
  <2>3. /\ new.of = s.of /\ new.more = s.more /\ new.after = s.after /\ new.got = got
        /\ new.crossed = s.crossed
    BY <1>0 DEF Scanning
  <2> HIDE DEF new
  <2>4. Follows(new)
    BY <2>2, <2>3 DEF Follows, GoesOn, got
  <2> QED
    BY <2>1, <2>2, <2>4 DEF Stands, Follows, GoesOn, Prefix
<1>5. ASSUME NEW s \in scans, ScanAnswered(s) PROVE Goal
  <2>1. scans' = scans \ {s} /\ UNCHANGED <<rows, version, snap>> /\ alive
    BY <1>5 DEF ScanAnswered
  <2>2. (\A x \in Each : Stands(x, beyond[x])) /\ (\A x \in scans : Follows(x)) /\ s \in Scanning
    BY <1>0, <2>1 DEF PagesFollow
  <2>3. s.of \in Each /\ s.of.reverse \in BOOLEAN /\ ~s.more.ended
    BY <2>2, EachType DEF Scanning, Follows
  <2>4. PICK more : /\ beyond' = [beyond EXCEPT ![s.of] = more]
                    /\ more.stitched \/ (~s.crossed /\ ~s.more.stitched)
                    /\ \/ s.got # None /\ more.rows = s.more.rows \cup s.got
                          /\ more.ended = (Cardinality(s.got) < PAGE)
                       \/ more.rows = s.more.rows /\ ~more.ended
    <3>1. CASE s.got # None /\ beyond' = [beyond EXCEPT ![s.of] =
             [rows |-> s.more.rows \cup s.got, ended |-> Cardinality(s.got) < PAGE,
              stitched |-> s.crossed \/ s.more.stitched]]
      <4> DEFINE more == [rows |-> s.more.rows \cup s.got, ended |-> Cardinality(s.got) < PAGE,
                          stitched |-> s.crossed \/ s.more.stitched]
      <4>1. /\ more.rows = s.more.rows \cup s.got /\ more.ended = (Cardinality(s.got) < PAGE)
            /\ more.stitched \/ (~s.crossed /\ ~s.more.stitched)
        OBVIOUS
      <4> HIDE DEF more
      <4> QED
        BY <3>1, <4>1 DEF more
    <3>2. CASE beyond' = [beyond EXCEPT ![s.of] = [s.more EXCEPT !.stitched = @ \/ s.crossed]]
      <4> DEFINE more == [s.more EXCEPT !.stitched = @ \/ s.crossed]
      <4>1. more.rows = s.more.rows /\ more.ended = s.more.ended
            /\ (more.stitched \/ (~s.crossed /\ ~s.more.stitched))
        BY <2>2 DEF Scanning, More
      <4> QED
        BY <2>3, <3>2, <4>1
    <3> QED
      BY <1>5, <3>1, <3>2 DEF ScanAnswered
  <2>5. Stands(s.of, more)
    <3> SUFFICES ASSUME snap[s.of].version = version, ~more.stitched
                 PROVE  /\ Prefix(snap[s.of].rows \cup more.rows, s.of.reverse)
                        /\ more.ended => rows \subseteq snap[s.of].rows \cup more.rows
      BY DEF Stands
    <3> DEFINE P == snap[s.of].rows \cup s.more.rows
    <3>1. ~s.crossed /\ ~s.more.stitched
      BY <2>4
    <3>2. /\ Prefix(P, s.of.reverse) /\ s.after \in P
          /\ \A j \in P : j # s.after => Before(s.of.reverse, j, s.after)
          /\ s.got # None => s.got = Scan(rows, s.of.reverse, s.after)
      BY <2>2, <3>1 DEF Follows, Stands, GoesOn
    <3>3. CASE s.got # None /\ more.rows = s.more.rows \cup s.got
                 /\ more.ended = (Cardinality(s.got) < PAGE)
      <4>1. snap[s.of].rows \cup more.rows = P \cup s.got
        BY <3>3
      <4> HIDE DEF P
      <4>2. Prefix(P \cup s.got, s.of.reverse) /\ (Cardinality(s.got) < PAGE => rows \subseteq P \cup s.got)
        BY <1>0, <2>3, <3>2, <3>3, ThePageAfter
      <4> QED
        BY <3>3, <4>1, <4>2
    <3>4. CASE more.rows = s.more.rows /\ ~more.ended
      BY <3>2, <3>4
    <3> QED
      BY <2>4, <3>3, <3>4
  <2>6. ASSUME NEW b \in Each PROVE Stands(b, beyond[b])'
    <3>1. Stands(b, beyond'[b])
      BY <1>0, <2>2, <2>3, <2>4, <2>5
    <3> QED
      BY <2>1, <3>1 DEF Stands, Prefix
  <2> QED
    BY <2>1, <2>2, <2>6 DEF Stands, Follows, GoesOn, Prefix
<1>6. CASE OthersWrite \/ ReloadFails \/ Disowned \/ UNCHANGED vars
  BY <1>1, <1>6 DEF OthersWrite, Changes, ReloadFails, Disowned, vars
<1>7. ASSUME NEW b \in Each, Notice(b) PROVE Goal
  BY <1>1, <1>7 DEF Notice
<1>8. ASSUME NEW o \in Ops, Save(o) \/ Refused(o) \/ \E r \in Ids : Delete(o, r) PROVE Goal
  BY <1>1, <1>8 DEF Save, Refused, Delete
<1>9. ASSUME NEW o \in Ops, Saved(o) \/ Deleted(o) PROVE Goal
  BY <1>1, <1>9 DEF Saved, Deleted, Accepted, Changes
<1>10. ASSUME NEW r \in Ids \cup {None}, SetEditing(r) PROVE Goal
  BY <1>1, <1>10 DEF SetEditing
<1> QED
  BY <1>2, <1>3, <1>4, <1>5, <1>6, <1>7, <1>8, <1>9, <1>10 DEF Next

(***************************************************************************)
(* The theorems.                                                           *)
(***************************************************************************)

LEMMA InitIInv == Init => IInv
<1> SUFFICES ASSUME Init PROVE IInv
  OBVIOUS
<1>0. TypeOK /\ None \in Writers
  BY InitTypeOK DEF Writers
<1>1. PICK first \in Each : /\ left = [o \in Writers |-> IF o = None THEN Each \ {first} ELSE {}]
                            /\ reads = <<Asked(first, None)>>
  BY DEF Init
<1>2. /\ version = 1 /\ own = 0 /\ alive = TRUE /\ canvas = "blank" /\ scans = {}
      /\ \A b \in Each : /\ snap[b] = [rows |-> {}, version |-> 0] /\ beyond[b] = NoMore
                         /\ shown[b] = [rows |-> {}, extent |-> "all"]
  BY DEF Init
<1>3. /\ Asked(first, None).of = first /\ Asked(first, None).version = version
      /\ Asked(first, None).rows = Scan(rows, first.reverse, None)
      /\ Cardinality(Asked(first, None).rows) <= PAGE
  BY <1>0, TypeFacts, AskedType
<1>4. Queued = {1} /\ reads[1] = Asked(first, None)
  BY <1>1 DEF Queued
<1>5. Painted
  <2>1. PageView({}, NoMore) = [rows |-> {}, extent |-> "all"]
    <3>1. Cardinality({}) < PAGE
      BY FS_EmptySet, ConstantsOK
    <3>2. Extent({}, NoMore) = "all" /\ NoMore.rows = {}
      BY <3>1 DEF Extent, NoMore
    <3> QED
      BY <3>2 DEF PageView
  <2> QED
    BY <1>2, <2>1 DEF Painted, ViewOf
<1>6. InOrder
  BY <1>2, <1>3, <1>4 DEF InOrder
<1>7. ReadsHold
  BY <1>2, <1>3, <1>4 DEF ReadsHold
<1>8. LeftIsReloading
  BY <1>1 DEF Init, LeftIsReloading
<1>9. OwnAwaited
  BY <1>2 DEF OwnAwaited
<1>10. PagesFollow
  BY <1>2 DEF PagesFollow, Stands
<1> QED
  BY <1>0, <1>5, <1>6, <1>7, <1>8, <1>9, <1>10 DEF IInv

LEMMA NextIInv == IInv /\ [Next]_vars => IInv'
BY NextTypeOK, NextPainted, NextInOrder, NextReadsHold, NextLeftIsReloading, NextOwnAwaited,
   NextPagesFollow DEF IInv

LEMMA AlwaysIInv == Spec => []IInv
BY InitIInv, NextIInv, PTL DEF Spec

\* A mount's pages, its rows past them, its reads and its writes are always of their kind
\* (runtime.js, runtime-logic.js).
THEOREM TypeCorrect == Spec => []TypeOK
<1>1. IInv => TypeOK
  BY DEF IInv
<1> QED
  BY <1>1, AlwaysIInv, PTL

\* A footer that says all is shown, over a page of the domain as it is, is right, for pages
\* of any size: a read that came back short reached the end, and rows read past a page are
\* read from its last row on (`pageView`, `showMore`).
THEOREM AllIsAll == Spec => []AllShownIsAll
<1>1. IInv => AllShownIsAll
  <2> SUFFICES ASSUME IInv, NEW b \in Each, canvas = "ours", shown[b].extent = "all",
                      snap[b].version = version, ~beyond[b].stitched
               PROVE  rows \subseteq shown[b].rows
    BY DEF AllShownIsAll
  <2>1. /\ shown[b].rows = snap[b].rows \cup beyond[b].rows
        /\ Cardinality(snap[b].rows) < PAGE \/ beyond[b].ended
        /\ Stands(b, beyond[b]) /\ snap[b].rows = Scan(rows, b.reverse, None)
    <3>1. alive /\ shown[b] = PageView(snap[b].rows, beyond[b])
      BY DEF IInv, Painted, ViewOf
    <3>2. /\ shown[b].rows = snap[b].rows \cup beyond[b].rows
          /\ Cardinality(snap[b].rows) < PAGE \/ beyond[b].ended
      BY <3>1 DEF PageView, Extent
    <3> QED
      BY <3>1, <3>2 DEF IInv, PagesFollow, ReadsHold
  <2>2. CASE Cardinality(snap[b].rows) < PAGE
    <3>1. /\ IsFiniteSet(rows) /\ rows \subseteq Nat /\ b.reverse \in BOOLEAN
          /\ Past(rows, b.reverse, None) = rows
      BY TypeFacts, SetsOfIds, EachType DEF IInv, Past
    <3>2. snap[b].rows = FirstPage(rows, b.reverse)
      BY <2>1, <3>1, ScanIsTheFirstPage
    <3> QED
      BY <2>1, <2>2, <3>1, <3>2, ShortIsAll
  <2>3. CASE beyond[b].ended
    BY <2>1, <2>3 DEF Stands
  <2> QED
    BY <2>1, <2>2, <2>3
<1> QED
  BY <1>1, AlwaysIInv, PTL

\* Once every write of the person has ended, what is painted was read after the last of
\* them, for any number of writes at once: each refresh reloads every binding, and reads
\* are answered in order (`changed`, `refresh`).
THEOREM OwnWritesAreSeen == Spec => []OwnWritesAreShown
<1>1. IInv => OwnWritesAreShown
  <2> SUFFICES ASSUME IInv, \A o \in Writers : stage[o] = "idle", reads = <<>>, alive, ~failed,
                      NEW b \in Each
               PROVE  snap[b].version >= own /\ shown[b] = ViewOf(b)
    BY DEF OwnWritesAreShown
  <2>1. Queued = {}
    BY DEF Queued
  <2>2. \A o \in Writers : left[o] = {}
    BY DEF IInv, LeftIsReloading
  <2> QED
    BY <2>1, <2>2 DEF IInv, OwnAwaited, Painted
<1> QED
  BY <1>1, AlwaysIInv, PTL

=============================================================================
