----------------------------- MODULE Page_proofs -----------------------------
(***************************************************************************)
(* Proofs about the page, for any projects, any number of openings of one  *)
(* and of calls of putOnNetwork under way, in every order of what arrives: *)
(* a project comes to have one stamp, the first or an accepted one, and    *)
(* what the page says of a project's publish is said of that project.      *)
(***************************************************************************)
EXTENDS Page, FiniteSetTheorems, WellFoundedInduction, TLAPS

(***************************************************************************)
(* The inductive invariant.                                                *)
(***************************************************************************)

\* Before a project is open there is no runtime, and nothing was asked of one.
NoneOpen ==
  opened.id = None =>
    /\ run = 0 /\ ~opened.published /\ asking = "no"
    /\ ~rt.loaded /\ ~rt.pending /\ rt.conn = "none" /\ rt.phase = "idle"

SomeOpen == opened.id # None => run \in 1 .. MaxRuns

\* A question that the open project's runtime asked is about that project.
AskedOfItsOwn == \A q \in questions : q.mine <= run /\ (q.mine = run => q.of = opened.id)

\* A project held as published is published in the tree.
PublishedHolds == opened.published => tree[opened.id].published

\* The canvas has no stamp before the draft is read, and then the stamp the project
\* was made with, until the person accepts another.
StampStands ==
  /\ rt.pending => rt.loaded
  /\ ~rt.loaded => canvas = "none"
  /\ rt.loaded /\ opened.id \in MadeEarlier \ accepted => canvas = "earlier"

IInv ==
  /\ TypeOK /\ NoneOpen /\ SomeOpen /\ AskedOfItsOwn /\ PublishedHolds
  /\ StampStands /\ StampedOnce

(***************************************************************************)
(* The stamp.                                                              *)
(***************************************************************************)

Runtimes ==
  [loaded : BOOLEAN, pending : BOOLEAN, conn : {"none", "opening", "failed", "unread", "open"},
   joined : BOOLEAN, phase : {"idle", "working", "recording", "published", "failed"}, error : BOOLEAN]

\* stampIfNew stamps a project that has none, once both halves and the draft are there,
\* as an edit; and never one that has a stamp.
LEMMA StampIfNewIs ==
  ASSUME NEW versions \in Stamps, NEW b, NEW r \in Runtimes,
         b.baked \in BOOLEAN, b.sdk \in BOOLEAN, StampIfNew(versions, b, r)
  PROVE  /\ canvas' \in Stamps /\ rt' \in Runtimes
         /\ rt'.loaded = r.loaded /\ rt'.conn = r.conn /\ rt'.phase = r.phase
         /\ versions # "none" \/ ~r.loaded => canvas' = versions /\ rt' = r
         /\ b.baked /\ b.sdk /\ r.loaded => canvas' # "none"
         /\ rt'.pending => r.pending \/ r.loaded
<1>1. CASE MayStamp(versions, b.baked, b.sdk, r.loaded)
  <2>1. canvas' = "now" /\ rt' = [r EXCEPT !.pending = TRUE]
    BY <1>1 DEF StampIfNew, MayStamp, StampOf
  <2>2. versions = "none" /\ r.loaded
    BY <1>1 DEF MayStamp
  <2> QED
    BY <2>1, <2>2 DEF Stamps, Runtimes
<1>2. CASE ~MayStamp(versions, b.baked, b.sdk, r.loaded)
  <2>1. canvas' = versions /\ rt' = r
    BY <1>2 DEF StampIfNew
  <2> QED
    BY <1>2, <2>1 DEF MayStamp
<1> QED
  BY <1>1, <1>2

Boots == [baked : BOOLEAN, sdk : BOOLEAN, list : {"none", "open", "lost"},
          start : {"load", "list", "reading", "done", "failed"}]

\* Opening a project, whoever does: nothing of the one before is kept, and one that
\* is not made there and then has its draft still to be read.
LEMMA OpeningIsFresh ==
  ASSUME IInv, NEW p \in Projects, NEW fresh \in BOOLEAN, fresh => p \notin Existing,
         OpenInPage(p, fresh),
         boot' \in Boots, boot'.baked = boot.baked, boot'.sdk = boot.sdk,
         creating' \in BOOLEAN, imported' \in BOOLEAN
  PROVE  IInv'
<1> USE ConstantsOK
<1>0. run \in 0 .. MaxRuns /\ run' \in 1 .. MaxRuns /\ run' = run + 1
  BY DEF IInv, TypeOK, OpenInPage
<1>1. Runtime(fresh) \in Runtimes /\ Runtime(fresh).loaded = fresh
      /\ Runtime(fresh).pending = fresh
  BY DEF IInv, TypeOK, Runtime, Runtimes
<1>2. "none" \in Stamps /\ boot.baked \in BOOLEAN /\ boot.sdk \in BOOLEAN
  BY DEF IInv, TypeOK, Stamps
<1>3. /\ canvas' \in Stamps /\ rt' \in Runtimes
      /\ rt'.loaded = fresh
      /\ ~fresh => canvas' = "none" /\ rt' = Runtime(fresh)
      /\ boot.baked /\ boot.sdk /\ fresh => canvas' # "none"
  BY <1>1, <1>2, StampIfNewIs DEF OpenInPage
<1>4. opened' = [id |-> p, published |-> FALSE, publication |-> None]
      /\ UNCHANGED <<questions, puts, republishing, republishError, tree, accepted>>
      /\ lastOpened' = p /\ changed' = FALSE /\ appAddress' = None
      /\ asking' = IF asking = "no" THEN "no" ELSE "stale"
  BY DEF OpenInPage
<1>5. TypeOK'
  <2>1. opened' \in [id : Projects \cup {None}, published : BOOLEAN, publication : Projects \cup {None}]
    BY <1>4
  <2>2. asking' \in {"no", "tree", "held", "stale"}
    BY <1>4
  <2>3. rt' \in [loaded : BOOLEAN, pending : BOOLEAN, conn : {"none", "opening", "failed", "unread", "open"},
             joined : BOOLEAN, phase : {"idle", "working", "recording", "published", "failed"}, error : BOOLEAN]
    BY <1>3 DEF Runtimes
  <2>4. changed' \in BOOLEAN /\ republishing' \in BOOLEAN /\ republishError' \in BOOLEAN
    BY <1>4 DEF IInv, TypeOK
  <2>5. /\ questions' \subseteq [mine : 1 .. MaxRuns, of : Projects]
        /\ puts' \subseteq [mine : 1 .. MaxRuns, app : Projects, again : BOOLEAN]
        /\ tree' \in [Projects -> [draft : BOOLEAN, made : Stamps, published : BOOLEAN, differs : BOOLEAN]]
        /\ accepted' \subseteq Projects
    BY <1>4 DEF IInv, TypeOK
  <2>6. /\ boot' \in [baked : BOOLEAN, sdk : BOOLEAN, list : {"none", "open", "lost"},
                     start : {"load", "list", "reading", "done", "failed"}]
        /\ run' \in 0 .. MaxRuns
    BY <1>0 DEF Boots
  <2> QED
    BY <1>3, <1>4, <2>1, <2>2, <2>3, <2>4, <2>5, <2>6 DEF TypeOK
<1>6. opened'.id = p /\ p # None /\ ~opened'.published
  BY <1>4
<1>7. NoneOpen' /\ SomeOpen' /\ PublishedHolds'
  BY <1>0, <1>6 DEF NoneOpen, SomeOpen, PublishedHolds
<1>8. AskedOfItsOwn'
  BY <1>0, <1>4 DEF AskedOfItsOwn, IInv, TypeOK
<1>9. StampStands'
  <2>1. CASE fresh
    BY <1>3, <1>6, <2>1 DEF StampStands, Existing
  <2>2. CASE ~fresh
    BY <1>1, <1>3, <2>2 DEF StampStands
  <2> QED
    BY <2>1, <2>2
<1>10. StampedOnce'
  BY <1>3, <1>4 DEF IInv, StampedOnce, NeverRestamped, StampedWhenKnown
<1> QED
  BY <1>5, <1>7, <1>8, <1>9, <1>10 DEF IInv

LEMMA InitIInv == Init => IInv
<1> SUFFICES ASSUME Init PROVE IInv
  OBVIOUS
<1> USE ConstantsOK
<1>1. TypeOK
  <2>1. opened \in [id : Projects \cup {None}, published : BOOLEAN, publication : Projects \cup {None}]
    BY DEF Init, NoProject
  <2>2. tree \in [Projects -> [draft : BOOLEAN, made : Stamps, published : BOOLEAN, differs : BOOLEAN]]
    BY DEF Init, NotATree, Stamps
  <2>3. lastOpened \in Projects \cup {None}
    BY DEF Init, Existing
  <2>4. /\ boot \in [baked : BOOLEAN, sdk : BOOLEAN, list : {"none", "open", "lost"},
                    start : {"load", "list", "reading", "done", "failed"}]
        /\ rt \in [loaded : BOOLEAN, pending : BOOLEAN, conn : {"none", "opening", "failed", "unread", "open"},
             joined : BOOLEAN, phase : {"idle", "working", "recording", "published", "failed"}, error : BOOLEAN]
    BY DEF Init
  <2>5. /\ creating \in BOOLEAN /\ imported \in BOOLEAN
        /\ changed \in BOOLEAN /\ republishing \in BOOLEAN /\ republishError \in BOOLEAN
    BY DEF Init
  <2> QED
    BY <2>1, <2>2, <2>3, <2>4, <2>5 DEF Init, TypeOK, Stamps
<1>2. opened.id = None /\ ~opened.published
  BY DEF Init, NoProject
<1>3. NoneOpen /\ SomeOpen /\ AskedOfItsOwn /\ PublishedHolds /\ StampStands
  BY <1>2 DEF Init, NoneOpen, SomeOpen, AskedOfItsOwn, PublishedHolds, StampStands
<1>4. StampedOnce
  <2>1. \A p \in MadeEarlier : p \in Existing /\ p \in Projects
    BY DEF Existing
  <2> QED
    BY <2>1 DEF Init, StampedOnce, NeverRestamped, StampedWhenKnown
<1> QED
  BY <1>1, <1>2, <1>3, <1>4 DEF IInv

(***************************************************************************)
(* Every step preserves it.                                                *)
(***************************************************************************)

Openeds == [id : Projects \cup {None}, published : BOOLEAN, publication : Projects \cup {None}]
Trees == [draft : BOOLEAN, made : Stamps, published : BOOLEAN, differs : BOOLEAN]
Questions == [mine : 1 .. MaxRuns, of : Projects]
Puts == [mine : 1 .. MaxRuns, app : Projects, again : BOOLEAN]

\* The type invariant, by the parts a step changes.
BootType == boot \in Boots /\ creating \in BOOLEAN /\ imported \in BOOLEAN
OpenType ==
  /\ lastOpened \in Projects \cup {None} /\ opened \in Openeds /\ run \in 0 .. MaxRuns
  /\ appAddress \in Projects \cup {None}
RuntimeType == rt \in Runtimes /\ canvas \in Stamps
AskedType == questions \subseteq Questions /\ puts \subseteq Puts
ButtonType ==
  /\ changed \in BOOLEAN /\ republishing \in BOOLEAN /\ republishError \in BOOLEAN
  /\ asking \in {"no", "tree", "held", "stale"}
TreeType == tree \in [Projects -> Trees] /\ accepted \subseteq Projects

TypeParts == BootType /\ OpenType /\ RuntimeType /\ AskedType /\ ButtonType /\ TreeType

LEMMA TypeOKIsItsParts == (TypeOK <=> TypeParts) /\ (TypeOK' <=> TypeParts')
BY DEF TypeOK, TypeParts, BootType, OpenType, RuntimeType, AskedType, ButtonType, TreeType,
       Boots, Openeds, Runtimes, Questions, Puts, Trees

\* A list that is not empty has a newest project: the one from which the fewest are on.
LEMMA NewestExists ==
  ASSUME NEW ps \in SUBSET Projects, ps # {}
  PROVE  \E p \in ps : \A q \in ps : q <= p
<1> DEFINE From(p) == {q \in ps : p <= q}
           Froms == {From(p) : p \in ps}
<1>1. IsFiniteSet(ps) /\ ps \subseteq Nat
  BY ConstantsOK, FS_Subset
<1>2. Froms \subseteq FiniteSubsetsOf(ps)
  <2>1. Froms \subseteq SUBSET ps
    OBVIOUS
  <2> HIDE DEF Froms
  <2> QED
    BY <1>1, <2>1, FS_FiniteSubsetsOfFinite
<1>3. PICK least \in Froms : \A s \in Froms : <<s, least>> \notin StrictSubsetOrdering(ps)
  <2>1. Froms # {}
    OBVIOUS
  <2> HIDE DEF Froms
  <2> QED
    BY <1>2, <2>1, FS_StrictSubsetOrderingWellFounded, WFMin
<1>4. PICK p \in ps : least = From(p)
  BY <1>3
<1>5. ASSUME NEW q \in ps, ~(q <= p) PROVE FALSE
  <2>1. p \in Nat /\ q \in Nat /\ p < q
    BY <1>1, <1>5
  <2>2. p \in From(p) /\ p \notin From(q)
    BY <2>1
  <2>3. ASSUME NEW r \in From(q) PROVE r \in From(p)
    BY <1>1, <2>1
  <2>4. <<From(q), From(p)>> \in StrictSubsetOrdering(ps)
    BY <2>2, <2>3 DEF StrictSubsetOrdering
  <2> QED
    BY <1>3, <1>4, <2>4
<1> QED
  BY <1>5

\* Nothing but the page's own ways of opening one changes which project is open.
LEMMA LoadKeepsIInv == IInv /\ Load => IInv'
<1> SUFFICES ASSUME IInv, Load PROVE IInv'
  OBVIOUS
<1> USE ConstantsOK
<1>1. boot \in Boots /\ creating \in BOOLEAN /\ imported \in BOOLEAN
  BY DEF IInv, TypeOK, Boots
<1>2. ASSUME NEW link \in BOOLEAN, Start(link) PROVE IInv'
  <2>1. boot' \in Boots /\ boot'.baked = boot.baked /\ boot'.sdk = boot.sdk
    BY <1>1, <1>2 DEF Start, Boots
  <2>2. creating' \in BOOLEAN /\ imported' \in BOOLEAN
    BY <1>1, <1>2 DEF Start
  <2>3. CASE \E p \in NewIds : OpenInPage(p, TRUE)
    BY <2>1, <2>2, <2>3, OpeningIsFresh DEF NewIds
  <2>4. CASE lastOpened # None /\ OpenInPage(lastOpened, FALSE)
    <3>1. lastOpened \in Projects
      BY <2>4 DEF IInv, TypeOK
    <3> QED
      BY <2>1, <2>2, <2>4, <3>1, OpeningIsFresh
  <2>5. CASE UNCHANGED <<opening, rt, questions, puts, button, tree, accepted>>
    BY <2>1, <2>2, <2>5, TypeOKIsItsParts
    DEF IInv, TypeParts, BootType, OpenType, RuntimeType, AskedType, ButtonType, TreeType,
        NoneOpen, SomeOpen, AskedOfItsOwn, PublishedHolds, StampStands, StampedOnce,
        NeverRestamped, StampedWhenKnown, opening, button
  <2> QED
    BY <1>2, <2>3, <2>4, <2>5 DEF Start
<1>3. ASSUME NEW listed \in BOOLEAN, OpenNewestOrCreate(listed) PROVE IInv'
  <2>1. boot' \in Boots /\ boot'.baked = boot.baked /\ boot'.sdk = boot.sdk
    BY <1>1, <1>3 DEF OpenNewestOrCreate, Boots
  <2>2. creating' \in BOOLEAN /\ imported' \in BOOLEAN
    BY <1>1, <1>3 DEF OpenNewestOrCreate
  <2>3. CASE ListProjects # {} /\ OpenInPage(Newest(ListProjects), FALSE)
    <3>1. ListProjects \in SUBSET Projects
      BY DEF ListProjects
    <3>2. \E p \in ListProjects : \A q \in ListProjects : q <= p
      BY <2>3, <3>1, NewestExists
    <3>3. Newest(ListProjects) \in Projects
      BY <3>1, <3>2 DEF Newest
    <3> QED
      BY <2>1, <2>2, <2>3, <3>3, OpeningIsFresh
  <2>4. CASE UNCHANGED <<opening, rt, questions, puts, button, tree, accepted>>
    BY <2>1, <2>2, <2>4, TypeOKIsItsParts
    DEF IInv, TypeParts, BootType, OpenType, RuntimeType, AskedType, ButtonType, TreeType,
        NoneOpen, SomeOpen, AskedOfItsOwn, PublishedHolds, StampStands, StampedOnce,
        NeverRestamped, StampedWhenKnown, opening, button
  <2> QED
    BY <1>3, <2>3, <2>4 DEF OpenNewestOrCreate
<1> QED
  BY <1>2, <1>3 DEF Load

\* The runtime's and the person's steps leave which project is open, and what the
\* page's stamp was, alone; one that is about a runtime is about an open project.
LEMMA SmallStepsKeepIInv ==
  ASSUME IInv, UNCHANGED <<opening, questions, tree, accepted, boot>>,
         rt' \in Runtimes, rt'.loaded = rt.loaded, rt'.pending => rt.loaded,
         opened.id = None => rt' = rt /\ asking' = "no",
         creating' \in BOOLEAN, imported' \in BOOLEAN, puts' \subseteq Puts, ButtonType'
  PROVE  IInv'
<1> USE DEF opening
<1>1. TypeOK'
  BY TypeOKIsItsParts
  DEF IInv, TypeParts, BootType, OpenType, RuntimeType, AskedType, TreeType
<1>2. NoneOpen' /\ SomeOpen' /\ AskedOfItsOwn' /\ PublishedHolds'
  BY DEF IInv, NoneOpen, SomeOpen, AskedOfItsOwn, PublishedHolds
<1>3. StampStands' /\ StampedOnce'
  BY DEF IInv, StampStands, StampedOnce, NeverRestamped, StampedWhenKnown
<1> QED
  BY <1>1, <1>2, <1>3 DEF IInv

LEMMA OpensKeepIInv ==
  ASSUME IInv, NEW p \in Projects, Choose(p) \/ Created(p) PROVE IInv'
<1>1. boot \in Boots /\ creating \in BOOLEAN /\ imported \in BOOLEAN
  BY DEF IInv, TypeOK, Boots
<1>2. CASE Choose(p)
  BY <1>1, <1>2, OpeningIsFresh DEF Choose
<1>3. CASE Created(p)
  BY <1>1, <1>3, OpeningIsFresh DEF Created, NewIds
<1> QED
  BY <1>2, <1>3

LEMMA NewKeepsIInv == ASSUME IInv, New PROVE IInv'
<1>1. boot \in Boots /\ creating \in BOOLEAN /\ imported \in BOOLEAN
  BY DEF IInv, TypeOK, Boots
<1>2. CASE \E q \in NewIds : OpenInPage(q, TRUE) /\ UNCHANGED <<boot, creating, imported>>
  BY <1>1, <1>2, OpeningIsFresh DEF NewIds
<1>3. CASE creating' = TRUE /\ UNCHANGED <<boot, imported, opening, rt, questions, puts, button, tree, accepted>>
  <2>1. rt' \in Runtimes /\ puts' \subseteq Puts /\ ButtonType' /\ creating' \in BOOLEAN
    BY <1>3, TypeOKIsItsParts DEF IInv, TypeParts, RuntimeType, AskedType, ButtonType, button
  <2>2. rt'.pending => rt.loaded
    BY <1>3 DEF IInv, StampStands
  <2>3. opened.id = None => asking' = "no"
    BY <1>3 DEF IInv, NoneOpen, button
  <2> QED
    BY <1>1, <1>3, <2>1, <2>2, <2>3, SmallStepsKeepIInv
<1> QED
  BY <1>2, <1>3 DEF New

LEMMA ReloadKeepsIInv == IInv /\ Reload => IInv'
<1> SUFFICES ASSUME IInv, Reload PROVE IInv'
  OBVIOUS
<1> USE ConstantsOK
<1>1. TypeParts
  BY TypeOKIsItsParts DEF IInv
<1>2. opened' \in Openeds /\ opened'.id = None /\ ~opened'.published
  BY DEF Reload, NoProject, Openeds
<1>3. rt' \in Runtimes /\ ~rt'.loaded /\ ~rt'.pending /\ rt'.conn = "none" /\ rt'.phase = "idle"
  <2>1. Runtime(FALSE) \in Runtimes /\ ~Runtime(FALSE).loaded /\ ~Runtime(FALSE).pending
        /\ Runtime(FALSE).phase = "idle"
    BY <1>1 DEF TypeParts, BootType, Boots, Runtime, Runtimes
  <2>2. rt' = [Runtime(FALSE) EXCEPT !.conn = "none", !.joined = FALSE]
    BY DEF Reload
  <2> QED
    BY <2>1, <2>2 DEF Runtimes
<1>4. boot' \in Boots /\ ~boot'.baked
  BY DEF Reload, Boots
<1>5. TypeOK'
  <2>1. creating' \in BOOLEAN /\ imported' \in BOOLEAN /\ ButtonType'
    BY <1>1 DEF Reload, TypeParts, BootType, ButtonType
  <2>2. OpenType' /\ RuntimeType' /\ AskedType' /\ TreeType'
    BY <1>1, <1>2, <1>3
    DEF Reload, TypeParts, OpenType, RuntimeType, AskedType, TreeType, Stamps
  <2> QED
    BY <1>4, <2>1, <2>2, TypeOKIsItsParts DEF TypeParts, BootType
<1>6. NoneOpen' /\ SomeOpen' /\ AskedOfItsOwn' /\ PublishedHolds'
  BY <1>2, <1>3 DEF Reload, NoneOpen, SomeOpen, AskedOfItsOwn, PublishedHolds
<1>7. StampStands' /\ StampedOnce'
  BY <1>3, <1>4 DEF Reload, IInv, StampStands, StampedOnce, NeverRestamped, StampedWhenKnown
<1> QED
  BY <1>5, <1>6, <1>7 DEF IInv

\* What arrives stamps the open project, when it was the last thing missing.
LEMMA ArrivesKeepsIInv == IInv /\ Arrives => IInv'
<1> SUFFICES ASSUME IInv, Arrives PROVE IInv'
  OBVIOUS
<1>1. TypeParts
  BY TypeOKIsItsParts DEF IInv
<1>2. ASSUME NEW r \in Runtimes, r.loaded = rt.loaded, r.pending = rt.pending, r.phase = rt.phase,
             opened.id = None => r = rt,
             StampIfNew(canvas, boot', r),
             boot' \in Boots,
             UNCHANGED <<creating, imported, lastOpened, opened, run, appAddress, questions, puts, button, tree, accepted>>
      PROVE  IInv'
  <2>1. /\ canvas' \in Stamps /\ rt' \in Runtimes
        /\ rt'.loaded = r.loaded /\ rt'.conn = r.conn /\ rt'.phase = r.phase
        /\ canvas # "none" \/ ~r.loaded => canvas' = canvas /\ rt' = r
        /\ boot'.baked /\ boot'.sdk /\ r.loaded => canvas' # "none"
        /\ rt'.pending => r.pending \/ r.loaded
    <3>1. boot'.baked \in BOOLEAN /\ boot'.sdk \in BOOLEAN /\ canvas \in Stamps
      BY <1>1, <1>2 DEF Boots, TypeParts, RuntimeType
    <3> QED
      BY <1>2, <3>1, StampIfNewIs
  <2>2. TypeOK'
    BY <1>1, <1>2, <2>1, TypeOKIsItsParts
    DEF TypeParts, BootType, OpenType, RuntimeType, AskedType, ButtonType, TreeType, button
  <2>3. NoneOpen' /\ SomeOpen' /\ AskedOfItsOwn' /\ PublishedHolds'
    BY <1>2, <2>1 DEF IInv, NoneOpen, SomeOpen, AskedOfItsOwn, PublishedHolds, button
  <2>4. StampStands' /\ StampedOnce'
    BY <1>2, <2>1 DEF IInv, StampStands, StampedOnce, NeverRestamped, StampedWhenKnown
  <2> QED
    BY <2>2, <2>3, <2>4 DEF IInv
<1>3. CASE BakedArrives
  <2>1. boot' \in Boots /\ rt \in Runtimes
    BY <1>1, <1>3 DEF BakedArrives, TypeParts, BootType, RuntimeType, Boots
  <2> QED
    BY <1>2, <1>3, <2>1 DEF BakedArrives
<1>4. CASE SdkArrives
  <2> DEFINE r == IF opened.id = None THEN rt ELSE [rt EXCEPT !.conn = "opening", !.joined = TRUE]
  <2>1. boot' \in Boots /\ rt \in Runtimes
    BY <1>1, <1>4 DEF SdkArrives, TypeParts, BootType, RuntimeType, Boots
  <2>2. r \in Runtimes /\ r.loaded = rt.loaded /\ r.pending = rt.pending /\ r.phase = rt.phase
    BY <2>1 DEF Runtimes
  <2>3. opened.id = None => r = rt
    OBVIOUS
  <2>4. StampIfNew(canvas, boot', r)
    BY <1>4 DEF SdkArrives
  <2> HIDE DEF r
  <2> QED
    BY <1>2, <1>4, <2>1, <2>2, <2>3, <2>4 DEF SdkArrives
<1>5. CASE SdkFails \/ ListOpens \/ ListLost
  <2>1. boot' \in Boots /\ boot'.baked = boot.baked /\ boot'.sdk = boot.sdk
    BY <1>1, <1>5 DEF SdkFails, ListOpens, ListLost, WhenListOpen, TypeParts, BootType, Boots
  <2>2. UNCHANGED <<creating, imported, opening, rt, questions, puts, button, tree, accepted>>
    BY <1>5 DEF SdkFails, ListOpens, ListLost
  <2> QED
    BY <1>1, <2>1, <2>2, TypeOKIsItsParts
    DEF IInv, TypeParts, BootType, OpenType, RuntimeType, AskedType, ButtonType, TreeType,
        NoneOpen, SomeOpen, AskedOfItsOwn, PublishedHolds, StampStands, StampedOnce,
        NeverRestamped, StampedWhenKnown, opening, button
<1> QED
  BY <1>3, <1>4, <1>5 DEF Arrives

\* The draft is handed to the canvas: with the stamp of its tree, or one that is its first.
LEMMA TreeOpensKeepsIInv == IInv /\ TreeOpens => IInv'
<1> SUFFICES ASSUME IInv, TreeOpens PROVE IInv'
  OBVIOUS
<1> USE ConstantsOK
<1> DEFINE r == [rt EXCEPT !.conn = "open", !.joined = FALSE, !.loaded = TRUE]
           v == IF rt.loaded THEN canvas ELSE tree[opened.id].made
<1>1. TypeParts
  BY TypeOKIsItsParts DEF IInv
<1>2. opened.id # None /\ opened.id \in Projects /\ run \in 1 .. MaxRuns
  BY <1>1 DEF IInv, TreeOpens, NoneOpen, SomeOpen, TypeParts, OpenType, Openeds
<1>3. r \in Runtimes /\ r.loaded /\ r.pending = rt.pending /\ r.phase = rt.phase
  BY <1>1 DEF TypeParts, RuntimeType, Runtimes
<1>4. v \in Stamps
  BY <1>1, <1>2 DEF TypeParts, RuntimeType, TreeType, Trees
<1>5. /\ StampIfNew(v, boot, r)
      /\ questions' = IF rt.joined THEN questions \cup {[mine |-> run, of |-> opened.id]} ELSE questions
      /\ UNCHANGED <<boot, creating, imported, lastOpened, opened, run, appAddress, puts, button, tree, accepted>>
  BY DEF TreeOpens, StampAtDraft
<1> HIDE DEF r
<1>6. /\ canvas' \in Stamps /\ rt' \in Runtimes /\ rt'.loaded
      /\ v # "none" => canvas' = v
      /\ boot.baked /\ boot.sdk => canvas' # "none"
  <2>1. boot.baked \in BOOLEAN /\ boot.sdk \in BOOLEAN
    BY <1>1 DEF TypeParts, BootType, Boots
  <2> HIDE DEF v
  <2> QED
    BY <1>3, <1>4, <1>5, <2>1, StampIfNewIs
<1>7. TypeOK'
  <2>1. questions' \subseteq Questions
    BY <1>1, <1>2, <1>5 DEF TypeParts, AskedType, Questions
  <2> QED
    BY <1>1, <1>5, <1>6, <2>1, TypeOKIsItsParts
    DEF TypeParts, BootType, OpenType, RuntimeType, AskedType, ButtonType, TreeType, button
<1>8. NoneOpen' /\ SomeOpen' /\ PublishedHolds'
  BY <1>2, <1>5 DEF IInv, NoneOpen, SomeOpen, PublishedHolds
<1>9. AskedOfItsOwn'
  BY <1>2, <1>5 DEF IInv, AskedOfItsOwn
<1>10. StampStands'
  <2>1. opened.id \in MadeEarlier \ accepted => v = "earlier"
    BY DEF IInv, StampStands, StampedOnce, NeverRestamped
  <2> HIDE DEF v
  <2> QED
    BY <1>5, <1>6, <2>1 DEF StampStands
<1>11. StampedOnce'
  BY <1>5, <1>6 DEF IInv, StampedOnce, NeverRestamped, StampedWhenKnown
<1> QED
  BY <1>7, <1>8, <1>9, <1>10, <1>11 DEF IInv

\* refreshChanged asks of the tree only for a runtime that has its session.
LEMMA RefreshChangedIs ==
  ASSUME NEW r, ButtonType, RefreshChanged(r)
  PROVE  /\ asking' \in {"no", "tree", "held", "stale"}
         /\ r.conn = "none" => asking' = asking
BY DEF RefreshChanged, HasSession, ButtonType

LEMMA RuntimeStepsKeepIInv ==
  ASSUME IInv,
         \/ (\E conn \in {"failed", "unread"} : OpenFails(conn))
         \/ (\E person \in BOOLEAN : Retry(person)) \/ Edit
         \/ Publish \/ HandedOver \/ HandoffFails \/ PublishChanges
         \/ \E read \in BOOLEAN : ChangedAnswered(read)
  PROVE  IInv'
<1> USE ConstantsOK
<1>1. TypeParts /\ NoneOpen
  BY TypeOKIsItsParts DEF IInv
<1>2. rt \in Runtimes /\ creating \in BOOLEAN /\ imported \in BOOLEAN /\ puts \subseteq Puts
      /\ (rt.pending => rt.loaded)
  BY <1>1 DEF IInv, StampStands, TypeParts, RuntimeType, BootType, AskedType
<1>3. ButtonType /\ (opened.id = None => asking = "no")
  BY <1>1 DEF TypeParts, NoneOpen
<1>4. opened.id # None => Put(TRUE) \in Puts /\ Put(FALSE) \in Puts
  BY <1>1 DEF IInv, SomeOpen, TypeParts, OpenType, Openeds, Put, Puts
<1>5. ASSUME NEW conn \in {"failed", "unread"}, OpenFails(conn) PROVE IInv'
  <2>1. opened.id # None
    BY <1>1, <1>5 DEF OpenFails, NoneOpen
  <2>2. rt' \in Runtimes /\ rt'.loaded = rt.loaded /\ rt'.pending = rt.pending
    BY <1>2, <1>5 DEF OpenFails, Runtimes
  <2> QED
    BY <1>2, <1>3, <1>5, <2>1, <2>2, SmallStepsKeepIInv DEF OpenFails, button, ButtonType
<1>6. ASSUME NEW person \in BOOLEAN, Retry(person) PROVE IInv'
  <2>1. opened.id # None
    BY <1>1, <1>6 DEF Retry, NoneOpen
  <2>2. rt' \in Runtimes /\ rt'.loaded = rt.loaded /\ rt'.pending = rt.pending
    BY <1>2, <1>6 DEF Retry, Runtimes
  <2> QED
    BY <1>2, <1>3, <1>6, <2>1, <2>2, SmallStepsKeepIInv DEF Retry, button, ButtonType
<1>7. CASE Edit
  <2>1. opened.id # None
    BY <1>7 DEF Edit
  <2>2. rt' \in Runtimes /\ rt'.loaded = rt.loaded /\ rt.loaded
    BY <1>2, <1>7 DEF Edit, Runtimes
  <2>3. ButtonType'
    BY <1>3, <1>7, RefreshChangedIs DEF Edit, ButtonType
  <2> QED
    BY <1>2, <1>7, <2>1, <2>2, <2>3, SmallStepsKeepIInv DEF Edit
<1>8. CASE Publish
  <2>1. opened.id # None
    BY <1>8 DEF Publish
  <2>2. rt' \in Runtimes /\ rt'.loaded = rt.loaded /\ rt'.pending = rt.pending
    BY <1>2, <1>8 DEF Publish, Runtimes
  <2> QED
    BY <1>2, <1>3, <1>8, <2>1, <2>2, SmallStepsKeepIInv DEF Publish, button, ButtonType
<1>9. CASE HandedOver \/ HandoffFails
  <2>1. opened.id # None
    BY <1>1, <1>9 DEF HandedOver, HandoffFails, HasSession, NoneOpen
  <2>2. rt' \in Runtimes /\ rt'.loaded = rt.loaded /\ rt'.pending = rt.pending
    BY <1>2, <1>9 DEF HandedOver, HandoffFails, Runtimes
  <2>3. puts' \subseteq Puts
    BY <1>2, <1>4, <1>9, <2>1 DEF HandedOver, HandoffFails
  <2> QED
    BY <1>2, <1>3, <1>9, <2>1, <2>2, <2>3, SmallStepsKeepIInv
    DEF HandedOver, HandoffFails, button, ButtonType
<1>10. CASE PublishChanges
  <2>1. opened.id # None
    BY <1>1, <1>10 DEF PublishChanges, NoneOpen
  <2>2. puts' \subseteq Puts
    BY <1>2, <1>4, <1>10, <2>1 DEF PublishChanges
  <2>3. ButtonType'
    BY <1>3, <1>10 DEF PublishChanges, ButtonType
  <2> QED
    BY <1>2, <1>10, <2>1, <2>2, <2>3, SmallStepsKeepIInv DEF PublishChanges
<1>11. ASSUME NEW read \in BOOLEAN, ChangedAnswered(read) PROVE IInv'
  <2>1. opened.id # None
    BY <1>3, <1>11 DEF ChangedAnswered
  <2>2. changed' \in BOOLEAN
    <3>1. (asking = "held" \/ tree[opened.id].differs) \in BOOLEAN
      OBVIOUS
    <3> QED
      BY <1>3, <1>11, <3>1 DEF ChangedAnswered, ButtonType
  <2>3. ButtonType'
    BY <1>3, <1>11, <2>2 DEF ChangedAnswered, ButtonType
  <2> QED
    BY <1>2, <1>11, <2>1, <2>3, SmallStepsKeepIInv DEF ChangedAnswered
<1> QED
  BY <1>5, <1>6, <1>7, <1>8, <1>9, <1>10, <1>11

\* What is asked again is asked by the open project's runtime, of that project.
LEMMA RetryUnreadKeepsIInv == IInv /\ RetryUnread => IInv'
<1> SUFFICES ASSUME IInv, RetryUnread PROVE IInv'
  OBVIOUS
<1>1. TypeParts
  BY TypeOKIsItsParts DEF IInv
<1>2. opened.id \in Projects /\ run \in 1 .. MaxRuns
  BY <1>1 DEF IInv, RetryUnread, NoneOpen, SomeOpen, TypeParts, OpenType, Openeds
<1>3. questions' = questions \cup {[mine |-> run, of |-> opened.id]}
      /\ UNCHANGED <<boot, creating, imported, opening, rt, puts, button, tree, accepted>>
  BY DEF RetryUnread
<1>4. questions' \subseteq Questions
  BY <1>1, <1>2, <1>3 DEF TypeParts, AskedType, Questions
<1>5. TypeOK'
  BY <1>1, <1>3, <1>4, TypeOKIsItsParts
  DEF TypeParts, BootType, OpenType, RuntimeType, AskedType, ButtonType, TreeType, opening, button
<1>6. AskedOfItsOwn'
  BY <1>2, <1>3 DEF IInv, AskedOfItsOwn, opening
<1> QED
  BY <1>3, <1>5, <1>6
  DEF IInv, NoneOpen, SomeOpen, PublishedHolds, StampStands, StampedOnce,
      NeverRestamped, StampedWhenKnown, opening, button

\* An answer is of the project it is recorded for: one that is not is dropped.
LEMMA AnsweredKeepsIInv ==
  ASSUME IInv, NEW q \in questions, NEW read \in BOOLEAN, Answered(q, read) PROVE IInv'
<1> USE ConstantsOK
<1>1. TypeParts
  BY TypeOKIsItsParts DEF IInv
<1>2. UNCHANGED <<boot, creating, imported, lastOpened, run, canvas, appAddress, puts, button, tree, accepted>>
      /\ questions' = questions \ {q}
  BY DEF Answered
<1>3. CASE UNCHANGED <<opened, rt>>
  <2>1. TypeOK'
    BY <1>1, <1>2, <1>3, TypeOKIsItsParts
    DEF TypeParts, BootType, OpenType, RuntimeType, AskedType, ButtonType, TreeType, button
  <2> QED
    BY <1>2, <1>3, <2>1
    DEF IInv, NoneOpen, SomeOpen, AskedOfItsOwn, PublishedHolds, StampStands, StampedOnce,
        NeverRestamped, StampedWhenKnown, button
<1>4. CASE /\ MayAnswer(q.mine) /\ tree[q.of].published
           /\ opened' = [opened EXCEPT !.published = TRUE]
           /\ rt' = [rt EXCEPT !.phase = IF @ = "idle" THEN "working" ELSE @]
  <2>1. q.mine \in 1 .. MaxRuns /\ q.mine = run /\ q.of = opened.id
    BY <1>1, <1>4 DEF MayAnswer, IInv, AskedOfItsOwn, TypeParts, AskedType, Questions
  <2>2. opened.id # None
    BY <1>1, <2>1 DEF IInv, NoneOpen
  <2>3. opened' \in Openeds /\ opened'.id = opened.id
    BY <1>1, <1>4 DEF TypeParts, OpenType, Openeds
  <2>4. rt' \in Runtimes /\ rt'.loaded = rt.loaded /\ rt'.pending = rt.pending
    BY <1>1, <1>4 DEF TypeParts, RuntimeType, Runtimes
  <2>5. TypeOK'
    BY <1>1, <1>2, <2>3, <2>4, TypeOKIsItsParts
    DEF TypeParts, BootType, OpenType, RuntimeType, AskedType, ButtonType, TreeType, button
  <2>6. NoneOpen' /\ SomeOpen' /\ AskedOfItsOwn' /\ PublishedHolds'
    BY <1>2, <1>4, <2>1, <2>2, <2>3 DEF IInv, NoneOpen, SomeOpen, AskedOfItsOwn, PublishedHolds
  <2>7. StampStands' /\ StampedOnce'
    BY <1>2, <2>3, <2>4 DEF IInv, StampStands, StampedOnce, NeverRestamped, StampedWhenKnown
  <2> QED
    BY <2>5, <2>6, <2>7 DEF IInv
<1> QED
  BY <1>3, <1>4 DEF Answered

\* The edits of the definition: an upgrade is the person's, and what lands is the
\* canvas, whose stamp is the project's.
LEMMA EditsKeepIInv == ASSUME IInv, AcceptUpgrade \/ Lands PROVE IInv'
<1> USE ConstantsOK
<1>1. TypeParts
  BY TypeOKIsItsParts DEF IInv
<1>2. rt.loaded /\ opened.id # None /\ opened.id \in Projects
  <2>1. rt.loaded /\ opened.id # None
    BY DEF AcceptUpgrade, Lands, IInv, NoneOpen, StampStands
  <2> QED
    BY <1>1, <2>1 DEF TypeParts, OpenType, Openeds
<1>3. rt' \in Runtimes /\ rt'.loaded
  BY <1>1, <1>2 DEF AcceptUpgrade, Lands, TypeParts, RuntimeType, Runtimes
<1>4. ButtonType'
  BY <1>1, RefreshChangedIs DEF AcceptUpgrade, Lands, TypeParts, ButtonType
<1>5. UNCHANGED <<boot, creating, imported, lastOpened, opened, run, appAddress, questions, puts>>
  BY DEF AcceptUpgrade, Lands, opening
<1>6. NoneOpen' /\ SomeOpen' /\ AskedOfItsOwn'
  BY <1>2, <1>5 DEF IInv, NoneOpen, SomeOpen, AskedOfItsOwn
<1>7. CASE AcceptUpgrade
  <2>1. canvas' = "now" /\ accepted' = accepted \cup {opened.id} /\ UNCHANGED tree
    BY <1>7 DEF AcceptUpgrade
  <2>2. TypeOK'
    BY <1>1, <1>2, <1>3, <1>4, <1>5, <2>1, TypeOKIsItsParts
    DEF TypeParts, BootType, OpenType, RuntimeType, AskedType, TreeType, Stamps
  <2>3. PublishedHolds' /\ StampStands'
    BY <1>3, <1>5, <2>1 DEF IInv, PublishedHolds, StampStands
  <2>4. StampedOnce'
    BY <2>1 DEF IInv, StampedOnce, NeverRestamped, StampedWhenKnown
  <2> QED
    BY <1>6, <2>2, <2>3, <2>4 DEF IInv
<1>8. CASE Lands
  <2>1. tree' = [tree EXCEPT ![opened.id].draft = TRUE, ![opened.id].made = canvas, ![opened.id].differs = TRUE]
        /\ UNCHANGED <<canvas, accepted>>
    BY <1>8 DEF Lands, opening
  <2>2. /\ tree' \in [Projects -> Trees]
        /\ \A p \in Projects : /\ tree'[p].published = tree[p].published
                               /\ p # opened.id => tree'[p] = tree[p]
        /\ tree'[opened.id].made = canvas
    <3> DEFINE it == [tree[opened.id] EXCEPT !.draft = TRUE, !.made = canvas, !.differs = TRUE]
    <3>1. tree[opened.id] \in Trees /\ tree \in [Projects -> Trees] /\ canvas \in Stamps
      BY <1>1, <1>2 DEF TypeParts, TreeType, RuntimeType
    <3>2. tree' = [tree EXCEPT ![opened.id] = it]
      BY <1>2, <2>1, <3>1
    <3>3. it \in Trees /\ it.published = tree[opened.id].published /\ it.made = canvas
      BY <3>1 DEF Trees
    <3> HIDE DEF it
    <3> QED
      BY <1>2, <3>1, <3>2, <3>3
  <2>3. TypeOK'
    BY <1>1, <1>3, <1>4, <1>5, <2>1, <2>2, TypeOKIsItsParts
    DEF TypeParts, BootType, OpenType, RuntimeType, AskedType, TreeType
  <2>4. PublishedHolds' /\ StampStands'
    BY <1>2, <1>3, <1>5, <2>1, <2>2 DEF IInv, PublishedHolds, StampStands
  <2>5. StampedOnce'
    <3>1. NeverRestamped'
      BY <1>2, <2>1, <2>2 DEF IInv, StampedOnce, NeverRestamped, StampStands, Existing
    <3>2. StampedWhenKnown'
      BY <1>2, <1>5, <2>1 DEF IInv, StampedOnce, StampedWhenKnown
    <3> QED
      BY <3>1, <3>2 DEF StampedOnce
  <2> QED
    BY <1>6, <2>3, <2>4, <2>5 DEF IInv
<1> QED
  BY <1>7, <1>8

\* What is put on the network takes nothing back from any project.
LEMMA PutEndsKeepsIInv ==
  ASSUME IInv, NEW t \in puts, NEW ok \in BOOLEAN, PutEnds(t, ok) PROVE IInv'
<1> USE ConstantsOK
<1>1. TypeParts
  BY TypeOKIsItsParts DEF IInv
<1>2. t.mine \in 1 .. MaxRuns /\ t.app \in Projects /\ puts' \subseteq Puts
  BY <1>1 DEF PutEnds, TypeParts, AskedType, Puts
<1>3. UNCHANGED <<boot, creating, imported, lastOpened, run, canvas, questions, accepted>>
  BY DEF PutEnds
<1>4. /\ tree' \in [Projects -> Trees]
      /\ \A p \in Projects : /\ tree[p].published => tree'[p].published
                             /\ tree'[p].made = tree[p].made
  <2>1. CASE ok /\ tree' = [tree EXCEPT ![t.app].published = TRUE, ![t.app].differs = FALSE]
    <3> DEFINE it == [tree[t.app] EXCEPT !.published = TRUE, !.differs = FALSE]
    <3>1. tree[t.app] \in Trees /\ tree \in [Projects -> Trees]
      BY <1>1, <1>2 DEF TypeParts, TreeType
    <3>2. tree' = [tree EXCEPT ![t.app] = it]
      BY <2>1, <3>1, <1>2
    <3>3. it \in Trees /\ it.published /\ it.made = tree[t.app].made
      BY <3>1 DEF Trees
    <3> HIDE DEF it
    <3> QED
      BY <1>2, <3>1, <3>2, <3>3
  <2>2. CASE UNCHANGED tree
    BY <1>1, <2>2 DEF TypeParts, TreeType
  <2> QED
    BY <2>1, <2>2 DEF PutEnds
<1>5. /\ opened' \in Openeds /\ opened'.id = opened.id /\ opened'.published = opened.published
      /\ appAddress' \in Projects \cup {None}
  <2>1. CASE opened' = [opened EXCEPT !.publication = t.app]
    BY <1>1, <1>2, <2>1 DEF PutEnds, TypeParts, OpenType, Openeds
  <2>2. CASE UNCHANGED opened
    BY <1>1, <1>2, <2>2 DEF PutEnds, TypeParts, OpenType
  <2> QED
    BY <2>1, <2>2 DEF PutEnds
<1>6. /\ rt' \in Runtimes /\ rt'.loaded = rt.loaded /\ rt'.pending = rt.pending
      /\ opened.id = None => rt' = rt
  <2>1. CASE t.mine = run /\ rt' = [rt EXCEPT !.phase = "published", !.error = ~ok]
    <3>1. opened.id # None
      BY <1>2, <2>1 DEF IInv, NoneOpen
    <3> QED
      BY <1>1, <2>1, <3>1 DEF TypeParts, RuntimeType, Runtimes
  <2>2. CASE UNCHANGED rt
    BY <1>1, <2>2 DEF TypeParts, RuntimeType
  <2> QED
    BY <2>1, <2>2 DEF PutEnds
<1>7. /\ changed' \in BOOLEAN /\ republishing' \in BOOLEAN /\ republishError' \in BOOLEAN
  BY <1>1 DEF PutEnds, TypeParts, ButtonType
<1>8. /\ asking' \in {"no", "tree", "held", "stale"}
      /\ opened.id = None => asking' = "no"
  <2>1. CASE UNCHANGED asking
    BY <1>1, <2>1 DEF IInv, NoneOpen, TypeParts, ButtonType
  <2>2. CASE RefreshChanged(rt')
    BY <1>1, <1>6, <2>2, RefreshChangedIs DEF IInv, NoneOpen, TypeParts
  <2> QED
    BY <2>1, <2>2 DEF PutEnds
<1>9. TypeOK'
  BY <1>1, <1>2, <1>3, <1>4, <1>5, <1>6, <1>7, <1>8, TypeOKIsItsParts
  DEF TypeParts, BootType, OpenType, RuntimeType, AskedType, ButtonType, TreeType
<1>10. NoneOpen' /\ SomeOpen' /\ AskedOfItsOwn'
  BY <1>3, <1>5, <1>6, <1>8 DEF IInv, NoneOpen, SomeOpen, AskedOfItsOwn
<1>11. PublishedHolds'
  <2>1. opened.published => opened.id \in Projects
    BY <1>1 DEF IInv, NoneOpen, TypeParts, OpenType, Openeds
  <2> QED
    BY <1>4, <1>5, <2>1 DEF IInv, PublishedHolds
<1>12. StampStands' /\ StampedOnce'
  BY <1>3, <1>4, <1>5, <1>6
  DEF IInv, StampStands, StampedOnce, NeverRestamped, StampedWhenKnown, Existing
<1> QED
  BY <1>9, <1>10, <1>11, <1>12 DEF IInv

LEMMA NextIInv == IInv /\ [Next]_vars => IInv'
<1> SUFFICES ASSUME IInv, [Next]_vars PROVE IInv'
  OBVIOUS
<1>1. CASE UNCHANGED vars
  <2>1. TypeOK'
    BY <1>1, TypeOKIsItsParts
    DEF vars, opening, button, IInv, TypeParts, BootType, OpenType, RuntimeType, AskedType,
        ButtonType, TreeType
  <2> QED
    BY <1>1, <2>1
    DEF vars, opening, button, IInv, NoneOpen, SomeOpen, AskedOfItsOwn, PublishedHolds,
        StampStands, StampedOnce, NeverRestamped, StampedWhenKnown
<1> QED
  BY <1>1, LoadKeepsIInv, ArrivesKeepsIInv, OpensKeepIInv, NewKeepsIInv, ReloadKeepsIInv,
     TreeOpensKeepsIInv, RuntimeStepsKeepIInv, RetryUnreadKeepsIInv, AnsweredKeepsIInv, EditsKeepIInv, PutEndsKeepsIInv
  DEF Next, Answers

LEMMA Invariance == Spec => []IInv
BY InitIInv, NextIInv, PTL DEF Spec

(***************************************************************************)
(* What the page promises.                                                 *)
(***************************************************************************)

\* The page stays what its declarations say: one project is open at a time, with its
\* runtime, and what is asked and put is of the project and the runtime it began with.
THEOREM TypeCorrect == Spec => []TypeOK
BY Invariance, PTL DEF IInv

\* In whatever order build-info, the SDK, a draft and a switch come, a project's stamp is
\* never replaced but by the person, and one that has none is stamped once both halves
\* and its draft are there (stampIfNew, offerUpgrade).
THEOREM AStampStands == Spec => []StampedOnce
BY Invariance, PTL DEF IInv

\* A row is said to be safe only when the project is published and its record says so,
\* whatever word an SDK may use for it.
LEMMA OnlySavedIsSaidHolds == OnlySavedIsSaid
<1> SUFFICES ASSUME NEW code \in RowCodes,
                    tone(rowState(rt.phase, code)) = "ok" \/ durable(rowState(rt.phase, code))
             PROVE  rt.phase = "published" /\ code \in {"CLEAN", "BACKED_UP"}
  BY DEF OnlySavedIsSaid
<1> DEFINE state == rowState(rt.phase, code)
<1>1. state \in {"published", "parity-complete"}
  <2>1. tone(state) = "ok" \/ durable(state)
    OBVIOUS
  <2> HIDE DEF state
  <2> QED
    BY <2>1 DEF tone, durable
<1>2. rt.phase = "published" /\ code # "none" /\ state = FromRowState(code)
  BY <1>1 DEF rowState
<1> QED
  BY <1>1, <1>2 DEF RowCodes, FromRowState

LEMMA HeldIsSaidHolds == TypeOK => HeldIsSaid
<1> SUFFICES ASSUME NEW error \in BOOLEAN, NEW watchError \in BOOLEAN, NEW saving \in 0 .. 1,
                    ~rt.loaded \/ (rt.pending /\ rt.conn # "open")
             PROVE  saveLine([loaded |-> rt.loaded, error |-> error, pending |-> rt.pending,
                              attached |-> rt.conn = "open", watchError |-> watchError], saving)
                      \notin {"none", "stale"}
  BY DEF HeldIsSaid
<1> QED
  BY DEF saveLine

\* What the page says of what is saved and published is so, of the project it says it of,
\* whatever answers about the one before are still on their way (connectTree, renderAddr).
THEOREM WhatIsSaidIsSo == Spec => []WordsHold
<1>1. IInv => PublishedIsDerived
  BY DEF IInv, PublishedHolds, PublishedIsDerived, addrNote
<1>2. IInv => WordsHold
  BY <1>1, OnlySavedIsSaidHolds, HeldIsSaidHolds DEF WordsHold, IInv
<1> QED
  BY <1>2, Invariance, PTL

=============================================================================
