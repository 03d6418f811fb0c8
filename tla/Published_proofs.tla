-------------------------- MODULE Published_proofs --------------------------
(***************************************************************************)
(* Proofs about an app's one link, for any piece set, any K of it, any     *)
(* lists of SDK modules and any app: that a link handed out opens, that a  *)
(* page with the app on it is so, and that every step of a publish and of  *)
(* a load is a step of what a link promises (Link), or none of its own.    *)
(***************************************************************************)
EXTENDS Published, FiniteSetTheorems, TLAPS

(***************************************************************************)
(* The piece set.                                                          *)
(***************************************************************************)

\* What the pieces hold is a matter of the two lists the SDK's build gives, and of
\* nothing that happens (coreFiles, starterFiles, the loader's imports).
LEMMA TheListsAgree == PiecesHoldWhatLoads
<1>1. LoaderNeeds \cup Imports \subseteq BundleFiles
  BY ConstantsOK DEF LoaderNeeds, Imports, BundleFiles, RUNTIME_FILES, PROVISIONING_FILES
<1>2. Starter \cap BundleFiles = {}
  BY NamesApart DEF BundleFiles, RUNTIME_FILES, PROVISIONING_FILES
<1>3. STARTER_FILES \cap BundleFiles = {}
  BY NamesApart DEF BundleFiles, RUNTIME_FILES, PROVISIONING_FILES, STARTER_FILES
<1> QED
  BY <1>1, <1>2, <1>3 DEF PiecesHoldWhatLoads, StarterFiles

\* The pieces on the network are finitely many, so they can be counted.
LEMMA PiecesAreCounted ==
  ASSUME NEW S \in SUBSET Pieces
  PROVE  IsFiniteSet(S) /\ Cardinality(S) \in Nat
<1>1. IsFiniteSet(S)
  BY ConstantsOK, FS_Subset
<1> QED
  BY <1>1, FS_CardinalityType

\* More pieces are no fewer.
LEMMA MorePieces ==
  ASSUME NEW S \in SUBSET Pieces, NEW T \in SUBSET S
  PROVE  Cardinality(T) <= Cardinality(S)
BY PiecesAreCounted, FS_Subset

(***************************************************************************)
(* The inductive invariant.                                                *)
(***************************************************************************)

\* The publish: what is recorded, waited for or done has its definition in the
\* owner's tree, and a site that is up has enough pieces under it.
UpOverADefinition ==
  /\ put # "none" \/ site \/ nodeHas => defined
  /\ pub = "waiting" => put # "none"
  /\ IsPublished(put) \/ last = "this" \/ pub \in {"defining", "done"} => site
  /\ site => Cardinality(set) >= K

\* The load: past its definition it has one, what counts is not over, and a user's
\* data that is mounted is the user's own.
LoadsInOrder ==
  /\ MountsADefinition
  /\ stage = "done" => ~counting /\ status # "reading"
  /\ stage \in {"mounting", "done"} /\ signs /\ app = "mine" => mine

IInv == TypeOK /\ UpOverADefinition /\ LoadsInOrder

LEMMA InitIInv == Init => IInv
<1> SUFFICES ASSUME Init PROVE IInv
  OBVIOUS
<1>1. TypeOK
  BY DEF Init, TypeOK
<1>2. UpOverADefinition
  BY DEF Init, UpOverADefinition, IsPublished
<1> QED
  BY <1>1, <1>2 DEF Init, IInv, LoadsInOrder, MountsADefinition

\* A step of the load changes nothing of the publish or of the network.
LEMMA LoadsReadOnly ==
  ASSUME Loads \/ Navigate \/ ReadRejected \/ Tick \/ Reload
  PROVE  UNCHANGED <<app, pubVars, netVars>>
BY DEF Loads, Navigate, ReadRejected, Tick, Reload, FilesRead, Raced, Linked, TreeOpens,
       DefinitionRead, Followed, Reading, Asked, MineOpened, Mounted, MountFails

\* A step of the publish or of the network changes nothing of the load, and takes no
\* definition away.
LEMMA PublishesApart ==
  ASSUME \/ Publish \/ (\E m \in Manifests : Packaged(m)) \/ DefinitionPublished
         \/ PublishRefused \/ Polled \/ SiteStored \/ PutEnds \/ NodeCatchesUp
         \/ \E p \in Pieces : PieceStored(p) \/ PieceLost(p)
  PROVE  /\ UNCHANGED <<app, loadVars>>
         /\ (defined => defined') /\ (nodeHas => nodeHas')
<1> USE DEF netVars
<1>1. CASE Publish \/ (\E m \in Manifests : Packaged(m)) \/ PublishRefused \/ Polled
  BY <1>1 DEF Publish, Packaged, PublishRefused, Polled
<1>2. CASE DefinitionPublished \/ SiteStored \/ PutEnds \/ NodeCatchesUp
  BY <1>2 DEF DefinitionPublished, SiteStored, PutEnds, NodeCatchesUp
<1>3. CASE \E p \in Pieces : PieceStored(p) \/ PieceLost(p)
  BY <1>3 DEF PieceStored, PieceLost
<1> QED
  BY <1>1, <1>2, <1>3

LEMMA NextTypeOK == IInv /\ [Next]_vars => TypeOK'
<1> SUFFICES ASSUME IInv, [Next]_vars PROVE TypeOK'
  OBVIOUS
<1> USE DEF pubVars, netVars, loadVars, Ended, TypeOK
<1>0. TypeOK
  BY DEF IInv
<1>1. CASE Publish \/ PublishRefused \/ Polled
  BY <1>0, <1>1 DEF Publish, PublishRefused, Polled
<1>2. ASSUME NEW m \in Manifests, Packaged(m) PROVE TypeOK'
  BY <1>0, <1>2 DEF Packaged
<1>3. CASE DefinitionPublished \/ SiteStored \/ PutEnds \/ NodeCatchesUp
  <2>1. defined' \in BOOLEAN /\ site' \in BOOLEAN /\ nodeHas' \in BOOLEAN
    BY <1>0, <1>3 DEF DefinitionPublished, SiteStored, PutEnds, NodeCatchesUp
  <2>2. /\ pub' \in {"idle", "starter", "defining", "sending", "waiting", "done", "failed"}
        /\ put' \in {"none", "pieces", "published", "backed_up", "backup_abandoned", "refused",
                     "superseded", "cancelled"}
    BY <1>0, <1>3 DEF DefinitionPublished, SiteStored, PutEnds, NodeCatchesUp
  <2>3. UNCHANGED <<app, last, set, loadVars>>
    BY <1>3 DEF DefinitionPublished, SiteStored, PutEnds, NodeCatchesUp
  <2> QED
    BY <1>0, <2>1, <2>2, <2>3
<1>4. ASSUME NEW p \in Pieces, PieceStored(p) \/ PieceLost(p) PROVE TypeOK'
  BY <1>0, <1>4 DEF PieceStored, PieceLost
<1>5. CASE Navigate \/ FilesRead \/ Raced \/ Linked \/ ReadRejected \/ TreeOpens
  BY <1>0, <1>5 DEF Navigate, FilesRead, Raced, Linked, ReadRejected, TreeOpens, At, Fail
<1>6. ASSUME NEW owner \in BOOLEAN, NEW own \in BOOLEAN, Asked(owner, own) PROVE TypeOK'
  BY <1>0, <1>6 DEF Asked, At, Fail
<1>7. CASE DefinitionRead \/ Followed \/ Reading
  BY <1>0, <1>7 DEF DefinitionRead, Followed, Reading, At
<1>8. ASSUME NEW answer \in {"yes", "no", "rejected"}, MineOpened(answer) PROVE TypeOK'
  <2>1. mine' \in BOOLEAN
    BY <1>8 DEF MineOpened
  <2> QED
    BY <1>0, <1>8, <2>1 DEF MineOpened, Fail
<1>9. ASSUME NEW ended \in BOOLEAN, Mounted(ended) PROVE TypeOK'
  <2>1. status' \in {"ended", "blank", "componentless", "name"}
    BY <1>9 DEF Mounted, At, FinalLine
  <2>2. counting' \in BOOLEAN
    BY <1>9 DEF Mounted, StopsCounting
  <2>3. stage' = "done" /\ UNCHANGED <<app, pubVars, netVars, signs, mine, missing>>
    BY <1>9 DEF Mounted, At
  <2> QED
    BY <1>0, <2>1, <2>2, <2>3
<1>10. CASE MountFails \/ Tick \/ Reload
  BY <1>0, <1>10 DEF MountFails, Tick, Reload, Fail, StopsCounting
<1>11. ASSUME NEW ok \in BOOLEAN, Repaired(ok) PROVE TypeOK'
  BY <1>0, <1>11 DEF Repaired
<1>12. CASE UNCHANGED vars
  BY <1>0, <1>12 DEF vars
<1> QED
  BY <1>1, <1>2, <1>3, <1>4, <1>5, <1>6, <1>7, <1>8, <1>9, <1>10, <1>11, <1>12 DEF Next, Loads

LEMMA NextUpOverADefinition == IInv /\ [Next]_vars => UpOverADefinition'
<1> SUFFICES ASSUME IInv, [Next]_vars PROVE UpOverADefinition'
  OBVIOUS
<1> USE DEF pubVars, netVars, UpOverADefinition, IsPublished
<1>0. TypeOK /\ UpOverADefinition
  BY DEF IInv
<1>1. CASE UNCHANGED <<pubVars, netVars>>
  BY <1>0, <1>1
<1>2. CASE Publish \/ PublishRefused \/ Polled
  BY <1>0, <1>2 DEF Publish, PublishRefused, Polled
<1>3. ASSUME NEW m \in Manifests, Packaged(m) PROVE UpOverADefinition'
  BY <1>0, <1>3 DEF Packaged, SiteIsCurrent
<1>4. CASE DefinitionPublished \/ SiteStored \/ PutEnds \/ NodeCatchesUp
  BY <1>0, <1>4 DEF DefinitionPublished, SiteStored, PutEnds, NodeCatchesUp
<1>5. ASSUME NEW p \in Pieces, PieceStored(p) PROVE UpOverADefinition'
  <2>1. set' \in SUBSET Pieces /\ set \in SUBSET set'
    BY <1>0, <1>5 DEF PieceStored, TypeOK
  <2>2. Cardinality(set) >= K => Cardinality(set') >= K
    BY <2>1, MorePieces, PiecesAreCounted, ConstantsOK
  <2> QED
    BY <1>0, <1>5, <2>2 DEF PieceStored
<1>6. ASSUME NEW p \in Pieces, PieceLost(p) PROVE UpOverADefinition'
  <2>1. Cardinality(set') = Cardinality(set) - 1
    BY <1>0, <1>6, PiecesAreCounted, FS_RemoveElement DEF PieceLost, TypeOK
  <2>2. Cardinality(set') >= K
    BY <1>0, <1>6, <2>1, PiecesAreCounted, ConstantsOK DEF PieceLost, TypeOK
  <2> QED
    BY <1>0, <1>6, <2>2 DEF PieceLost
<1>7. ASSUME NEW ok \in BOOLEAN, Repaired(ok) PROVE UpOverADefinition'
  <2>1. set' \in SUBSET Pieces /\ set \in SUBSET set'
    BY <1>0, <1>7 DEF Repaired, TypeOK
  <2>2. Cardinality(set) >= K => Cardinality(set') >= K
    BY <2>1, MorePieces, PiecesAreCounted, ConstantsOK
  <2> QED
    BY <1>0, <1>7, <2>2 DEF Repaired
<1>8. CASE Loads \/ Navigate \/ ReadRejected \/ Tick \/ Reload \/ UNCHANGED vars
  BY <1>1, <1>8, LoadsReadOnly DEF vars
<1> QED
  BY <1>2, <1>3, <1>4, <1>5, <1>6, <1>7, <1>8 DEF Next

LEMMA NextLoadsInOrder == IInv /\ [Next]_vars => LoadsInOrder'
<1> SUFFICES ASSUME IInv, [Next]_vars PROVE LoadsInOrder'
  OBVIOUS
<1> USE DEF netVars, loadVars, LoadsInOrder, MountsADefinition, HasMeta
<1>0. TypeOK /\ LoadsInOrder
  BY DEF IInv
<1>1. CASE UNCHANGED <<app, loadVars>> /\ (defined => defined') /\ (nodeHas => nodeHas')
  BY <1>0, <1>1 DEF TypeOK
<1>2. CASE Navigate \/ FilesRead \/ Raced \/ Linked \/ ReadRejected \/ TreeOpens
  BY <1>0, <1>2 DEF Navigate, FilesRead, Raced, Linked, ReadRejected, TreeOpens, At, Fail
<1>3. ASSUME NEW owner \in BOOLEAN, NEW own \in BOOLEAN, Asked(owner, own) PROVE LoadsInOrder'
  BY <1>0, <1>3 DEF Asked, At, Fail
<1>4. CASE DefinitionRead \/ Followed \/ Reading
  BY <1>0, <1>4 DEF DefinitionRead, Followed, Reading, At, Opens, Follows
<1>5. ASSUME NEW answer \in {"yes", "no", "rejected"}, MineOpened(answer) PROVE LoadsInOrder'
  BY <1>0, <1>5 DEF MineOpened, Fail
<1>6. ASSUME NEW ended \in BOOLEAN, Mounted(ended) PROVE LoadsInOrder'
  BY <1>0, <1>6 DEF Mounted, At, FinalLine, StopsCounting
<1>7. CASE MountFails \/ Tick \/ Reload
  BY <1>0, <1>7 DEF MountFails, Tick, Reload, Fail, StopsCounting, Ended
<1>8. ASSUME NEW ok \in BOOLEAN, Repaired(ok) PROVE LoadsInOrder'
  BY <1>0, <1>8 DEF Repaired
<1>9. CASE \/ Publish \/ (\E m \in Manifests : Packaged(m)) \/ DefinitionPublished
           \/ PublishRefused \/ Polled \/ SiteStored \/ PutEnds \/ NodeCatchesUp
           \/ \E p \in Pieces : PieceStored(p) \/ PieceLost(p)
  BY <1>1, <1>9, PublishesApart
<1>10. CASE UNCHANGED vars
  BY <1>1, <1>10 DEF vars
<1> QED
  BY <1>2, <1>3, <1>4, <1>5, <1>6, <1>7, <1>8, <1>9, <1>10 DEF Next, Loads

LEMMA Invariance == Spec => []IInv
<1>1. IInv /\ [Next]_vars => IInv'
  BY NextTypeOK, NextUpOverADefinition, NextLoadsInOrder DEF IInv
<1> QED
  BY <1>1, InitIInv, PTL DEF Spec

(***************************************************************************)
(* The theorems.                                                           *)
(***************************************************************************)

\* The publish, the network and the loader stay what their declarations say.
THEOREM TypeCorrect == Spec => []TypeOK
<1>1. IInv => TypeOK
  BY DEF IInv
<1> QED
  BY <1>1, Invariance, PTL

\* However often an app is published, refused or published again, and whichever
\* pieces the network keeps, a link handed out has its site, K pieces that hold what
\* a loader asks for, and its definition (publishApp, publishSite).
THEOREM AHandedOutLinkOpens == Spec => []LinkOpens
<1>1. IInv => LinkOpens
  BY TheListsAgree DEF IInv, UpOverADefinition, LinkOpens
<1> QED
  BY <1>1, Invariance, PTL

\* Whatever the order of the load's answers, a page that has the app on it has a
\* published definition, goes on saying so and writes only where it may (loader.js).
THEOREM APageThatIsDoneIsSo == Spec => []DoneIsSo
<1>1. IInv => DoneIsSo
  <2> SUFFICES ASSUME IInv PROVE DoneIsSo
    OBVIOUS
  <2>1. MountsADefinition /\ EndStaysSaid
    BY DEF IInv, LoadsInOrder, EndStaysSaid
  <2>2. WritesAreOwn
    BY DEF IInv, LoadsInOrder, WritesAreOwn, Backend, TypeOK
  <2> QED
    BY <2>1, <2>2 DEF DoneIsSo
<1> QED
  BY <1>1, Invariance, PTL

(***************************************************************************)
(* The refinement of Link.                                                 *)
(***************************************************************************)

LEMMA InitIsALink == Init => Promise!Init
BY DEF Init, Promise!Init, Page

\* Every step is one step of the link's promise, or leaves the link as it was.
LEMMA StepIsALinks == IInv /\ [Next]_vars => [Promise!Next]_(Promise!vars)
<1> SUFFICES ASSUME IInv, [Next]_vars PROVE [Promise!Next]_(Promise!vars)
  OBVIOUS
<1> USE DEF pubVars, netVars, loadVars, Promise!Next, Promise!vars
<1>0. TypeOK /\ UpOverADefinition /\ LoadsInOrder
  BY DEF IInv
<1>1. CASE Publish
  BY <1>1 DEF Publish, Promise!Renew, Page
<1>2. ASSUME NEW m \in Manifests, Packaged(m) PROVE UNCHANGED Promise!vars
  BY <1>2 DEF Packaged, Page
<1>3. CASE DefinitionPublished
  <2>1. CASE pub = "defining"
    BY <1>0, <1>3, <2>1 DEF DefinitionPublished, UpOverADefinition, TypeOK, Promise!Offer, Page
  <2>2. CASE pub = "sending"
    BY <1>3, <2>2 DEF DefinitionPublished, Promise!Publish, Page
  <2> QED
    BY <1>3, <2>1, <2>2 DEF DefinitionPublished
<1>4. CASE PublishRefused
  BY <1>4 DEF PublishRefused, Page
<1>5. CASE Polled
  BY <1>0, <1>5 DEF Polled, UpOverADefinition, Promise!Offer, Page
<1>6. ASSUME NEW p \in Pieces, PieceStored(p) \/ PieceLost(p) PROVE UNCHANGED Promise!vars
  BY <1>6 DEF PieceStored, PieceLost, Page
<1>7. CASE SiteStored
  BY <1>0, <1>7 DEF SiteStored, UpOverADefinition, Promise!PutUp, Page
<1>8. CASE PutEnds \/ NodeCatchesUp
  BY <1>8 DEF PutEnds, NodeCatchesUp, Page
<1>9. CASE Navigate
  BY <1>9 DEF Navigate, At, Promise!Visit, Page
<1>10. CASE FilesRead \/ Raced \/ TreeOpens \/ DefinitionRead \/ Followed \/ Reading
  BY <1>10 DEF FilesRead, Raced, TreeOpens, DefinitionRead, Followed, Reading, At, Page
<1>11. CASE Linked \/ ReadRejected
  BY <1>11 DEF Linked, ReadRejected, At, Fail, Promise!GiveReason, Page
<1>12. ASSUME NEW owner \in BOOLEAN, NEW own \in BOOLEAN, Asked(owner, own)
       PROVE  [Promise!Next]_(Promise!vars)
  BY <1>12 DEF Asked, At, Fail, Promise!GiveReason, Page
<1>13. ASSUME NEW answer \in {"yes", "no", "rejected"}, MineOpened(answer)
       PROVE  [Promise!Next]_(Promise!vars)
  BY <1>13 DEF MineOpened, Fail, Promise!GiveReason, Page
<1>14. ASSUME NEW ended \in BOOLEAN, Mounted(ended) PROVE [Promise!Next]_(Promise!vars)
  <2>1. defined
    BY <1>0, <1>14 DEF Mounted, At, LoadsInOrder, MountsADefinition, HasMeta, UpOverADefinition
  <2> QED
    BY <1>14, <2>1 DEF Mounted, At, Promise!Show, Page
<1>15. CASE MountFails
  BY <1>15 DEF MountFails, Fail, Promise!GiveReason, Page
<1>16. CASE Tick
  BY <1>16 DEF Tick, Page
<1>17. ASSUME NEW ok \in BOOLEAN, Repaired(ok) PROVE UNCHANGED Promise!vars
  BY <1>17 DEF Repaired, Page
<1>18. CASE Reload
  BY <1>18 DEF Reload, Ended, Promise!Leave, Page
<1>19. CASE UNCHANGED vars
  BY <1>19 DEF vars, Page
<1> QED
  BY <1>1, <1>2, <1>3, <1>4, <1>5, <1>6, <1>7, <1>8, <1>9, <1>10, <1>11, <1>12, <1>13, <1>14,
     <1>15, <1>16, <1>17, <1>18, <1>19 DEF Next, Loads

\* A publish and a load, with all that may go wrong in them, do nothing a link's
\* promise forbids: of the promise a run checks (KeepsItsPromise), only that whoever
\* waits is answered rests on the loader's fairness (publish-app.js, loader.js).
THEOREM PublishedImplementsLink == Spec => Promise!Safety
BY InitIsALink, StepIsALinks, Invariance, PTL DEF Spec, Promise!Safety
=============================================================================
