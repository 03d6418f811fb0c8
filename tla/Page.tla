-------------------------------- MODULE Page -------------------------------
(***************************************************************************)
(* The page (app.js) and its projects (projects-panel.js,                  *)
(* project-list.js): which project is open, what its opening begins, the   *)
(* stamp of its versions, whether it was published, its publish, and what  *)
(* the page then says of it.  Each step is a promise that may resolve when *)
(* another project is open.                                                *)
(*                                                                         *)
(* A runtime is its number: each opening makes one, and the last is `rt`.  *)
(* What a runtime does by itself is ProjectRuntime's; here are the page's  *)
(* own continuations, each with the runtime it began under (`mine`).       *)
(***************************************************************************)
EXTENDS Naturals, FiniteSets, PublishState

CONSTANTS
  Projects,     \* project ids; the greater is the newer
  MadeEarlier,  \* projects of the owner's tree made with an earlier build,
  Unstamped,    \* and those that carry no stamp
  PublishedOnes, \* those of them that are published
  None,
  MaxRuns,      \* bound on the openings of a project in one load of the page
  MaxPuts       \* bound on the calls of putOnNetwork under way at once

Existing == MadeEarlier \cup Unstamped

ASSUME ConstantsOK ==
  /\ Projects \subseteq Nat \ {0} /\ Existing \subseteq Projects
  /\ MadeEarlier \cap Unstamped = {} /\ PublishedOnes \subseteq Existing
  /\ MaxRuns \in Nat /\ MaxPuts \in Nat /\ None \notin Projects /\ IsFiniteSet(Projects)

VARIABLES
  boot,      \* what arrived: build-info, the SDK, the list's session; and where `openNewestOrCreate` is
  creating,  \* is a New or a Duplicate counting the list?
  imported,  \* the device's record that the link's `app=` was imported
  lastOpened,
  opened,    \* openedProject: its id, published, publication
  run, rt,   \* the open project's runtime
  canvas,    \* the versions of the definition on the canvas
  questions, \* "was it published?": the runtimes that asked it of their tree
  puts,      \* the calls of putOnNetwork under way
  changed, asking, republishing, republishError, appAddress,
  tree,      \* the owner's tree: per project, its draft's stamp, is it published, does its draft differ
  accepted   \* (no variable of the code) the projects whose upgrade was accepted

opening == <<lastOpened, opened, run, canvas, appAddress>>
button  == <<changed, asking, republishing, republishError>>
vars == <<boot, creating, imported, opening, rt, questions, puts, button, tree, accepted>>

\* A stamp is never one with holes (app.js:336-340).
Stamps == {"none", "earlier", "now"}
NotATree == [draft |-> FALSE, made |-> "none", published |-> FALSE, differs |-> FALSE]
NoProject == [id |-> None, published |-> FALSE, publication |-> None]

TypeOK ==
  /\ boot \in [baked : BOOLEAN, sdk : BOOLEAN, list : {"none", "open", "lost"},
              start : {"load", "list", "reading", "done", "failed"}]
  /\ creating \in BOOLEAN /\ imported \in BOOLEAN
  /\ lastOpened \in Projects \cup {None}
  /\ opened \in [id : Projects \cup {None}, published : BOOLEAN, publication : Projects \cup {None}]
  /\ run \in 0 .. MaxRuns
  /\ rt \in [loaded : BOOLEAN, pending : BOOLEAN, conn : {"none", "opening", "failed", "unread", "open"},
             joined : BOOLEAN, phase : {"idle", "working", "recording", "published", "failed"}, error : BOOLEAN]
  /\ canvas \in Stamps
  /\ questions \subseteq [mine : 1 .. MaxRuns, of : Projects]
  /\ puts \subseteq [mine : 1 .. MaxRuns, app : Projects, again : BOOLEAN]
  /\ changed \in BOOLEAN /\ republishing \in BOOLEAN /\ republishError \in BOOLEAN
  /\ asking \in {"no", "tree", "held", "stale"} /\ appAddress \in Projects \cup {None}
  /\ tree \in [Projects -> [draft : BOOLEAN, made : Stamps, published : BOOLEAN, differs : BOOLEAN]]
  /\ accepted \subseteq Projects

-----------------------------------------------------------------------------
(* The stamp, and the change that is offered.                              *)

\* Mutant of MayStamp: from build-info alone, what the first version of it did.
MayStamp_Half(versions, baked, sdk, loaded) == versions = "none" /\ baked /\ loaded

\* stampIfNew's guard: both halves, a draft that was read, and no stamp.
MayStamp(versions, baked, sdk, loaded) == versions = "none" /\ baked /\ sdk /\ loaded

\* What is recorded with one half unknown is a record with holes in it.
StampOf(b) == IF b.baked /\ b.sdk THEN "now" ELSE "holes"

\* stampIfNew: a stamp is an edit, saved like any other.  `b` and `r` are what
\* arrived and the runtime as the caller leaves them.
StampIfNew(versions, b, r) ==
  IF MayStamp(versions, b.baked, b.sdk, r.loaded)
    THEN canvas' = StampOf(b) /\ rt' = [r EXCEPT !.pending = TRUE]
    ELSE canvas' = versions /\ rt' = r

\* Mutant of StampAtDraft: the draft's arrival does not stamp.
StampAtDraft_Not(versions, b, r) == canvas' = versions /\ rt' = r

StampAtDraft(versions, b, r) == StampIfNew(versions, b, r)

\* The runtime's `session` and `treeDb`, set before its draft is read.
HasSession(r) == r.conn \in {"open", "unread"}

\* refreshChanged: whenever the runtime moves, one question at a time; with edits
\* held its answer is known ("held"), and asked by another runtime it is "stale".
RefreshChanged(r) ==
  asking' = IF HasSession(r) /\ r.phase = "published" /\ asking = "no"
              THEN IF r.pending THEN "held" ELSE "tree"
              ELSE asking

-----------------------------------------------------------------------------
(* Opening a project.                                                      *)

Runtime(fresh) ==
  [loaded |-> fresh, pending |-> fresh, conn |-> IF boot.sdk THEN "opening" ELSE "none",
   joined |-> boot.sdk, phase |-> "idle", error |-> FALSE]

\* openInPage and newRuntime: nothing of the old project is kept.
OpenInPage(p, fresh) ==
  /\ run < MaxRuns /\ run' = run + 1
  /\ lastOpened' = p
  /\ opened' = [id |-> p, published |-> FALSE, publication |-> None]
  /\ changed' = FALSE /\ appAddress' = None
  /\ asking' = IF asking = "no" THEN "no" ELSE "stale"
  /\ StampIfNew("none", boot, Runtime(fresh))
  /\ UNCHANGED <<questions, puts, republishing, republishError, tree, accepted>>

\* The apps of the tree that hold a draft.
ListProjects == {p \in Projects : tree[p].draft}
NewIds == {p \in Projects \ Existing : ~tree[p].draft /\ p # opened.id}
Newest(ps) == CHOOSE p \in ps : \A q \in ps : q <= p

\* A row of the panel: choose.
Choose(p) ==
  /\ boot.list = "open" /\ p \in ListProjects
  /\ OpenInPage(p, FALSE)
  /\ UNCHANGED <<boot, creating, imported>>

\* New and Duplicate: with a list, it is counted first.
New ==
  /\ boot.start # "load" /\ ~creating
  /\ IF boot.list = "open"
       THEN /\ creating' = TRUE
            /\ UNCHANGED <<boot, imported, opening, rt, questions, puts, button, tree, accepted>>
       ELSE /\ \E p \in NewIds : OpenInPage(p, TRUE)
            /\ UNCHANGED <<boot, creating, imported>>

Created(p) ==
  /\ creating /\ creating' = FALSE
  /\ p \in NewIds /\ OpenInPage(p, TRUE)
  /\ UNCHANGED <<boot, imported>>

\* The start: a link's app is imported once; else what the device had open is
\* reopened; else the list is waited for.
Start(link) ==
  /\ boot.start = "load"
  /\ boot' = [boot EXCEPT !.start = IF lastOpened = None /\ ~(link /\ ~imported) THEN "list" ELSE "done"]
  /\ imported' = (imported \/ link)
  /\ CASE link /\ ~imported   -> \E p \in NewIds : OpenInPage(p, TRUE)
       [] lastOpened # None /\ ~(link /\ ~imported) -> OpenInPage(lastOpened, FALSE)
       [] OTHER -> UNCHANGED <<opening, rt, questions, puts, button, tree, accepted>>
  /\ UNCHANGED creating

\* openNewestOrCreate, whatever was opened meanwhile.  It is the one reader of the
\* list without a catch, and nobody calls it again: a listing that is rejected
\* (`listed` FALSE) opens nothing.
OpenNewestOrCreate(listed) ==
  /\ boot.start = "reading" /\ boot' = [boot EXCEPT !.start = IF listed THEN "done" ELSE "failed"]
  /\ IF listed /\ ListProjects # {} THEN OpenInPage(Newest(ListProjects), FALSE) /\ UNCHANGED creating
     ELSE /\ creating' = (creating \/ listed)
          /\ UNCHANGED <<opening, rt, questions, puts, button, tree, accepted>>
  /\ UNCHANGED imported

\* The tab is reloaded: the tree and the device's settings stay.
Reload ==
  /\ boot.start # "load"
  /\ boot' = [baked |-> FALSE, sdk |-> FALSE, list |-> "none", start |-> "load"]
  /\ creating' = FALSE /\ opened' = NoProject /\ appAddress' = None /\ canvas' = "none"
  /\ rt' = [Runtime(FALSE) EXCEPT !.conn = "none", !.joined = FALSE]
  /\ run' = 0
  /\ questions' = {} /\ puts' = {}
  /\ changed' = FALSE /\ asking' = "no" /\ republishing' = FALSE /\ republishError' = FALSE
  /\ UNCHANGED <<imported, lastOpened, tree, accepted>>

-----------------------------------------------------------------------------
(* What arrives.                                                           *)

BakedArrives ==
  /\ ~boot.baked
  /\ boot' = [boot EXCEPT !.baked = TRUE]
  /\ StampIfNew(canvas, boot', rt)
  /\ UNCHANGED <<creating, imported, lastOpened, opened, run, appAddress, questions, puts, button, tree, accepted>>

\* The SDK: the stamp, the list's session, and the open project's tree.
SdkArrives ==
  /\ ~boot.sdk /\ boot.list = "none"
  /\ boot' = [boot EXCEPT !.sdk = TRUE]
  /\ StampIfNew(canvas, boot', IF opened.id = None THEN rt ELSE [rt EXCEPT !.conn = "opening", !.joined = TRUE])
  /\ UNCHANGED <<creating, imported, lastOpened, opened, run, appAddress, questions, puts, button, tree, accepted>>

\* The SDK cannot be loaded: in this load of the page no tree is opened, the list's
\* neither.
SdkFails ==
  /\ ~boot.sdk /\ boot.list = "none"
  /\ boot' = [boot EXCEPT !.list = "lost"]
  /\ UNCHANGED <<creating, imported, opening, rt, questions, puts, button, tree, accepted>>

\* Mutant of WhenListOpen: the promise of the list is not resolved.
WhenListOpen_Never(start) == start

WhenListOpen(start) == IF start = "list" THEN "reading" ELSE start

ListOpens ==
  /\ boot.sdk /\ boot.list = "none" /\ boot.start # "load"
  /\ boot' = [boot EXCEPT !.list = "open", !.start = WhenListOpen(@)]
  /\ UNCHANGED <<creating, imported, opening, rt, questions, puts, button, tree, accepted>>

\* The list's runtime retries an open that failed, and not a read or a watch of its
\* draft that did: it has its session then, and is never said to be open.
ListLost ==
  /\ boot.sdk /\ boot.list = "none" /\ boot.start # "load"
  /\ boot' = [boot EXCEPT !.list = "lost"]
  /\ UNCHANGED <<creating, imported, opening, rt, questions, puts, button, tree, accepted>>

\* connect, when the session is open: the draft is handed to the canvas
\* (onDraft), and what waits on the open asks whether it was published.
TreeOpens ==
  /\ rt.conn = "opening"
  /\ LET r == [rt EXCEPT !.conn = "open", !.joined = FALSE, !.loaded = TRUE]
     IN  StampAtDraft(IF rt.loaded THEN canvas ELSE tree[opened.id].made, boot, r)
  /\ questions' = IF rt.joined THEN questions \cup {[mine |-> run, of |-> opened.id]} ELSE questions
  /\ UNCHANGED <<boot, creating, imported, lastOpened, opened, run, appAddress, puts, button, tree, accepted>>

\* A failed open is the runtime's to retry; a draft that could not be read in the
\* session it opened ("unread") is nobody's.  Who waited on it is told once.
OpenFails(conn) ==
  /\ rt.conn = "opening"
  /\ rt' = [rt EXCEPT !.conn = conn, !.joined = FALSE,
                      !.phase = IF @ = "working" THEN "failed" ELSE @, !.error = rt.phase = "working"]
  /\ UNCHANGED <<boot, creating, imported, opening, questions, puts, button, tree, accepted>>

\* The runtime's own retry, or the person's (connectTree, which waits on it).
Retry(person) ==
  /\ rt.conn = "failed"
  /\ person => rt.loaded
  /\ rt' = [rt EXCEPT !.conn = "opening", !.joined = person]
  /\ UNCHANGED <<boot, creating, imported, opening, questions, puts, button, tree, accepted>>

\* The person's Retry, with the session there: it is not opened or read again, and the
\* tree is asked whether the project was published.
RetryUnread ==
  /\ rt.conn = "unread" /\ rt.loaded
  /\ questions' = questions \cup {[mine |-> run, of |-> opened.id]}
  /\ UNCHANGED <<boot, creating, imported, opening, rt, puts, button, tree, accepted>>

\* Mutant of MayAnswer: `mine !== rt` is not looked at.
MayAnswer_Always(mine) == TRUE

MayAnswer(mine) == mine = run

\* connectTree's question is answered: a published project reconnects.  One that is
\* rejected (`read` FALSE) is not asked again.
Answered(q, read) ==
  /\ q \in questions /\ questions' = questions \ {q}
  /\ IF read /\ MayAnswer(q.mine) /\ tree[q.of].published /\ ~opened.published
       THEN /\ opened' = [opened EXCEPT !.published = TRUE]
            /\ rt' = [rt EXCEPT !.phase = IF @ = "idle" THEN "working" ELSE @]
       ELSE UNCHANGED <<opened, rt>>
  /\ UNCHANGED <<boot, creating, imported, lastOpened, run, canvas, appAddress, puts, button, tree, accepted>>

-----------------------------------------------------------------------------
(* The definition is edited, and lands in the tree.                        *)

\* save, after any edit of the canvas.
Edit ==
  /\ opened.id # None /\ rt.loaded /\ ~rt.pending
  /\ rt' = [rt EXCEPT !.pending = TRUE] /\ RefreshChanged(rt')
  /\ UNCHANGED <<boot, creating, imported, opening, questions, puts, changed, republishing, republishError, tree, accepted>>

\* offerUpgrade's button: what moved on is accepted, once both halves are known.
AcceptUpgrade ==
  /\ boot.baked /\ boot.sdk /\ canvas = "earlier" /\ rt.loaded
  /\ canvas' = "now" /\ accepted' = accepted \cup {opened.id}
  /\ rt' = [rt EXCEPT !.pending = TRUE] /\ RefreshChanged(rt')
  /\ UNCHANGED <<boot, creating, imported, lastOpened, opened, run, appAddress, questions, puts, changed, republishing, republishError, tree>>

Lands ==
  /\ rt.pending /\ rt.conn = "open"
  /\ tree' = [tree EXCEPT ![opened.id].draft = TRUE, ![opened.id].made = canvas, ![opened.id].differs = TRUE]
  /\ rt' = [rt EXCEPT !.pending = FALSE] /\ RefreshChanged(rt')
  /\ UNCHANGED <<boot, creating, imported, opening, questions, puts, changed, republishing, republishError, accepted>>

\* What was asked of the tree may be rejected, and leaves the answer as it was.
ChangedAnswered(read) ==
  /\ asking # "no" /\ asking' = "no"
  /\ changed' = IF asking = "stale" \/ (asking = "tree" /\ ~read) THEN changed
                ELSE asking = "held" \/ tree[opened.id].differs
  /\ UNCHANGED <<boot, creating, imported, opening, rt, questions, puts, republishing, republishError, tree, accepted>>

-----------------------------------------------------------------------------
(* Publish.                                                                *)

\* doPublish: a first publish joins the open, or begins it.
Publish ==
  /\ boot.sdk /\ opened.id # None
  /\ buttonFor(rt.phase, changed, republishing).enabled /\ rt.phase # "published"
  /\ rt' = [rt EXCEPT !.phase = "working", !.error = FALSE,
                      !.conn = IF @ \in {"none", "failed"} THEN "opening" ELSE @]
  /\ UNCHANGED <<boot, creating, imported, opening, questions, puts, button, tree, accepted>>

Put(again) == [mine |-> run, app |-> opened.id, again |-> again]

\* The handoff is done: `after` puts the app on the network.
HandedOver ==
  /\ rt.phase = "working" /\ HasSession(rt) /\ Cardinality(puts) < MaxPuts
  /\ rt' = [rt EXCEPT !.phase = "recording"]
  /\ puts' = puts \cup {Put(FALSE)}
  /\ UNCHANGED <<boot, creating, imported, opening, questions, button, tree, accepted>>

HandoffFails ==
  /\ rt.phase = "working" /\ HasSession(rt)
  /\ rt' = [rt EXCEPT !.phase = "failed", !.error = TRUE]
  /\ UNCHANGED <<boot, creating, imported, opening, questions, puts, button, tree, accepted>>

\* publishChanges.
PublishChanges ==
  /\ rt.phase = "published" /\ buttonFor(rt.phase, changed, republishing).enabled
  /\ Cardinality(puts) < MaxPuts
  /\ republishing' = TRUE /\ puts' = puts \cup {Put(TRUE)}
  /\ UNCHANGED <<boot, creating, imported, opening, rt, questions, changed, asking, republishError, tree, accepted>>

\* putOnNetwork ends: what it put is recorded for the project then open, whatever
\* the one it was put for.  A first publish is then done; its reason, if it has
\* one, is the runtime's error.
PutEnds(t, ok) ==
  /\ t \in puts /\ puts' = puts \ {t}
  /\ tree' = IF ok THEN [tree EXCEPT ![t.app].published = TRUE, ![t.app].differs = FALSE] ELSE tree
  /\ appAddress' = IF ok THEN t.app ELSE appAddress
  /\ changed' = (changed /\ ~ok)
  /\ opened' = IF ok /\ opened.id # None THEN [opened EXCEPT !.publication = t.app] ELSE opened
  /\ IF t.again THEN /\ republishing' = FALSE /\ republishError' = ~ok
                     /\ UNCHANGED <<rt, asking>>
     ELSE /\ rt' = IF t.mine = run THEN [rt EXCEPT !.phase = "published", !.error = ~ok] ELSE rt
          /\ RefreshChanged(rt')
          /\ UNCHANGED <<republishing, republishError>>
  /\ UNCHANGED <<boot, creating, imported, lastOpened, run, canvas, questions, accepted>>

\* renderPublish's note: does it say a reason?
PublishNote == IF rt.phase = "failed" THEN rt.error ELSE republishError

-----------------------------------------------------------------------------
Init ==
  /\ boot = [baked |-> FALSE, sdk |-> FALSE, list |-> "none", start |-> "load"]
  /\ creating = FALSE /\ imported = FALSE
  /\ lastOpened \in Existing \cup {None}
  /\ opened = NoProject /\ run = 0 /\ canvas = "none" /\ appAddress = None
  /\ rt = [loaded |-> FALSE, pending |-> FALSE, conn |-> "none", joined |-> FALSE, phase |-> "idle", error |-> FALSE]
  /\ questions = {} /\ puts = {}
  /\ changed = FALSE /\ asking = "no" /\ republishing = FALSE /\ republishError = FALSE
  /\ tree = [p \in Projects |-> IF p \in Existing
               THEN [draft |-> TRUE, made |-> IF p \in MadeEarlier THEN "earlier" ELSE "none",
                     published |-> p \in PublishedOnes, differs |-> FALSE]
               ELSE NotATree]
  /\ accepted = {}

Load == (\E link \in BOOLEAN : Start(link)) \/ (\E listed \in BOOLEAN : OpenNewestOrCreate(listed))
Arrives == BakedArrives \/ SdkArrives \/ SdkFails \/ ListOpens \/ ListLost
Answers == (\E q \in questions, read \in BOOLEAN : Answered(q, read)) \/ (\E read \in BOOLEAN : ChangedAnswered(read))

Next ==
  \/ Load \/ Arrives \/ Answers
  \/ \E p \in Projects : Choose(p) \/ Created(p)
  \/ New \/ Reload
  \/ TreeOpens \/ (\E conn \in {"failed", "unread"} : OpenFails(conn))
  \/ RetryUnread \/ \E person \in BOOLEAN : Retry(person)
  \/ Edit \/ AcceptUpgrade \/ Lands
  \/ Publish \/ HandedOver \/ HandoffFails \/ PublishChanges
  \/ \E t \in puts, ok \in BOOLEAN : PutEnds(t, ok)

Spec == Init /\ [][Next]_vars

\* What the page waits for at its start arrives or fails, and the start and a New go on.
\* The person need do nothing, and no open need ever succeed.
FairSpec ==
  /\ Spec
  /\ WF_vars(Load) /\ WF_vars(Arrives)
  /\ WF_vars(\E p \in Projects : Created(p))

-----------------------------------------------------------------------------
(* What it promises.                                                       *)

\* A project that is reconnecting says it is published only when its own published
\* definition holds something: an answer about the project open before is dropped
\* (app.js:161-165, 422-429).
PublishedIsDerived ==
  addrNote(rt.phase, opened.published) \in {"connecting", "disconnected"}
    => tree[opened.id].published

\* The versions a project was made with stay what they were, in the tree, unless
\* the person accepted the upgrade: no order of build-info, SDK, draft and switch
\* stamps over them (app.js:330-334, 342-344).
NeverRestamped == \A p \in MadeEarlier \ accepted : tree[p].made = "earlier"

\* Whichever of its halves comes last, a project that has none is stamped: with
\* both and the draft read, the canvas has versions (app.js:335-347, 150, 271, 392).
StampedWhenKnown == boot.baked /\ boot.sdk /\ rt.loaded => canvas # "none"

\* A row claims to be saved only in a published project, and only when its record
\* says so: a word this build does not know claims nothing (publish-state.js:70-83,
\* 183-200).
OnlySavedIsSaid ==
  \A code \in RowCodes :
    LET state == rowState(rt.phase, code)
    IN  tone(state) = "ok" \/ durable(state) => rt.phase = "published" /\ code \in {"CLEAN", "BACKED_UP"}

\* Edits the tree does not have yet, because it is still opening or could not be
\* opened, are never passed over in silence (app.js:60-83).
HeldIsSaid ==
  \A error, watchError \in BOOLEAN, saving \in 0 .. 1 :
    LET draft == [loaded |-> rt.loaded, error |-> error, pending |-> rt.pending,
                  attached |-> rt.conn = "open", watchError |-> watchError]
    IN  opened.id # None /\ (~rt.loaded \/ (rt.pending /\ rt.conn # "open"))
          => saveLine(draft, saving) \notin {"none", "stale"}

\* What the page says of what is saved and published is so (publish-state.js).
WordsHold == PublishedIsDerived /\ OnlySavedIsSaid /\ HeldIsSaid

\* A project comes to have a stamp, and one stamp: that of the first builder that
\* knew both halves, or the person's own upgrade.
StampedOnce == NeverRestamped /\ StampedWhenKnown

\* The start ends with nothing open: the list it waits for is lost (its session never
\* ready, or no SDK to open it), or could not be read when it came.
StartsNowhere == boot.start = "failed" \/ (boot.start = "list" /\ boot.list = "lost")

\* After every load the page comes to have a project open, unless it is loaded again
\* before: the link's, the one the device had open, the newest of the tree, or a new
\* one (app.js:285-306).  A page that starts nowhere is the one exception: the person
\* has to make or choose a project, or load the page again (app.js:181, 305, 401).
StartsSomewhere ==
  (boot.start # "load") ~> (opened.id # None \/ StartsNowhere \/ boot.start = "load")

\* A failure to put the app on the network is reported (app.js:569-570): the
\* reason the runtime keeps is shown.
FailedPutIsSaid == rt.error => PublishNote
=============================================================================
