------------------------------ MODULE Published -----------------------------
(***************************************************************************)
(* An app's publish at its one link (publish-app.js, package-app.js) and   *)
(* its opening by a reader (app-loader/loader.js, openPublished): what the *)
(* starter and the piece set carry, the site's publish until it reads      *)
(* published, the pieces that come and go on the network, and the loader's *)
(* steps with what its status line says.                                   *)
(*                                                                         *)
(* External: the SDK's publish_app (pieces first, the site at k), the race *)
(* of k pieces, the node's answers, and the tree it has.                   *)
(***************************************************************************)
EXTENDS Naturals, FiniteSets

CONSTANTS
  Pieces, K,    \* the build's piece set, any K of which rebuild the bundle
  Modules,      \* the SDK's modules, by its own build's list,
  Starter,      \* and those that run before the SDK exists
  Apps          \* what an app may be: its definition's components, or its code

ASSUME ConstantsOK ==
  /\ IsFiniteSet(Pieces) /\ K \in 1 .. Cardinality(Pieces)
  /\ {"index.js", "artefacts.js", "engine-db.js", "craftworks_sdk.js"} \subseteq Modules \ Starter
  /\ {"served.js", "pieces.js"} \subseteq Starter
  /\ Apps \subseteq {"empty", "publisher", "mine", "code", "lostCode"}

VARIABLES
  app,        \* which of Apps it is
  last,       \* publishSite's `last`: "none", this app's, or another's
  pub,        \* the publish: idle, starter (being read), defining, sending, waiting, done, failed
  put,        \* what the session says of the site's publish
  set, site,  \* the pieces on the network, and is the site there?
  defined, nodeHas,  \* is the definition published in the owner's tree, and in the one the reader's node has?
  stage,      \* the loader
  signs,      \* does the reader's node sign for the app's tree?
  mine,       \* is the user's own tree open?
  missing,    \* the pieces this load asked and did not get
  counting, status

pubVars  == <<last, pub, put>>
netVars  == <<set, site, defined, nodeHas>>
loadVars == <<stage, signs, mine, missing, counting, status>>
vars == <<app, pubVars, netVars, loadVars>>

Ended == {"done", "failed"}

TypeOK ==
  /\ app \in Apps /\ last \in {"none", "this", "other"}
  /\ pub \in {"idle", "starter", "defining", "sending", "waiting", "done", "failed"}
  /\ put \in {"none", "pieces", "published", "backed_up", "backup_abandoned", "refused", "superseded", "cancelled"}
  /\ set \subseteq Pieces /\ site \in BOOLEAN /\ defined \in BOOLEAN /\ nodeHas \in BOOLEAN
  /\ stage \in {"away", "files", "racing", "linking", "asking", "tree", "definition", "following",
                "opened", "mine", "mounting"} \cup Ended
  /\ signs \in BOOLEAN /\ mine \in BOOLEAN /\ missing \subseteq Pieces /\ counting \in BOOLEAN
  /\ status \in {"blank", "waiting", "loading", "connecting", "older", "reading", "failed", "ended", "componentless", "name"}

-----------------------------------------------------------------------------
(* What the starter and the pieces carry.                                  *)

RUNTIME_FILES ==
  {"runtime.js", "catalogue.js", "runtime-logic.js", "publish-state.js", "handoff.js", "definition.js", "app-code.js"}
PROVISIONING_FILES == {"signer.wasm", "block.wasm", "register.wasm", "site.wasm"}
STARTER_FILES == {"index.html", "loader.js", "decoder.wasm"}

\* sdkStarter, coreFiles, appBundleFiles: what runs before the SDK is the starter's alone.
BundleFiles == RUNTIME_FILES \cup (Modules \ Starter) \cup {"craftworks_sdk_bg.wasm", "webapp.wasm"} \cup PROVISIONING_FILES
StarterFiles == STARTER_FILES \cup Starter

\* packageStarter's refusals, of the manifest a build may hold: the four artefacts
\* named with their hashes, no other, the publishing tools in their shape, and the
\* starter's list; and of a file no app carries.
NAMED == {"sdk", "signer", "block", "register"}
PLATFORM == {"container", "webapp", "site", "modules", "starter", "decoder"}
Packs(manifest) ==
  /\ NAMED \subseteq manifest.named /\ manifest.named \ NAMED \subseteq PLATFORM
  /\ manifest.shaped /\ "starter" \in manifest.named

Manifests ==
  {[named |-> NAMED \cup PLATFORM \cup more, shaped |-> shaped] : more \in {{}, {"engine"}}, shaped \in BOOLEAN}
  \cup {[named |-> (NAMED \cup PLATFORM) \ {n}, shaped |-> TRUE] : n \in {"signer", "starter"}}

\* What a loader asks of the bundle by name, and what those modules import.
LoaderNeeds ==
  {"index.js", "artefacts.js", "runtime.js", "runtime-logic.js", "definition.js", "app-code.js",
   "craftworks_sdk_bg.wasm", "signer.wasm", "block.wasm", "register.wasm", "site.wasm", "webapp.wasm"}
Imports == {"catalogue.js", "publish-state.js", "handoff.js", "engine-db.js", "craftworks_sdk.js"}

\* The SDK's modules lie under sdk/ in a bundle, and are JavaScript: none is one of
\* the builder's own files or an artefact.
ASSUME NamesApart ==
  (Modules \cup Starter) \cap (RUNTIME_FILES \cup STARTER_FILES \cup PROVISIONING_FILES
                              \cup {"craftworks_sdk_bg.wasm", "webapp.wasm"}) = {}

-----------------------------------------------------------------------------
(* publishSite.                                                            *)

\* Mutant of SiteIsCurrent: whatever was published last in this tab.
SiteIsCurrent_Any(l) == l # "none"

\* The same starter at the same link on the same SDK: nothing is sent.
SiteIsCurrent(l) == l = "this"

Publish ==
  /\ pub \in {"idle", "done", "failed"} /\ pub' = "starter"
  /\ UNCHANGED <<app, last, put, netVars, loadVars>>

\* The starter is packaged, or refused by name.
Packaged(manifest) ==
  /\ pub = "starter"
  /\ pub' = IF ~Packs(manifest) THEN "failed" ELSE IF SiteIsCurrent(last) THEN "defining" ELSE "sending"
  /\ UNCHANGED <<app, last, put, netVars, loadVars>>

\* publishDefinition: the definition in one write; with a site, its pieces follow.
DefinitionPublished ==
  /\ pub \in {"defining", "sending"}
  /\ defined' = TRUE
  /\ IF pub = "defining" THEN pub' = "done" /\ UNCHANGED put
                         ELSE pub' = "waiting" /\ put' = "pieces"
  /\ UNCHANGED <<app, last, set, site, nodeHas, loadVars>>

PublishRefused ==
  /\ pub \in {"defining", "sending"} /\ pub' = "failed"
  /\ UNCHANGED <<app, last, put, netVars, loadVars>>

IsPublished(state) == state \in {"published", "backed_up", "backup_abandoned"}

\* The poll: published, or an end in its own words; else it is asked again.
Polled ==
  /\ pub = "waiting"
  /\ \/ IsPublished(put) /\ pub' = "done" /\ last' = "this"
     \/ put \in {"refused", "superseded", "cancelled"} /\ pub' = "failed" /\ UNCHANGED last
  /\ UNCHANGED <<app, put, netVars, loadVars>>

\* The network: pieces first, the site at K, the rest after; and every other end.
PieceStored(p) ==
  /\ put \in {"pieces", "published"} /\ p \notin set /\ set' = set \cup {p}
  /\ UNCHANGED <<app, pubVars, site, defined, nodeHas, loadVars>>

SiteStored ==
  /\ put = "pieces" /\ Cardinality(set) >= K
  /\ site' = TRUE /\ put' = "published"
  /\ UNCHANGED <<app, last, pub, set, defined, nodeHas, loadVars>>

PutEnds ==
  /\ \/ put = "pieces" /\ put' \in {"refused", "superseded", "cancelled"}
     \/ put = "published" /\ put' = IF set = Pieces THEN "backed_up" ELSE "backup_abandoned"
  /\ UNCHANGED <<app, last, pub, netVars, loadVars>>

\* The network forgets a piece, and never so many that no K are left.
PieceLost(p) ==
  /\ p \in set /\ Cardinality(set) > K /\ put \notin {"pieces", "published"}
  /\ set' = set \ {p}
  /\ UNCHANGED <<app, pubVars, site, defined, nodeHas, loadVars>>

NodeCatchesUp ==
  /\ defined /\ ~nodeHas /\ nodeHas' = TRUE
  /\ UNCHANGED <<app, pubVars, set, site, defined, loadVars>>

-----------------------------------------------------------------------------
(* The loader.                                                             *)

At(from, to, says) == stage = from /\ stage' = to /\ status' = says

Navigate ==
  /\ site /\ At("away", "files", "waiting")
  /\ UNCHANGED <<app, pubVars, netVars, signs, mine, missing, counting>>

FilesRead ==
  /\ At("files", "racing", "loading")
  /\ UNCHANGED <<app, pubVars, netVars, signs, mine, missing, counting>>

\* raceK: any K of the pieces; a piece it asked and did not get is missing.
Raced ==
  /\ Cardinality(set) >= K /\ At("racing", "linking", "loading")
  /\ \E asked \in SUBSET Pieces : missing' = asked \ set
  /\ UNCHANGED <<app, pubVars, netVars, signs, mine, counting>>

Fail == stage' = "failed" /\ status' = "failed"

\* linkModules, moduleOf, artefact, code: every file asked for by name is there, or
\* the load ends naming it; openPointer reads whose tree.
Linked ==
  /\ IF LoaderNeeds \subseteq BundleFiles THEN At("linking", "asking", "connecting") ELSE stage = "linking" /\ Fail
  /\ UNCHANGED <<app, pubVars, netVars, signs, mine, missing, counting>>

\* openPublished's `publisher` backend.
Backend(owner) == IF owner THEN "session" ELSE "view"

\* openAsked and canWrite(head): this node signs for the app's tree, or is asked
\* for a view of it.  An owner whose own tree does not open is said so.
Asked(owner, own) ==
  /\ signs' = owner
  /\ IF owner /\ ~own THEN stage = "asking" /\ Fail ELSE At("asking", "tree", "connecting")
  /\ UNCHANGED <<app, pubVars, netVars, mine, missing, counting>>

\* A read is rejected: of whether this node signs, of whose tree it is, or of the
\* definition in it, the first time (126) or beside the watch (135).
ReadRejected ==
  /\ stage \in {"asking", "tree", "definition", "following"} /\ Fail
  /\ UNCHANGED <<app, pubVars, netVars, signs, mine, missing, counting>>

TreeOpens ==
  /\ At("tree", "definition", "connecting")
  /\ UNCHANGED <<app, pubVars, netVars, signs, mine, missing, counting>>

\* What definition("app") answers: the owner's node has its own tree.
HasMeta == IF signs THEN defined ELSE nodeHas

\* Mutant of DefinitionRead's choice: what was read is taken as it is.
Opens_Empty(meta) == TRUE

Opens(meta) == meta

DefinitionRead ==
  /\ IF Opens(HasMeta) THEN At("definition", "opened", status) ELSE At("definition", "following", "older")
  /\ UNCHANGED <<app, pubVars, netVars, signs, mine, missing, counting>>

\* Mutant of Follows: the definition is not watched.
Follows_Not(meta) == FALSE

Follows(meta) == meta

\* watchDefinition: until an answer has its meta.
Followed ==
  /\ Follows(HasMeta) /\ At("following", "opened", status)
  /\ UNCHANGED <<app, pubVars, netVars, signs, mine, missing, counting>>

\* "Reading..." counts from here; repair goes on in the background.
Reading ==
  /\ counting' = TRUE
  /\ At("opened", IF app = "mine" THEN "mine" ELSE "mounting", "reading")
  /\ UNCHANGED <<app, pubVars, netVars, signs, mine, missing>>

\* openMine: the user's own tree opens, does not, or the question itself fails.
MineOpened(answer) ==
  /\ stage = "mine"
  /\ IF answer = "rejected" /\ ~signs THEN Fail ELSE stage' = "mounting" /\ UNCHANGED status
  /\ mine' = (signs \/ answer = "yes")
  /\ UNCHANGED <<app, pubVars, netVars, signs, missing, counting>>

StopsCounting(c) == FALSE

\* Mutant of FinalLine: nothing is said of an app that shows nothing.
FinalLine_Silent(ended) == IF ended THEN "ended" ELSE IF app = "empty" THEN "silent" ELSE "name"

\* An app with code of its own says what it will; one with no components is said so.
FinalLine(ended) ==
  IF ended THEN "ended" ELSE IF app = "code" THEN "blank" ELSE IF app = "empty" THEN "componentless" ELSE "name"

\* The app is mounted, or its own code started: the status names it, or what a
\* component could not read.
Mounted(ended) ==
  /\ app # "lostCode"
  /\ At("mounting", "done", FinalLine(ended))
  /\ counting' = StopsCounting(counting)
  /\ UNCHANGED <<app, pubVars, netVars, signs, mine, missing>>

MountFails ==
  /\ stage = "mounting" /\ Fail /\ counting' = StopsCounting(counting)
  /\ UNCHANGED <<app, pubVars, netVars, signs, mine, missing>>

Tick ==
  /\ counting /\ status # "reading" /\ status' = "reading"
  /\ UNCHANGED <<app, pubVars, netVars, stage, signs, mine, missing, counting>>

\* repairPieces: what was missing is put back, or refused and only logged.
Repaired(ok) ==
  /\ stage \in {"mine", "mounting"} \cup Ended /\ missing # {}
  /\ missing' = {} /\ set' = IF ok THEN set \cup missing ELSE set
  /\ UNCHANGED <<app, pubVars, site, defined, nodeHas, stage, signs, mine, counting, status>>

Reload ==
  /\ stage \in Ended /\ stage' = "away" /\ status' = "blank"
  /\ missing' = {} /\ mine' = FALSE /\ counting' = FALSE
  /\ UNCHANGED <<app, pubVars, netVars, signs>>

-----------------------------------------------------------------------------
Init ==
  /\ app \in Apps /\ last \in {"none", "other"}
  /\ pub = "idle" /\ put = "none"
  /\ set = {} /\ site = FALSE /\ defined = FALSE /\ nodeHas = FALSE
  /\ stage = "away" /\ signs = FALSE /\ mine = FALSE /\ missing = {} /\ counting = FALSE /\ status = "blank"

Loads ==
  \/ FilesRead \/ Raced \/ Linked \/ TreeOpens \/ DefinitionRead \/ Followed \/ Reading
  \/ \E owner, own \in BOOLEAN : Asked(owner, own)
  \/ \E answer \in {"yes", "no", "rejected"} : MineOpened(answer)
  \/ (\E ended \in BOOLEAN : Mounted(ended)) \/ MountFails

Next ==
  \/ Publish \/ (\E m \in Manifests : Packaged(m)) \/ DefinitionPublished \/ PublishRefused \/ Polled
  \/ (\E p \in Pieces : PieceStored(p) \/ PieceLost(p)) \/ SiteStored \/ PutEnds \/ NodeCatchesUp
  \/ Navigate \/ Loads \/ ReadRejected \/ Tick \/ (\E ok \in BOOLEAN : Repaired(ok)) \/ Reload

Spec == Init /\ [][Next]_vars

\* The loader's own steps go on, and a node in the end has the tree that was published.
FairSpec == Spec /\ WF_vars(Loads) /\ WF_vars(NodeCatchesUp)

-----------------------------------------------------------------------------
(* What it promises.                                                       *)

\* Every file a loader asks for by name, or that one of those imports, is in the
\* pieces the same build cut, and none of the starter's (publish-app.js:53-56,
\* loader.js:84-107).
PiecesHoldWhatLoads == LoaderNeeds \cup Imports \subseteq BundleFiles /\ StarterFiles \cap BundleFiles = {}

\* A link is handed out only once it opens: the site is there, enough of its
\* pieces are, they hold what a loader asks for, and its owner's tree has the
\* definition -- whatever this tab recorded as published before, another app's
\* included (publish-app.js:128-134, 150, 161).
LinkOpens == pub = "done" => site /\ defined /\ Cardinality(set) >= K /\ PiecesHoldWhatLoads

\* A loader mounts an app only from a definition that was published: an older tree
\* on the node is said and followed, never an empty page (loader.js:121-138).
MountsADefinition == stage \in {"opened", "mine", "mounting", "done"} => HasMeta

\* A load that ended well goes on saying so: no timer says "Reading" over it
\* (loader.js:164-196).
EndStaysSaid == stage = "done" => status # "reading"

\* The app's data takes writes only where its own node signs for it, and a user's
\* own data only in the user's own tree (runtime-logic.js:196-220).
WritesAreOwn == stage = "done" => (Backend(signs) = "session" <=> signs) /\ (signs /\ app = "mine" => mine)

\* A page that has the app on it has what the owner published, writes only where
\* it may, and says it is done.
DoneIsSo == MountsADefinition /\ EndStaysSaid /\ WritesAreOwn

\* What a reader's page is to the link.
Page ==
  CASE stage = "away" -> "closed" [] stage = "done" -> "app" [] stage = "failed" -> "reason"
    [] OTHER -> "loading"

\* The whole of it implements what a link promises: it is put up over a published
\* definition, handed out once it is up, and a load that began ends, at the app or
\* at a reason (publish-app.js:136-186, loader.js:47-200).
Promise == INSTANCE Link WITH
  published <- defined, up <- site, offered <- pub = "done", page <- Page

KeepsItsPromise == Promise!Spec

\* A load that failed goes on saying why: the status is the first thing a person
\* can send (loader.js:198-199).
FailureStaysSaid == stage = "failed" => status = "failed"
=============================================================================
