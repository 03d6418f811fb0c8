# The builder, specified

TLA+ models of the builder: how a person edits a project's definition and what the
page shows of it, how the definition becomes records of its owner's tree, who owns
an open project's session and mounts, what a mount shows of a domain, what Publish
owes the records made before it, what the app's link promises and how it is opened,
and what the versions panel and the Assets tab say. TLC checks the models on small
instances; TLAPS proves the results under "What is proved" for every value of the
constants.

    tlc -workers 2 -config MCDraftWriter_tabs.cfg MCDraftWriter.tla
    tlapm ProjectRuntime_proofs.tla

## The system

The builder is a page. A person composes components on a canvas, previews the
app on an in-memory database, and publishes it. The app's definition lives as
records (one per component, one per data domain, one `meta`) of a *draft* in the
person's own tree, which the SDK keeps on their node and merges between tabs and
devices. A published app is a site at one link, a starter that fetches the rest in
pieces, and a definition in its owner's tree. The SDK is not part of this
repository: it is modelled from how the code here uses it, and marked external in
`PROJECT.json`.

| Part | Source | State | Operations | Module |
|---|---|---|---|---|
| Draft writer | `definition.js` | `base`, `want`, the running pass, the refusal | `sync`, `attach`, `rebase`, `pass`, `kick`, `dispose` | `DraftWriter` |
| Project runtime | `project-runtime.js` | generation, mounts, the session and the one open, retry, publish phase, published backend, unsaved count | `connect`, `edit`, `applyDraft`, `ensureMounted`, `invalidate`, `publish`, `dispose` | `ProjectRuntime` |
| Publish opener | `publish.js` | the phase of one open | `publish` | `ProjectRuntime` |
| Handoff | `handoff.js` | per run: the plan, the rows to confirm, those read saved | `handoff`, `previewDb`, `tracker`, `roomFor`, `settled` | `Handoff` |
| Mounted app | `runtime.js`, `runtime-logic.js` | bindings, rows past the page, the row being edited, writes under way | `mountApp`, Show more, forms, Edit, Delete | `PagedView` |
| Page | `app.js` | the open project, what was asked of it, what was published, the button | open, switch, stamp, publish, put on network, publish changes | `Page` |
| Projects | `projects-panel.js`, `project-list.js`, `projects.js`, `storage.js` | the list, what the device had open | create, choose, open the newest | `Page` |
| Words | `publish-state.js`, `app.js` | none | a row's state, the button, the save line, the address note | `PublishState` |
| Design view, catalogue | `app.js`, `catalogue.js`, `runtime-logic.js` | the definition, the selection, what each panel shows | add, select, edit, remove, clear, Preview, another tab's draft | `Designer` |
| Site publish, packaging | `publish-app.js`, `package-app.js`, `builder-files.js` | the last site put | `publishSite`, `packageStarter` | `Published` |
| App loader | `app-loader/loader.js`, `runtime-logic.js` | the step of the load, the status line | open by address, follow, mount, repair | `Published` |
| Versions | `versions.js`, `project-versions.js`, `versions-panel.js` | none | comparisons, the stamp, the panel, the upgrade bar | `Versions`, `Panels` |
| Assets repair | `assets.js`, `assets-panel.js` | the pass of each opening of the tab | check, repair, cancel | `Panels` |
| Tree root, traces, build, tools | `tree-stats.js`, `trace-view.js`, scripts | none, or tooling | | not modelled |

How they interact. The page owns one runtime per open project. `connect` opens
the owner's tree through the opener, hands its database to the writer
(`attach`), gives the draft to the canvas (`onDraft`) and registers a watch whose
callback rebases the writer. Every edit of the page ends in `save`, which calls
`rt.edit`, which calls `sync`. A render calls `ensureMounted`; an edit calls
`invalidate`. Publish joins the one open, runs the handoff from the database on
the canvas into the owner's tree, adopts that tree as the backend and remounts;
then the page puts the app on the network.

What is hard here: everything is a promise on one thread, so each `await` is a
place where another tab, the person or the node may act; several tabs of one
person edit one draft and publish into one target; the node may roll back an
accepted write, refuse one, be out of room, be behind, or be away; a project may
be closed or switched at any of these points; and each handler paints the panels
it thinks it changed. `PROJECT.json` lists the hazards with their lines.

## The modules

| Module | What it models | Composes with |
|---|---|---|
| `DraftWriter` | `draftWriter` in every tab that may open the project, the attach / watch / rebase part of `connect`, the draft in the tree | the runtime's connect, seen as `Attach` and `Watch` |
| `ProjectRuntime` | `createProjectRuntime`, the phases of the opener, the life of `mountApp` | the handoff, seen as `HandoffDone` / `HandoffFails` |
| `Handoff` | `handoff` in every tab that may publish into one target | |
| `PagedView` | one mount: its bindings, reads and writes | the runtime, seen as `Disowned` |
| `PublishState` | what the page's wordings claim | extended by `Page` |
| `Page` | the page over its runtimes, the list and the owner's tree | the runtime, seen as `rt`'s five fields |
| `Designer` | the design view's handlers and panels | the runtime's mounts, seen as `mount`; the writer, seen as `handed` |
| `Link` | abstract: what an app's one link promises | |
| `Published` | publish at the link and the loader; implements `Link` | `INSTANCE Link` |
| `Versions` | the comparisons of builds, stamps and epochs | extended by `Panels` |
| `Panels` | the versions panel, the upgrade bar, the Assets tab | |
| `..._proofs` | the theorems of the module they are named after, and their proofs | extend it |
| `MC...` | the values of the runs | extend the module they check |

Each `.cfg` gives the constants their values and nothing else. A definition
preceded by "Mutant of" is no part of a specification: it is the bug that the
property named in `PROJECT.json` catches.

### DraftWriter

A record's body is the number of the edit that wrote it and `Absent` (0) is a key
with no record, so two bodies are equal exactly when they are the same edit's:
`canonical` never sees two spellings. `canvas[t]` stands for both the page's `app`
and the writer's `want`, because every edit of the page ends in `save`; `said[t]`
tells whether `want` is null. `base`, `error` are the writer's variables.
`pass[t]` is its loop: `sent` (awaiting a door, the write not yet in the tree's
order), `landed` (in it, the promise not yet resolved), `ending` (the async
function returned, `running` still set: the `.catch().finally()` chain takes some
microtasks), `idle`.

`shared[t]` is the aliasing of the code: after an open, the schema object of the
canvas is the very object in the base's body (`appOf`, `recordsOf` and
`new Map(held)` copy no body), and the page's schema editor changes it in place. An
edit of such a key changes the base with it.

Actions: `Edit` (the page's change and its sync; a component's add or remove changes
the meta's order in the same sync), `Retry` (the button), `Attach`, `Watch`,
`Dispose`, `Reopen`; `Land`, `Refuse` (the SDK's doors), `Answer`, `EndPass`;
`Reread` (the SDK's watch reads the draft) and `Deliver` (its callback: `rebase`,
`onDraft`, and in the same turn the page's possible stamp of the meta).

`mine` and `missed` are history: the last body this tab's person gave each key, and
whether a head move came between this tab's read and its watch.

`InOrder` says that a tab hears the answers to its own writes and its re-reads in the
order these happened. It is an assumption about the SDK's engine, which runs the
doors and the watch of a tab on one connection; every run sets it. A write accepted
and later lost by the node is not modelled here.

### ProjectRuntime

The closure's variables one for one, with three merged or renamed: `connecting` is
the shared promise and where it is; `open[o]` what each call of the opener came to;
`stage[m]` how far each call of `mountApp` is (`starting` up to the subscriptions at
runtime.js:204, `listening` while the first page is read, `reported` once it has
painted and told the page its database, `live` when its handle is adopted, `leaked`
when it was rejected with its listeners registered). `born[m]` is the generation it
captured. `publishing` is where a publish awaits. A record made in Preview belongs
to the database of the mount it was made on.

An open is refused by name before anything opens (`OpenRefused`: no app id, no node
of this project's own, no artefacts, no node there), provisions its node
(`Provisions`), fails then (`OpenFails`), or is handed over (`Opened`). `Reported` is
the reporter of `connect` (lines 149-155), which writes the connection and, while a
Publish waits, its button. A failed open is retried by `RetryConnect`, whose doubling
wait is not modelled; the last open of `Opens` can only succeed, which bounds the
failures. One publish runs at a time because the button is disabled in its working
phases (`buttonFor`). The refusal of a publish without its callbacks cannot be reached
from the page and is left out.

### Handoff

A copy's slot is a function of its source (`slotFrom`), so a Preview is written as
what it holds at each slot of the target: a seed row at its place, any other row at
a place of its own. All publishers see one target; a write is accepted at once
(`pending`) and later saved or rolled back to what was confirmed before it. `Room`
bounds the writes not confirmed, whoever made them. The plan is read in one step.
The order in which domains and rows are copied is left open; a domain's deletes come
after its copies. `createAt` is `Create` or `Found`, with the `update` that may follow
a step of its own (`fixing`). `Report`, `WaitForRoom` and `Settle` are the tracker's
polls: the first judges nothing, the others fail the handoff on a lost row.
`SettleMarkers` is the second tracker. Slot collisions, the counts behind the notice
and cancelling (which the page does not offer) are left out.

### PagedView

One mount over one domain that others write. A record is its id, ids grow with time,
a page is a set of ids, and the domain's `version` counts its changes. Components that
read alike share a binding (`BindingOf`). `snap` is what each binding last read,
`beyond` the rows asked for past its page, `reads` the reloads on their way (answered
in the order they were asked: an assumption about the SDK), `scans` the answers to
Show more. A write is `Save`, then `Saved` or `Refused`; a delete `Delete`, then
`Deleted`; each accepted one is `changed`: it reloads every binding one after another
(`Continues`), and every answer, whoever asked, resets what was read past the page and
renders (`Reloaded`). `Notice` is the SDK telling a live binding. `ReloadFails` rejects
one reload, which ends its refresh. `Disowned` is the runtime's `alive` turning false.
`stitched`, `own` and `failed` are history.

### Page and PublishState

A runtime is its number (`run`), and what belongs to one carries it (`mine`). `boot`
says what has arrived and where the start is; `rt` is what the page reads of the runtime
(loaded, pending, connection, phase, error; `joined`: does a caller of `connectTree`
wait on the open); `questions` are the "was it published?" under way, `puts` the calls
of `putOnNetwork`. The actions are `Start`, `OpenNewestOrCreate`, `Choose`, `New` /
`Created` (New and Duplicate), `Reload`; the arrivals (`BakedArrives`, `SdkArrives`,
`SdkFails`, `ListOpens`, `ListLost`, `TreeOpens`, `OpenFails`, `Retry`, `RetryUnread`,
`Answered`, `ChangedAnswered`); the person's `Edit`, `AcceptUpgrade`, `Publish`,
`PublishChanges`; and `Lands`, `HandedOver`, `HandoffFails`, `PutEnds`. `PutEnds` writes
into whatever project is open then, as the code does. `asking` is the question of
`refreshChanged`: it holds edits ("held"), asks the tree, or was asked by another
runtime ("stale"). A question that is rejected changes nothing and is not asked again.

An open has three ends, here as in `ProjectRuntime`: open; failed, which the runtime
retries; or its session there and its draft not read, which nobody retries: `rt.conn` is
then "unread" (Publish and the person's Retry take the session as it is), and of the
list's runtime `boot.list` is "lost" for the rest of the load, as it is when the SDK
cannot be loaded. `boot.start` is "failed" when the listing that `openNewestOrCreate`
awaits was rejected. One stamp stands for the versions a project carries: the earlier
build's, or now's.

`PublishState` is the wordings as claims: `rowState`, `tone`, `durable`, `buttonFor`,
`saveLine`, `addrNote`.

### Designer

`components` and `schemas` are the definition, each component with the identity of its
object (`id`): a handler edits the object its panel was painted for. `canvas`, `tree`,
`map`, `panel`, `def` are what each panel shows, and each handler paints exactly the
panels the code paints: `EditedTo` is the common invalidate, save, render; `SetDomain`
paints all but the properties under the typing; `SetMode` does not remount;
`SchemaEdited` leaves the canvas; `renderProps` declares a schema by being painted, and
the next save hands it over. `mapping` and `treeView` are the catalogue's, a claimed
path being a range or a Set and whether it is the domain's. `MountEnds` is the runtime's
mount, adopted or rejected.

### Published and Link

`Published` is the publish (`Publish`, `Packaged`, `DefinitionPublished`, `Polled`, with
`last`, the record of what this tab put), the network (`PieceStored`, `SiteStored`,
`PutEnds`, `PieceLost`, `NodeCatchesUp`) and the loader's steps, each with the status it
says: files, `Raced` (any `K` pieces), `Linked`, `Asked` (does this node sign for the
app's tree), `TreeOpens`, `DefinitionRead`, `Followed`, `Reading`, `MineOpened`,
`ReadRejected` (any of these questions rejected, which ends the load at a reason),
`Mounted` / `MountFails`, and beside them `Tick`, the counting timer, and `Repaired`.
What the starter and the pieces carry, what the loader asks for by name and what those
files import are sets of names; `Packs` is `packageStarter`'s refusals.

`Link` is what an app's link promises, in four variables and eight actions: it goes up
over a published definition, is offered once it is up, and a page that began to load
ends at the app or at a reason. `Published` implements it under

    published <- defined, up <- site, offered <- (pub = "done"),
    page <- closed / loading / app / reason, by the loader's stage

and TLC checks `Promise!Spec`, its liveness included, as the property `KeepsItsPromise`.
Steps of pieces, of packaging and of the loader's middle are stutters.

### Versions and Panels

A revision is its first six digits, the rest, its length and whether its tree was
modified; a contract's hash is a number; `released` is the table of epochs. `model` is
all the panel says. `Panels` paints it (`Refresh`) and the upgrade bar (`OfferUpgrade`)
in each handler as the code does, over every order of build-info, SDK, open and draft.

Each opening of the Assets tab is a `mount` with its row and its pass: `Started`,
`PageOpens`, `PutBack`, `PassReports`, `PassFails`, `Cancel`; a pass goes on when its
tab is closed. The node loses blocks of one group, any `K` of which rebuild the rest.

## The runs

| Run | Instance | Distinct states | What it shows |
|---|---|---|---|
| `tabs` | two tabs, a component, a schema, the meta, stamps, opening and closing | 2.55 M | `TypeOK`, `OnlyOwnEdits`, `NeverSilentlyStale` |
| `draft_live` | refusals, failed re-reads, one tab making the project | 111 131 | `OnlyOwnEdits`; under fairness `HeldIsWritten`, `Converges` |
| `safety` | two opens, three mounts, a record, reads that fail | 1.84 M | `TypeOK`, `OneSession`, `NoStaleMount`, `NeverHalfCopied`, `PublishedIsShown`, `SaidIsSo` |
| `runtime_live` | two opens, two mounts, only the open can fail | 205 036 | `OneMountPaints`; under fairness `WhatIsBegunEnds` |
| `handoff` | one publisher, two domains of a seed and a row, two losses, two edits, a reload | 667 556 | `TypeOK`, `SettledIsThePreview`, `DoneIsLive`, `LiveIsCreateOnly`; under fairness `HandoffEnds` |
| `paged` | a form, a table, a live list; one write at a time beside others' | 2.24 M | `TypeOK`, `AllShownIsAll`, `OwnWritesAreShown`; under fairness `LiveFollows` |
| `page` | one project made and published before, one to be made, two openings per load | 2.32 M | `TypeOK`, `WordsHold`, `StampedOnce`; under fairness `StartsSomewhere` |
| `published` | three pieces of which two suffice, five kinds of app | 42 080 | `TypeOK`, `LinkOpens`, `DoneIsSo`; under fairness `KeepsItsPromise` |
| `panels` | three builds, five SDKs, two stamps; two openings of the tab, two blocks | 656 224 | `TypeOK`, `PaintedIsCurrent`, `VerdictsHold`, `PagesAreClosed`, `OnlyWhatWasAsked` |
| `designer` | two types, three domains, two components, two drafts, six steps | 378 293 | `TypeOK`, `PanelsShowIt`, `MountedIsCurrent`, `EditsAreKept` |
| `aliased`, `unsaid` | | | two disagreements with the documentation, below |

Several of these are conjunctions whose parts have names and comments of their own:
`SaidIsSo` is `WaitIsSaid` and `SavingIsShown`; `WhatIsBegunEnds` is `OpensInTheEnd`,
`SessionsEnd` and `MountsEnd`; `WordsHold` is `PublishedIsDerived`, `OnlySavedIsSaid`
and `HeldIsSaid`; `StampedOnce` is `NeverRestamped` and `StampedWhenKnown`; `LinkOpens`
has `PiecesHoldWhatLoads` in it; `DoneIsSo` is `MountsADefinition`, `EndStaysSaid` and
`WritesAreOwn`; `PaintedIsCurrent`, `VerdictsHold`, `OnlyWhatWasAsked`, `PanelsShowIt`
and `EditsAreKept` likewise.

Deadlock is not checked: people may stop editing, and the bounds end the edits.

Bounds, and why they are enough.

- *DraftWriter*: two tabs show every interleaving of one tab with "the others", one key
  of each kind every kind of body, and two edits after the initial one let one tab hold
  an edit while the other's lands. What three tabs add is said under "Limits".
- *ProjectRuntime*: two opens give a failure and its retry; three mounts a stale one, a
  Preview and a published one; two generations bound edits (`MaxGen` guards
  `Invalidate`, not the hand-over of a draft, a publish or a dispose).
- *Handoff*: two losses let the write of a retry be lost too; two edits one change
  between attempts and one by a user of the live app; room for two of four rows makes
  every handoff wait.
- *PagedView*: a page of one row and two records make a full page, a short one and a row
  past it; three changes let one come while the refresh of another is under way
  (`MaxVersion` counts everyone's); one answer to Show more at a time, since two are two
  pages each asked of what was painted; one operation of the person beside the mount's
  own first refresh and others' writes.
- *Page*: two projects are the open one and the one before; two openings let an answer
  come under another runtime; a reload starts the count anew. One put at a time
  (`MaxPuts`). The tree has a project, so what the start makes of an empty list is seen
  with `MadeEarlier = PublishedOnes = {}`, `MaxRuns = 3` and `MaxPuts = 0`, where
  `StartsSomewhere` holds too, and with three projects, one of them with no stamp.
- *Published*: two of three pieces give a piece lost, missing, repaired or never put. The
  loader, the publish and the network need no other bound.
- *Panels*: `MCPanels` chooses the builds and reports that tell apart every verdict: no
  build-info, released and not, an epoch that carries a contract over; an SDK that is the
  pinned revision, it modified, another one, one that agrees in six digits, one that
  cannot name itself. Two openings of the tab let a pass outlive its own.
- *Designer*: `MaxSteps` bounds the person's steps; six are more than any handler's
  effect needs to cross another's (another tab's draft, a selection, Preview, an edit, a
  mount, a switch). Two components are needed for a selection to move.

Fairness. Weak fairness of a program's own continuations: JavaScript runs every settled
promise's reactions and every timer. Of the SDK: each write, read and open ends in an
answer ("the SDK ends every write within its one budget", handoff.js:273; `publish`
closes what it opened and throws). None of any action of a person, none that a refusal,
a failure or a loss happens or does not: `OpenRefused`, `Provisions`, `OpenFails` and
`Opened`, `HandoffFails \/ HandoffDone`, `Saved`, `Refused` and `Deleted`, and `Node`
are fair as a choice. `PagedView` adds that a live binding is told (`Notice`), `Page` of
the SDK, the list and its listing only that they end, one way or the other (`Arrives`,
`Load`; no open need ever succeed), `Published` that a node in the end has the tree that
was published (`NodeCatchesUp`), and that the loader's steps go on (`Loads`), which a
load waiting in `following` leaves to the node.

## What is proved

Each module that runs check has its theorems in a module of its own. They hold for
every value of the constants that the module's `ConstantsOK` (in `Published` also
`NamesApart`) admits, and TLC evaluates those assumptions in every run. Every
invariant and step property of the passing runs is stated by a theorem; the hypotheses
some of them have are given here, and each is one that TLC shows to be needed.

| Theorem | Property | Hypothesis |
|---|---|---|
| `TypeCorrect` of every module | `TypeOK` | |
| `DraftWriter`: `TabsFollowTheTree` | `NeverSilentlyStale` | `InOrder` |
| `WhatIsHeldIsOwn` | `OnlyOwnEdits` | `InOrder`, `[]NoneRemoved(Keys)` |
| `SchemasAndMetaAreOwn` | `OnlyOwnEdits` of the schemas and the meta | `InOrder` |
| `ProjectRuntime`: `TheyShareOneOpen` | `OneSession` | |
| `AdoptedIsCurrent` | `NoStaleMount` | |
| `NoHandoffNoBackend` | `NeverHalfCopied` | |
| `PublishedIsWhatPaints` | `PublishedIsShown` | |
| `WhatMovesIsSaid` | `SaidIsSo` | |
| `OneMountAtATime` | `OneMountPaints` | `~ReadFailures` |
| `Handoff`: `WhatIsDoneIsLive` | `DoneIsLive` | |
| `WhatSettlesIsThePreview` | `SettledIsThePreview` | `[]OneAtATime` |
| `ALiveDomainIsCreatedInto` | `LiveIsCreateOnly` | `[]OneAtATime` |
| `PagedView`: `AllIsAll` | `AllShownIsAll` | |
| `OwnWritesAreSeen` | `OwnWritesAreShown` | |
| `Page`: `AStampStands` | `StampedOnce` | |
| `WhatIsSaidIsSo` | `WordsHold` | |
| `Designer`: `EveryPanelShowsIt` | `PanelsShowIt` | |
| `NoOlderApp` | `MountedIsCurrent` | |
| `NoEditIsLost` | `EditsAreKept` | |
| `Published`: `AHandedOutLinkOpens` | `LinkOpens` | |
| `APageThatIsDoneIsSo` | `DoneIsSo` | |
| `PublishedImplementsLink` | `Promise!Safety`: `KeepsItsPromise` without its liveness | |
| `Panels`: `WhatIsPaintedIsCurrent` | `PaintedIsCurrent` | |
| `VerdictsAreEarned` | `VerdictsHold` | `EpochsInOrder` |
| `APassClosesItsPage` | `PagesAreClosed` | |
| `APassKeepsToWhatWasAsked` | `OnlyWhatWasAsked` | |

The argument is the same in all: an inductive invariant `IInv`, true initially and
kept by each action, from which the property follows. TLC checked each `IInv` on the
module's instance before it was proved. What each adds to the properties, and why it
is needed:

- *DraftWriter*. `NeverSilentlyStale` speaks of quiet tabs only. `UpToDate` says of
  every tab that a writer not yet told a canvas writes nothing (`ToldBeforeItWrites`);
  that a tab which watches and whose write landed still has that head move to re-read
  when the door answers (`HearsItsOwnWrites`); and that, when no head move is to come
  and none was missed, the base is the tree's draft, or will be when the re-read under
  way is handed over or the landed write is answered (`BaseIsTree`). `InOrder` is what
  makes the re-read and the answer come in the order they happened.
  `OnlyOwnEdits` needs more, which `OwnInv` adds: a body is the number of the edit that
  made it, so no body is of an edit still to come (`BodiesAreMade`), and until its write
  lands nobody but the tab has the body it holds, nor does the tree or the re-read on
  its way (`Own`); a write that landed is answered before the next re-read is handed
  over (`AnsweredFirst`). A removal has no number, every tab may show it, and with
  removals the property is false (see "Limits"): so it is proved of behaviours in which
  nobody's last word on a record is its removal (`NoneRemoved`), and, of the schemas and
  the meta, which nobody removes, of all behaviours, whatever is removed besides.
- *ProjectRuntime*. `OneSession` does not say who may still open one: `OneOpen` adds
  that what is on its way is what `connecting` stands for, and that a retry waits only
  when neither it nor a session is there. `OneMount`: of the current generation at most
  one mount is under way. `HandedOverFirst` ties each backend to the handoff before it,
  and a publish that goes on to the session it goes on with. `WaitsForOne` says that
  the Publish that waits has an open to wait for. With `ReadFailures` a rejected mount
  leaves its listeners, so `OneMountPaints` is proved without them (see "Limits").
- *Handoff*. `DoneIsLive` needs `PlansAllStand` only, which no other tab can disturb: what a
  publisher confirms and deletes is what it planned, and it goes on to the markers only
  when nothing is left to copy and all it confirms was read saved. What the copies hold
  (`CopiesAllHold`) survives a loss, a reload and a new attempt, but not a second
  handoff at the same time, which writes the same slots: so `SettledIsThePreview` and
  `LiveIsCreateOnly` are proved of publishers that take turns (`OneAtATime`: any number
  of tabs, no two handoffs under way at once). With two at once both are false.
- *PagedView*. A read of a page and a scan from its last row are sets; the lemmas say
  that a page is the first of the domain (`Prefix`), that a short one is all of it, and
  that a page and the scan after its last row are again the first rows. `InOrder`: reads
  are answered in the order they were made, so a binding never goes back. `OwnAwaited`:
  a binding not read since the person's last write is still to be, by a read on its
  way or by a refresh that has it left. `PagesFollow`: what is shown past a page goes on from it,
  unless a change crossed the scan.
- *Page*. `AskedOfItsOwn`: a question asked by the runtime that is still there is about
  the project that is open, which is what lets an answer be believed. `PublishedHolds`
  and `StampStands` relate what the page holds to the tree, and to the stamp the
  project came with. The newest of the projects exists because there are finitely many.
- *Designer*. Its properties are inductive together, with `OnlyInPreview` (a mount is
  adopted or on its way in Preview only) and the type of each component; `ConstantsOK`
  says that a draft another tab wrote is one this page could have made.
- *Published*. `UpOverADefinition`: each stage of a publish and each site on the network
  follows a published definition, and the pieces it names. `LoadsInOrder`: what each
  stage of a load has already read. That the pieces hold what a loader asks for is a fact
  of the lists (`TheListsAgree`), given `NamesApart`: no module of the SDK's bundle has
  the name of one of the builder's files. The refinement has one step per action, each
  a step of `Link` or a stutter.
- *Panels*. `HalvesCome`: no part is offered before both halves are known, which is why
  `OfferUpgrade` may leave the bar alone while one is missing. The verdicts follow from
  what is painted and the comparisons' lemmas (`VerifiedAgrees`, `CodeStateIsEarned`).
  `codeState` takes the last epoch of the table that holds a hash for the latest, so
  that "superseded" is earned only if the table has its epochs in order
  (`EpochsInOrder`): `released.toml` is not of this repository, and nothing in it sorts
  the table. "Current" and "verified" need no such order.

Only model-checked: `OnlyOwnEdits` of two tabs that remove components (false of three,
below); everything under fairness (`HeldIsWritten`, `Converges`, `WhatIsBegunEnds`,
`HandoffEnds`, `LiveFollows`, `StartsSomewhere`, and the liveness of `KeepsItsPromise`),
which is out of the prover's reach.

## Where the code and its documentation disagree

Two are runs TLC ends with a counterexample; `PROJECT.json` quotes their lines.

- `aliased`: the schema editor changes the object the writer's base also holds, so a
  schema edit made on an opened project is not written.
- `unsaid`: a publish whose app could not be put on the network keeps the reason where
  the published phase never shows it (app.js:471); "so it is reported" (575-577).

The others are stated in the modules, each a property no run checks, and shown by
the constants given (those not given are as in the module's run).

- `HeldIsWritten` (`DraftWriter`, `FairSpec`; `Components = {}`, `Meta = {m}`,
  `Stamps = TRUE`, no refusals): a sync in the microtasks between the pass's return and
  `running = null` starts no pass. The page does that when it stamps the meta of a
  handed-over draft.
- `CanvasFollowsDraft` (`DraftWriter`; no schemas, `Components = {c1}`, `Meta = {m}`,
  `Stamps = FALSE`): the draft's watch is registered after the draft was read and the
  first pass written; a head move between is heard by nobody (project-runtime.js:177-188),
  while "every head move that changes it ... re-reads it" (183-185).
- `RejectedIsRetried` (`ProjectRuntime`; `Opens = {o1, o2}`, `Mounts = {m1}`,
  `Rows = {}`, `ReadFailures = TRUE`, `MaxGen = 1`): a draft that cannot be read, or
  watched, once the session is open is not tried again, and the connection is not said to
  have failed; "the runtime retries" (app.js:168, 184). `Page` has what follows for the
  page: `ListLost` and "unread".
- `PublishWaitsForDraft` (`ProjectRuntime`; `Opens = {o1, o2}`, `Mounts = {m1}`,
  `Rows = {}`, `ReadFailures = FALSE`, `MaxGen = 1`): `connect` answers with the
  session before the draft was read.
- `PreviewIsHandedOver` (`Opens = {o1}`, `Mounts = {m1, m2}`, `Rows = {r1}`,
  `MadeHere = TRUE`, `ReadFailures = FALSE`, `MaxGen = 1`): a record made in Preview
  during the handoff, or while the publish is recorded, is let go with the Preview.
- `LiveIsCreateOnly` with two publishers (`Handoff`; one domain of one seed place,
  `MaxLosses = 0`, `MaxReloads = 0`): whether a domain is live is read once; two tabs
  publishing at once update and seed a live domain.
- `NeverStitched` (`PagedView`): "Back to the first page is honest; a stitched-together
  one is not" (runtime.js), but an answer to Show more that comes after a change reset
  the binding is added to the rows read before its await (293). A view may then say it
  shows all with a row missing between. `AllShownIsAll` excepts such a page.
- `FailureStaysSaid` (`Published`): a load that is rejected between loader.js:170 and
  186 is outside the try whose finally stops the timer, which goes on writing
  "Reading…" over the reason.
- `CancelIsSaid` (`Panels`): a pass cancelled while its page opens should end in the
  SDK's own cancelled word (assets.js:69-71), but the report it resolves with names no
  list of outcomes (77): `treeRow` throws at 43-44, and the row says "not checked".
- `PreviewIsAlive` (`Designer`): a schema edit in Preview stops the mount (app.js:770)
  and paints nothing; the dead app stays on the canvas until something else renders.

## Limits of the properties

Each exception in a property marks something that does happen; change the
constants and TLC shows it. So do the modules with what follows, which no document of
the code promises to be otherwise.

*DraftWriter*
- `OnlyOwnEdits` with `Tabs = {a, b, c}`, `Components = {c1}`, no meta and `MaxEdits = 4`
  is violated: while a tab's delete of a record is in flight it hears another tab's
  delete, then a third's newer body; the delete's answer takes the key out of the base
  the rebase installed, and the tab writes back a body its person never gave.
- `OnlyOwnEdits` excepts the tab a project was made in: attaching late, it deletes what
  other tabs wrote before.

*ProjectRuntime*
- `OneMountPaints` with `ReadFailures = TRUE` is violated: a mount whose first page cannot
  be read is rejected with its listeners registered, and nobody has a handle to
  stop them.

*Handoff*
- It waits for its copies and markers, never for its deletes: one rolled back
  later leaves the row published. And a row the node confirmed that another tab
  deletes before the handoff first reads it is counted lost, and fails the publish.
- A completed handoff says nothing of a domain that a second publisher touched
  meanwhile: `SettledIsThePreview` is checked for one publisher, and proved of any
  number whose handoffs do not overlap.

*PagedView*
- A save that ends closes whichever edit is open then (runtime.js:261). Add pressed twice
  makes two rows (250; two of `Ops`), and Delete is as little guarded (271). A refused save writes its
  reason into a box a render may have detached (211, 253-258), and what was typed in a
  form goes with a render; neither text is modelled.
- One domain, and reads answered in the order they were asked.

*Page*
- `StartsSomewhere` excepts a page that starts nowhere (`StartsNowhere`), and without
  either part of the exception it is violated. The list's runtime does not retry a read
  or a watch of its draft that was rejected after its session was set, so that
  `whenListOpen` is never called (project-runtime.js:177-188, app.js:181); nor is it
  without an SDK (app.js:401), which the page does say. And `openNewestOrCreate` awaits
  `listProjects` with no catch (projects-panel.js:140; 62 and 94 have one) and is called
  with none, once (app.js:305). Where the device remembers no project, nothing is then
  open until the person presses New, chooses a project (not of a lost list, which offers
  none) or loads the page again; of a lost list the panel goes on saying that it waits
  for the node.
- What goes on between a session and the read of its draft is `ProjectRuntime`'s: here a
  Publish that joined the open fails with it, or goes on after it. A watch that is
  rejected after the draft was handed over is `ProjectRuntime`'s too.
- `OpenNewestOrCreate` opens the newest over a project the person opened while the list
  was waited for (app.js:305, projects-panel.js:138).
- Duplicate reads what it forks from after its await, and copies an empty canvas where
  the draft is not read yet (projects-panel.js:106-107); what a duplicate copies is not
  modelled. A switch disposes the runtime with whatever edits it still held.
- Only the first connect's promise asks whether the project was published (app.js:160).
  When that open fails and the runtime's own retry succeeds, nobody asks.
- A change that comes while the difference with the published definition is being asked
  is dropped (215), and a put that ends clears `changed` over an edit made while it ran
  (497): Publish changes is then refused until the next answer.
- `putOnNetwork` records what it put into the project open when it ends (489-507);
  `republishing` and `republishError` are the page's, and cross a switch (521-525).
- One tab per tree; the other tabs' edits are `DraftWriter`'s.

*Panels*
- The app's own blocks are never given to the versions panel to be checked. The bar and
  the section say no drift while the SDK is not loaded. `codeState` takes the last epoch
  that holds a hash and `releaseLabel` the first, so the two may name different ones;
  and with a table that is not in the order of its numbers, `codeState` calls superseded
  what the newest epoch still has (`VerdictsHold` is violated).
- A tab closed and opened again during a pass has two passes; the tab stays open over a
  switch with the new project's name beside the old one's tree (app.js:871). `drift` skips
  a part that one side does not name.

*Designer*
- A domain typed while the schema editor is open leaves the editor on the schema of the
  domain before (729, 764). Every re-read of the draft resets the selection. A default
  schema declared by rendering reaches the writer at the next save, so `EditsAreHanded`
  and `PanelsPainted` allow a default where none was declared.

*Published*
- One app and one link; the publish of a second is `last = "other"`.

## Not modelled

The SDK but for what the code sees of it. Rendering, wording and layout but for what a
property is about: hover and highlighting, the row counts (app.js:229), display formats,
the texts typed into forms. The tree's root line and the trace view render one answer of
the SDK and keep no state whose order matters. The hashing and cutting of bytes in
packaging, the wait between retries. The build scripts, the server and the acceptance
tools of `tools/`, which drive the system and are no part of it. The components with
status `partly` or `not_modelled` in `PROJECT.json` say what is missing.

## Plan

Done: `DraftWriter`, `ProjectRuntime`, `Handoff`, `PagedView`, `Page` with
`PublishState`, `Designer`, `Published` over `Link`, `Versions` with `Panels`, each with
its theorems. Left: the hazards no property covers yet, which `PROJECT.json` gives with
their reasons.
