--------------------------- MODULE ProjectRuntime --------------------------
(***************************************************************************)
(* The runtime of one open project (project-runtime.js): the one session   *)
(* to the owner's tree and its retries, the mounts of the app on the       *)
(* canvas, the publish, and the dispose that ends them all.  Each of them  *)
(* is asynchronous and may complete after the world moved on.              *)
(*                                                                         *)
(* An open is one call of the SDK's opener, a mount one call of mountApp.  *)
(* The draft itself is the DraftWriter module's.                           *)
(***************************************************************************)
EXTENDS Naturals, FiniteSets

CONSTANTS
  Opens,         \* the opens of the owner's tree that may be made
  Mounts,        \* the mounts of the app that may be made
  Rows,          \* the records a person may make in Preview
  None,          \* no open, no mount; the backend of a mount that is a Preview
  MadeHere,      \* is the project made in this tab (`fresh`)?
  ReadFailures,  \* may a read of the tree fail once it is open?
  MaxGen         \* bound on the generations the page's edits and switches make

ASSUME ConstantsOK ==
  /\ None \notin Opens \cup Mounts
  /\ MadeHere \in BOOLEAN
  /\ ReadFailures \in BOOLEAN
  /\ MaxGen \in Nat

VARIABLES
  disposed,    \* was the project closed?
  gen,         \* the generation token: what began under another is disowned
  open,        \* what each open has come to
  session,     \* the open whose session this runtime owns, or None
  connecting,  \* the shared open: none, being opened, the draft being read, or rejected
  connection,  \* what the page is told of the connection
  retry,       \* is a retry of a failed open scheduled?
  loaded,      \* has the draft been read into the canvas (`draftLoaded`)?
  stage,       \* how far each mount is
  born,        \* the generation a mount began in
  backend,     \* the published database a mount is on, or None for a Preview
  mountState,  \* none, mounting or mounted
  mounted,     \* the adopted mount, or None
  reported,    \* the mount whose database was reported, or None
  shown,       \* the count of unsaved writes each mount shows
  saving,      \* that count, as the session last said
  phase,       \* what the Publish button is told
  publishing,  \* how far the publish is: idle, connecting, migrating, recording
  publishedDb, \* the session whose database was adopted, or None
  handed,      \* history: the opens to which a handoff was completed
  made,        \* the records a person made in each Preview
  scanned,     \* the records the handoff found in its source
  target       \* the records of Preview that are in the owner's tree

connVars  == <<open, session, connecting, connection, retry, loaded>>
mountVars == <<stage, born, backend, mountState, mounted, reported, shown>>
pubVars   == <<phase, publishing, publishedDb, handed, scanned, target>>
vars == <<disposed, gen, connVars, mountVars, saving, pubVars, made>>

TypeOK ==
  /\ disposed \in BOOLEAN
  /\ gen \in Nat
  /\ open \in [Opens -> {"unused", "opening", "provisioning", "open", "failed", "closed"}]
  /\ session \in {o \in Opens : open[o] = "open"} \cup {None}
  /\ connecting \in {"none", "opening", "attaching", "rejected"}
  /\ connection \in {"none", "connecting", "provisioning", "opening", "failed", "open"}
  /\ retry \in BOOLEAN
  /\ loaded \in BOOLEAN
  /\ stage \in [Mounts -> {"unused", "starting", "listening", "reported", "live",
                           "stopped", "leaked"}]
  /\ born \in [Mounts -> Nat]
  /\ backend \in [Mounts -> Opens \cup {None}]
  /\ mountState \in {"none", "mounting", "mounted"}
  /\ mounted \in Mounts \cup {None}
  /\ reported \in Mounts \cup {None}
  /\ shown \in [Mounts -> 0 .. 1]
  /\ saving \in 0 .. 1
  /\ phase \in {"idle", "connecting", "provisioning", "opening", "migrating", "published", "failed"}
  /\ publishing \in {"idle", "connecting", "migrating", "recording"}
  /\ publishedDb \in Opens \cup {None}
  /\ handed \in SUBSET Opens
  /\ made \in [Mounts -> SUBSET Rows]
  /\ scanned \in SUBSET Rows
  /\ target \in SUBSET Rows

-----------------------------------------------------------------------------
(* Generations.                                                            *)

\* Is what began in generation g still wanted?
Current(g) == ~disposed /\ g = gen
Alive(m) == Current(born[m])

\* The database the canvas is on (`rt.db`).
Db == IF mounted # None THEN mounted ELSE reported

\* Mutant of Disown: the generation stays, so a mount in flight is adopted.
Disown_SameGeneration ==
  /\ gen' = gen
  /\ stage' = [m \in Mounts |-> IF m = mounted THEN "stopped" ELSE stage[m]]
  /\ mounted' = None /\ reported' = None
  /\ mountState' = "none"

\* Whatever was begun is disowned and the adopted mount's listeners stop.
Disown ==
  /\ gen' = gen + 1
  /\ stage' = [m \in Mounts |-> IF m = mounted THEN "stopped" ELSE stage[m]]
  /\ mounted' = None /\ reported' = None
  /\ mountState' = "none"

\* The definition is edited, or its draft moved, or the preview is left.
Invalidate ==
  /\ ~disposed
  /\ gen < MaxGen
  /\ Disown
  /\ UNCHANGED <<disposed, connVars, born, backend, shown, saving, pubVars, made>>

-----------------------------------------------------------------------------
(* The connection to the owner's tree.                                     *)

\* Is the SDK still opening it: the socket, and then the node that is set up?
OnItsWay(o) == open[o] \in {"opening", "provisioning"}

\* Mutant of Reported: the Publish that waits is not told.
Reported_Alone(p) == connection' = (IF disposed THEN connection ELSE p) /\ UNCHANGED phase

\* How far the open got, told to the page and to the Publish that waits on it.
Reported(p) ==
  /\ connection' = IF disposed THEN connection ELSE p
  /\ phase' = IF publishing = "connecting" /\ ~disposed THEN p ELSE phase

\* Mutant of NoneOnItsWay: an open that is on its way is not joined.
NoneOnItsWay_Unasked == session = None

NoneOnItsWay == session = None /\ connecting = "none"

\* An open is begun when no session is owned and none is on its way.
Starts(o) ==
  /\ NoneOnItsWay /\ open[o] = "unused"
  /\ open' = [open EXCEPT ![o] = "opening"]
  /\ connecting' = "opening"
  /\ connection' = "connecting"
  /\ retry' = FALSE

\* The page connects when the project opens, and when Retry is pressed.
Connect(o) ==
  /\ ~disposed
  /\ Starts(o)
  /\ UNCHANGED <<disposed, gen, session, loaded, mountVars, saving, pubVars, made>>

\* The scheduled retry of a failed open.
RetryConnect(o) ==
  /\ retry
  /\ Connect(o)

\* A publish that waits on the connection ends with it.
PublishFails ==
  IF publishing = "connecting"
    THEN /\ publishing' = "idle"
         /\ phase' = IF disposed THEN phase ELSE "failed"
    ELSE UNCHANGED <<publishing, phase>>

Retries == retry' = ~disposed

\* An open ends without a session, of which none is left open: a retry is
\* scheduled.  The last open of Opens does not fail: failures are bounded by its size.
EndsFailed(o) ==
  /\ \E p \in Opens : open[p] = "unused"
  /\ open' = [open EXCEPT ![o] = "failed"]
  /\ connecting' = "none"
  /\ connection' = IF disposed THEN connection ELSE "failed"
  /\ Retries
  /\ PublishFails
  /\ UNCHANGED <<disposed, gen, session, loaded, mountVars, saving, publishedDb, handed,
                 scanned, target, made>>

\* Nothing is opened: no app id, no node of this project's own, no artefacts to set
\* it up with, or no node there.
OpenRefused(o) == open[o] = "opening" /\ EndsFailed(o)

\* The socket is open, and the node is being set up.
Provisions(o) ==
  /\ open[o] = "opening"
  /\ open' = [open EXCEPT ![o] = "provisioning"]
  /\ Reported("provisioning")
  /\ UNCHANGED <<disposed, gen, session, connecting, retry, loaded, mountVars, saving,
                 publishing, publishedDb, handed, scanned, target, made>>

\* The node refuses, or goes away.
OpenFails(o) == open[o] = "provisioning" /\ EndsFailed(o)

\* Mutant of HandedOver: a session that opens after the dispose is kept.
HandedOver_Always == "open"

\* A session that opens when its project is closed has no owner.
HandedOver == IF disposed THEN "closed" ELSE "open"

\* The session is handed over, and closed at once if the project is no longer open.
Opened(o) ==
  /\ open[o] = "provisioning"
  /\ open' = [open EXCEPT ![o] = HandedOver]
  /\ session' = IF disposed THEN session ELSE o
  /\ connecting' = IF disposed THEN "rejected" ELSE "attaching"
  /\ Reported("opening")
  /\ publishing' = IF disposed /\ publishing = "connecting" THEN "idle" ELSE publishing
  /\ UNCHANGED <<disposed, gen, retry, loaded, mountVars, saving, publishedDb, handed,
                 scanned, target, made>>

\* The draft is handed to the canvas once, and the page invalidates its mount.
HandsDraftOver ==
  /\ loaded' = TRUE
  /\ IF loaded THEN UNCHANGED <<gen, stage, mounted, reported, mountState>> ELSE Disown

\* The draft is read and written, and its watch registered.
DraftAttached ==
  /\ connecting = "attaching"
  /\ ~disposed
  /\ connecting' = "none"
  /\ connection' = "open"
  /\ HandsDraftOver
  /\ UNCHANGED <<disposed, open, session, retry, born, backend, shown, saving, pubVars, made>>

\* The draft cannot be read, or (once it is) its watch cannot be registered: the
\* promise of those who joined the open is rejected.  The session stays.
AttachFails ==
  /\ ReadFailures
  /\ connecting = "attaching"
  /\ ~disposed
  /\ connecting' = "rejected"
  /\ HandsDraftOver \/ UNCHANGED <<loaded, gen, stage, mounted, reported, mountState>>
  /\ PublishFails
  /\ UNCHANGED <<disposed, open, session, connection, retry, born, backend, shown, saving,
                 publishedDb, handed, scanned, target, made>>

\* The project was closed while its draft was being read.
AttachTooLate ==
  /\ connecting = "attaching"
  /\ disposed
  /\ connecting' = "rejected"
  /\ PublishFails
  /\ UNCHANGED <<disposed, gen, open, session, connection, retry, loaded, mountVars, saving,
                 publishedDb, handed, scanned, target, made>>

\* The session says how many writes are not published yet.
Saving(n) ==
  /\ ~disposed
  /\ \E o \in Opens : OnItsWay(o) \/ open[o] = "open"
  /\ n # saving
  /\ saving' = n
  /\ shown' = [m \in Mounts |-> IF m = mounted THEN n ELSE shown[m]]
  /\ UNCHANGED <<disposed, gen, connVars, stage, born, backend, mountState, mounted,
                 reported, pubVars, made>>

-----------------------------------------------------------------------------
(* The mounts (ensureMounted, and mountApp as it uses `alive`).            *)

\* Mutant of Backend: the app is mounted on the owner's tree as soon as it is open.
Backend_OfTheSession == session

\* The database a mount is given: the published one, or none for a Preview.
Backend == publishedDb

EnsureMounted(m) ==
  /\ ~disposed
  /\ mountState = "none"
  /\ stage[m] = "unused"
  /\ stage' = [stage EXCEPT ![m] = "starting"]
  /\ born' = [born EXCEPT ![m] = gen]
  /\ backend' = [backend EXCEPT ![m] = Backend]
  /\ mountState' = "mounting"
  /\ UNCHANGED <<disposed, gen, connVars, mounted, reported, shown, saving, pubVars, made>>

\* A mount that is no longer wanted stops wherever it looks.
MountDisowned(m) ==
  /\ stage[m] \in {"starting", "listening", "reported"}
  /\ ~Alive(m)
  /\ stage' = [stage EXCEPT ![m] = "stopped"]
  /\ UNCHANGED <<disposed, gen, connVars, born, backend, mountState, mounted, reported,
                 shown, saving, pubVars, made>>

\* The app's domains are open and its bindings are listened to.
MountListens(m) ==
  /\ stage[m] = "starting"
  /\ Alive(m)
  /\ stage' = [stage EXCEPT ![m] = "listening"]
  /\ UNCHANGED <<disposed, gen, connVars, born, backend, mountState, mounted, reported,
                 shown, saving, pubVars, made>>

\* The first page is read: the canvas is painted and the database reported.
MountReports(m) ==
  /\ stage[m] = "listening"
  /\ Alive(m)
  /\ stage' = [stage EXCEPT ![m] = "reported"]
  /\ reported' = m
  /\ UNCHANGED <<disposed, gen, connVars, born, backend, mountState, mounted, shown,
                 saving, pubVars, made>>

Told(m) == [shown EXCEPT ![m] = saving]

\* The mount's handle is adopted, and told the count as it stands now.
MountAdopted(m) ==
  /\ stage[m] = "reported"
  /\ Alive(m)
  /\ stage' = [stage EXCEPT ![m] = "live"]
  /\ mounted' = m
  /\ mountState' = "mounted"
  /\ shown' = Told(m)
  /\ UNCHANGED <<disposed, gen, connVars, born, backend, reported, saving, pubVars, made>>

\* A rejected mount that was still wanted may be tried again.
Freed(m) == IF Alive(m) THEN "none" ELSE mountState

\* The mount is rejected: an app that cannot be opened, before anything listens,
\* or a first page that cannot be read, whose listeners nobody has to stop.
MountRejected(m) ==
  /\ \/ stage[m] = "starting" /\ stage' = [stage EXCEPT ![m] = "stopped"]
     \/ ReadFailures /\ stage[m] = "listening" /\ stage' = [stage EXCEPT ![m] = "leaked"]
  /\ mountState' = Freed(m)
  /\ UNCHANGED <<disposed, gen, connVars, born, backend, mounted, reported, shown, saving,
                 pubVars, made>>

\* The person makes a record in the Preview on the canvas.
MakeRecord(r) ==
  /\ mounted # None
  /\ backend[mounted] = None
  /\ \A m \in Mounts : r \notin made[m]
  /\ made' = [made EXCEPT ![mounted] = @ \cup {r}]
  /\ UNCHANGED <<disposed, gen, connVars, mountVars, saving, pubVars>>

-----------------------------------------------------------------------------
(* The publish.                                                            *)

\* The records of the database on the canvas, if that is a Preview.
OnCanvas == IF Db # None /\ backend[Db] = None THEN made[Db] ELSE {}

\* The connection resolved: the handoff reads its source.
Migrates ==
  /\ publishing' = "migrating"
  /\ phase' = "migrating"
  /\ scanned' = OnCanvas

\* Publish is pressed (the button is enabled in these phases): a session that is
\* there is used, an open on its way joined, and otherwise one is begun.
Publish ==
  /\ ~disposed
  /\ phase \in {"idle", "failed"} /\ publishing = "idle"
  /\ \/ /\ session # None
        /\ Migrates
        /\ UNCHANGED connVars
     \/ /\ session = None
        /\ publishing' = "connecting"
        /\ IF connecting = "none"
             THEN /\ \E o \in Opens : Starts(o)
                  /\ phase' = "connecting" /\ UNCHANGED <<session, loaded>>
             ELSE phase' = connection /\ UNCHANGED connVars
        /\ UNCHANGED scanned
  /\ UNCHANGED <<disposed, gen, mountVars, saving, publishedDb, handed, target, made>>

\* The open this publish joined resolved.
PublishConnected ==
  /\ publishing = "connecting"
  /\ connecting = "none" /\ session # None
  /\ Migrates
  /\ UNCHANGED <<disposed, gen, connVars, mountVars, saving, publishedDb, handed, target, made>>

\* The handoff fails, some of the records copied: the preview stays in use.
HandoffFails ==
  /\ publishing = "migrating"
  /\ publishing' = "idle"
  /\ phase' = IF disposed THEN phase ELSE "failed"
  /\ \E some \in SUBSET scanned : target' = target \cup some
  /\ UNCHANGED <<disposed, gen, connVars, mountVars, saving, publishedDb, handed, scanned, made>>

\* Every copy is confirmed: the backend is adopted and the publish recorded.  A
\* project closed meanwhile records nothing.
HandoffDone ==
  /\ publishing = "migrating"
  /\ target' = target \cup scanned
  /\ IF disposed
       THEN /\ publishing' = "idle"
            /\ UNCHANGED <<publishedDb, handed>>
       ELSE /\ publishing' = "recording"
            /\ publishedDb' = session
            /\ handed' = handed \cup {session}
  /\ UNCHANGED <<disposed, gen, connVars, mountVars, saving, phase, scanned, made>>

\* Mutant of Remounts: the preview's mount is kept.
Remounts_Never == UNCHANGED <<gen, stage, mounted, reported, mountState>>

Remounts == Disown

\* The publish is recorded, or could not be: it is published either way, and the
\* next render mounts on the new backend.
Recorded ==
  /\ publishing = "recording"
  /\ publishing' = "idle"
  /\ IF disposed
       THEN UNCHANGED <<phase, gen, stage, mounted, reported, mountState>>
       ELSE phase' = "published" /\ Remounts
  /\ UNCHANGED <<disposed, connVars, born, backend, shown, saving, publishedDb, handed,
                 scanned, target, made>>

-----------------------------------------------------------------------------
\* Mutant of Closes: the closed session is still owned.
Closes_StillOwned ==
  /\ open' = [o \in Opens |-> IF o = session THEN "closed" ELSE open[o]]
  /\ session' = session

Closes ==
  /\ open' = [o \in Opens |-> IF o = session THEN "closed" ELSE open[o]]
  /\ session' = None

\* The project is closed: nothing it started may act after this.
Dispose ==
  /\ ~disposed
  /\ disposed' = TRUE
  /\ Disown
  /\ retry' = FALSE
  /\ Closes
  /\ publishedDb' = None
  /\ saving' = 0
  /\ UNCHANGED <<connecting, connection, loaded, born, backend, shown, phase, publishing,
                 handed, made, scanned, target>>

Init ==
  /\ disposed = FALSE
  /\ gen = 0
  /\ open = [o \in Opens |-> "unused"]
  /\ session = None
  /\ connecting = "none" /\ connection = "none" /\ retry = FALSE
  /\ loaded = MadeHere
  /\ stage = [m \in Mounts |-> "unused"]
  /\ born = [m \in Mounts |-> 0]
  /\ backend = [m \in Mounts |-> None]
  /\ mountState = "none" /\ mounted = None /\ reported = None
  /\ shown = [m \in Mounts |-> 0]
  /\ saving = 0
  /\ phase = "idle" /\ publishing = "idle"
  /\ publishedDb = None /\ handed = {}
  /\ made = [m \in Mounts |-> {}]
  /\ scanned = {} /\ target = {}

Next ==
  \/ \E o \in Opens : Connect(o) \/ RetryConnect(o) \/ OpenRefused(o) \/ Provisions(o) \/ OpenFails(o) \/ Opened(o)
  \/ DraftAttached \/ AttachFails \/ AttachTooLate
  \/ \E n \in 0 .. 1 : Saving(n)
  \/ \E m \in Mounts :
       \/ EnsureMounted(m) \/ MountDisowned(m) \/ MountListens(m)
       \/ MountReports(m) \/ MountAdopted(m) \/ MountRejected(m)
  \/ \E r \in Rows : MakeRecord(r)
  \/ Publish \/ PublishConnected \/ HandoffFails \/ HandoffDone \/ Recorded
  \/ Invalidate \/ Dispose

Spec == Init /\ [][Next]_vars

\* Timers fire, and what was asked of the SDK ends in an answer (it ends every
\* open and every write itself).  Whether to open, preview, publish, edit or
\* close is the person's.
Fairness ==
  /\ WF_vars(\E o \in Opens : RetryConnect(o))
  /\ WF_vars(\E o \in Opens : OpenRefused(o) \/ Provisions(o) \/ OpenFails(o) \/ Opened(o))
  /\ WF_vars(DraftAttached \/ AttachFails \/ AttachTooLate)
  /\ \A m \in Mounts :
       WF_vars(MountDisowned(m) \/ MountListens(m) \/ MountReports(m) \/ MountAdopted(m)
                 \/ MountRejected(m))
  /\ WF_vars(PublishConnected \/ HandoffFails \/ HandoffDone \/ Recorded)

FairSpec == Spec /\ Fairness

-----------------------------------------------------------------------------
(* What the runtime promises.                                              *)

\* A Publish, a retry and the page's own connect share one open: at most one
\* session is open or being opened, no retry waits beside it, and a closed
\* project owns neither (`connect`, `dispose`).
OneSession ==
  /\ Cardinality({o \in Opens : OnItsWay(o) \/ open[o] = "open"}) <= 1
  /\ retry => \A o \in Opens : ~OnItsWay(o) /\ open[o] # "open"
  /\ disposed => ~retry /\ \A o \in Opens : open[o] # "open"

\* Does the mount repaint the canvas when its data changes?
Paints(m) == stage[m] \in {"listening", "reported", "live", "leaked"} /\ Alive(m)

\* While a Publish waits on the one open, whoever began it, its button says how far
\* that open got (`connect`'s report).
WaitIsSaid ==
  publishing = "connecting" /\ ~disposed =>
    phase = connection \/ (phase = "opening" /\ connection = "open")

\* A mount that finished is the adopted one, of this generation, or was stopped:
\* no completion of an older generation is adopted (`ensureMounted`, `invalidate`).
NoStaleMount ==
  /\ \A m \in Mounts : stage[m] = "live" => m = mounted
  /\ mounted # None => Alive(mounted) /\ stage[mounted] = "live"
  /\ mounted # None <=> mountState = "mounted"

\* One mount at a time repaints the canvas.
OneMountPaints == Cardinality({m \in Mounts : Paints(m)}) <= 1

\* The canvas is never on a backend to which the Preview's records were not all
\* handed over: a failed handoff leaves the Preview in use (`publish`).
NeverHalfCopied ==
  \A m \in Mounts : Paints(m) /\ backend[m] # None => backend[m] \in handed

\* Once the button says Published, what the canvas shows is the published
\* database, and that is the owned session's.
PublishedIsShown ==
  phase = "published" /\ ~disposed =>
    /\ publishedDb = session /\ session \in handed
    /\ \A m \in Mounts : Paints(m) => backend[m] = publishedDb

\* The mount on the canvas shows the session's count of unsaved writes as it
\* stands, whichever of the two came first.
SavingIsShown == mounted # None => shown[mounted] = saving

\* What is said of a thing that moves by itself, the open and the unsaved writes, is
\* where it stands: neither is told only once.
SaidIsSo == WaitIsSaid /\ SavingIsShown

\* The page is told of a connection that failed, and it is tried again ("the runtime
\* retries", app.js:168, 184).  It is where `publish` throws (project-runtime.js:160-170),
\* and not where the draft is read or watched (177-188).
RejectedIsRetried ==
  ~disposed /\ connecting = "rejected" => connection = "failed" /\ retry

\* A publish goes on only when the connection it joined has the draft.
PublishWaitsForDraft ==
  publishing \in {"migrating", "recording"} /\ ~disposed => loaded

\* The records made in Preview are in the published tree when the button comes to
\* say Published and the Preview is let go.
PreviewIsHandedOver ==
  [][phase # "published" /\ phase' = "published" => OnCanvas \subseteq target']_vars

\* A tree asked for is opened in the end, however many opens fail, unless the
\* project is closed.
OpensInTheEnd ==
  (connection # "none") ~> (connection = "open" \/ disposed)

\* After a project is closed, every session it asked for comes to be closed.
SessionsEnd ==
  disposed ~> (\A o \in Opens : ~OnItsWay(o) /\ open[o] # "open")

\* A mount ends mounted or ready to be tried again; the preview is never dead.
MountsEnd == (mountState = "mounting") ~> (mountState # "mounting")

\* Whatever the runtime began ends: the open, the sessions of a closed project, and
\* every mount (`connect`, `dispose`, `ensureMounted`).
WhatIsBegunEnds == OpensInTheEnd /\ SessionsEnd /\ MountsEnd

=============================================================================
