----------------------- MODULE ProjectRuntime_proofs -----------------------
(***************************************************************************)
(* Proofs about one open project's runtime, for any number of opens,       *)
(* mounts, records and generations: what the runs check on a small         *)
(* instance.  One inductive invariant, in four parts, answers for all.     *)
(***************************************************************************)
EXTENDS ProjectRuntime, FiniteSetTheorems, TLAPS

(***************************************************************************)
(* The inductive invariant.                                                *)
(***************************************************************************)

\* The one open: what is open is the session, what is on its way is what
\* `connecting` stands for, and a retry waits only when neither is.
OneOpen ==
  /\ \A o \in Opens : open[o] = "open" => o = session
  /\ \A o \in Opens : OnItsWay(o) => connecting = "opening"
  /\ \A o, p \in Opens : OnItsWay(o) /\ OnItsWay(p) => o = p
  /\ connecting = "opening" => session = None
  /\ retry => session = None /\ connecting = "none" /\ ~disposed
  /\ disposed => session = None

\* Has the mount not come to an end?
UnderWay(m) == stage[m] \in {"starting", "listening", "reported"}

\* The mounts: none is of a later generation, and of this one at most one is under
\* way, which is what the runtime says it is mounting.
OneMount ==
  /\ NoStaleMount
  /\ \A m \in Mounts : born[m] <= gen
  /\ \A m \in Mounts : UnderWay(m) /\ Alive(m) => mountState = "mounting"
  /\ \A m, n \in Mounts : UnderWay(m) /\ Alive(m) /\ UnderWay(n) /\ Alive(n) => m = n

\* May the mount still paint, now or later?
MayPaint(m) == (UnderWay(m) \/ stage[m] \in {"live", "leaked"}) /\ Alive(m)

\* The backends: each was handed over in full, a publish that goes on has the
\* session it goes on with, and one that is over has mounted nothing else.
HandedOverFirst ==
  /\ \A m \in Mounts : backend[m] # None => backend[m] \in handed
  /\ publishedDb # None => publishedDb \in handed
  /\ ~disposed /\ publishing = "migrating" => session # None
  /\ ~disposed /\ publishing = "recording" => session # None /\ publishedDb = session
  /\ ~disposed /\ phase = "published" =>
       /\ publishing = "idle" /\ session # None /\ publishedDb = session
       /\ \A m \in Mounts : MayPaint(m) => backend[m] = publishedDb

\* The publish that waits: there is an open to wait for, and what it is told is
\* what the page is told.
WaitsForOne ==
  /\ ~disposed /\ connecting = "opening" => connection \in {"connecting", "provisioning"}
  /\ ~disposed /\ connecting = "attaching" => session # None /\ connection = "opening"
  /\ ~disposed /\ connecting = "rejected" => session # None
  /\ ~disposed /\ publishing = "connecting" =>
       connecting \in {"opening", "attaching"} \/ (connecting = "none" /\ session # None)
  /\ WaitIsSaid

IInv == TypeOK /\ OneOpen /\ OneMount /\ HandedOverFirst /\ WaitsForOne /\ SavingIsShown
(***************************************************************************)
(* Type correctness.                                                       *)
(***************************************************************************)

LEMMA InitTypeOK == Init => TypeOK
<1> SUFFICES ASSUME Init PROVE TypeOK
  OBVIOUS
<1>1. loaded \in BOOLEAN
  BY ConstantsOK DEF Init
<1>2. /\ open \in [Opens -> {"unused", "opening", "provisioning", "open", "failed", "closed"}]
      /\ stage \in [Mounts -> {"unused", "starting", "listening", "reported", "live",
                               "stopped", "leaked"}]
      /\ born \in [Mounts -> Nat] /\ shown \in [Mounts -> 0 .. 1]
      /\ backend \in [Mounts -> Opens \cup {None}] /\ made \in [Mounts -> SUBSET Rows]
  BY DEF Init
<1>3. disposed \in BOOLEAN /\ retry \in BOOLEAN
  BY DEF Init
<1>4. /\ gen \in Nat /\ session = None /\ mounted = None /\ reported = None /\ publishedDb = None
      /\ connecting = "none" /\ connection = "none" /\ mountState = "none" /\ saving \in 0 .. 1
      /\ phase = "idle" /\ publishing = "idle" /\ handed = {} /\ scanned = {} /\ target = {}
  BY DEF Init
<1> QED
  BY <1>1, <1>2, <1>3, <1>4 DEF TypeOK

\* A disown keeps the mounts well typed.
LEMMA DisownType ==
  ASSUME TypeOK, Disown
  PROVE  /\ gen' \in Nat
         /\ stage' \in [Mounts -> {"unused", "starting", "listening", "reported", "live",
                                  "stopped", "leaked"}]
         /\ mountState' \in {"none", "mounting", "mounted"}
         /\ mounted' \in Mounts \cup {None} /\ reported' \in Mounts \cup {None}
BY DEF TypeOK, Disown

\* An open that is begun keeps the connection well typed.
LEMMA StartsType ==
  ASSUME TypeOK, NEW o \in Opens, Starts(o)
  PROVE  /\ open' \in [Opens -> {"unused", "opening", "provisioning", "open", "failed", "closed"}]
         /\ connecting' \in {"none", "opening", "attaching", "rejected"}
         /\ connection' \in {"none", "connecting", "provisioning", "opening", "failed", "open"}
         /\ retry' \in BOOLEAN
         /\ session = None
BY DEF TypeOK, Starts, NoneOnItsWay

LEMMA NextTypeOK == IInv /\ [Next]_vars => TypeOK'
<1> SUFFICES ASSUME IInv, [Next]_vars PROVE TypeOK'
  OBVIOUS
<1> USE DEF connVars, mountVars, pubVars
<1>0. TypeOK /\ OneOpen
  BY DEF IInv
<1>1. ASSUME NEW o \in Opens, Connect(o) PROVE TypeOK'
  BY <1>0, <1>1, StartsType DEF Connect, TypeOK
<1>2. ASSUME NEW o \in Opens, OnItsWay(o), EndsFailed(o) PROVE TypeOK'
  BY <1>0, <1>2 DEF EndsFailed, OnItsWay, Retries, PublishFails, TypeOK
<1>3. ASSUME NEW o \in Opens, Provisions(o) PROVE TypeOK'
  BY <1>0, <1>3 DEF Provisions, Reported, TypeOK
<1>4. ASSUME NEW o \in Opens, Opened(o) PROVE TypeOK'
  BY <1>0, <1>4 DEF Opened, HandedOver, Reported, OneOpen, OnItsWay, TypeOK
<1>5. ASSUME DraftAttached PROVE TypeOK'
  BY <1>0, <1>5, DisownType DEF DraftAttached, HandsDraftOver, TypeOK
<1>6. ASSUME AttachFails PROVE TypeOK'
  <2>1. /\ loaded' \in BOOLEAN /\ gen' \in Nat
        /\ stage' \in [Mounts -> {"unused", "starting", "listening", "reported", "live",
                                 "stopped", "leaked"}]
        /\ mountState' \in {"none", "mounting", "mounted"}
        /\ mounted' \in Mounts \cup {None} /\ reported' \in Mounts \cup {None}
    BY <1>0, <1>6, DisownType DEF AttachFails, HandsDraftOver, TypeOK
  <2>2. /\ publishing' \in {"idle", "connecting", "migrating", "recording"}
        /\ phase' \in {"idle", "connecting", "provisioning", "opening", "migrating",
                       "published", "failed"}
    BY <1>0, <1>6 DEF AttachFails, PublishFails, TypeOK
  <2>3. connecting' = "rejected"
    BY <1>6 DEF AttachFails
  <2>4. UNCHANGED <<disposed, open, session, connection, retry, born, backend, shown, saving,
                    publishedDb, handed, scanned, target, made>>
    BY <1>6 DEF AttachFails
  <2> QED
    BY <1>0, <2>1, <2>2, <2>3, <2>4 DEF TypeOK
<1>7. ASSUME AttachTooLate PROVE TypeOK'
  BY <1>0, <1>7 DEF AttachTooLate, PublishFails, TypeOK
<1>8. ASSUME NEW n \in 0 .. 1, Saving(n) PROVE TypeOK'
  BY <1>0, <1>8 DEF Saving, TypeOK
<1>9. ASSUME NEW m \in Mounts, EnsureMounted(m) PROVE TypeOK'
  BY <1>0, <1>9 DEF EnsureMounted, Backend, TypeOK
<1>10. ASSUME NEW m \in Mounts, MountDisowned(m) PROVE TypeOK'
  BY <1>0, <1>10 DEF MountDisowned, TypeOK
<1>11. ASSUME NEW m \in Mounts, MountListens(m) PROVE TypeOK'
  BY <1>0, <1>11 DEF MountListens, TypeOK
<1>12. ASSUME NEW m \in Mounts, MountReports(m) PROVE TypeOK'
  BY <1>0, <1>12 DEF MountReports, TypeOK
<1>13. ASSUME NEW m \in Mounts, MountAdopted(m) PROVE TypeOK'
  BY <1>0, <1>13 DEF MountAdopted, Told, TypeOK
<1>14. ASSUME NEW m \in Mounts, MountRejected(m) PROVE TypeOK'
  BY <1>0, <1>14 DEF MountRejected, Freed, TypeOK
<1>15. ASSUME NEW r \in Rows, MakeRecord(r) PROVE TypeOK'
  BY <1>0, <1>15 DEF MakeRecord, TypeOK
<1>16. ASSUME Publish PROVE TypeOK'
  <2>1. UNCHANGED <<disposed, gen, mountVars, saving, publishedDb, handed, target, made>>
    BY <1>16 DEF Publish
  <2>2. OnCanvas \in SUBSET Rows
    BY <1>0 DEF OnCanvas, Db, TypeOK
  <2>3. CASE session # None /\ Migrates /\ UNCHANGED connVars
    BY <1>0, <2>1, <2>2, <2>3 DEF Migrates, TypeOK
  <2>4. ASSUME publishing' = "connecting", NEW o \in Opens, Starts(o), phase' = "connecting",
               UNCHANGED <<session, loaded, scanned>>
        PROVE  TypeOK'
    BY <1>0, <2>1, <2>4, StartsType DEF TypeOK
  <2>5. CASE /\ session = None /\ connecting # "none" /\ publishing' = "connecting" /\ phase' = connection
             /\ UNCHANGED <<connVars, scanned>>
    <3>1. phase' \in {"idle", "connecting", "provisioning", "opening", "migrating", "published",
                     "failed"}
      BY <1>0, <1>16, <2>5 DEF Publish, IInv, WaitsForOne, TypeOK
    <3> QED
      BY <1>0, <2>1, <2>5, <3>1 DEF TypeOK
  <2> QED
    BY <1>16, <2>3, <2>4, <2>5 DEF Publish
<1>17. ASSUME PublishConnected PROVE TypeOK'
  BY <1>0, <1>17 DEF PublishConnected, Migrates, OnCanvas, Db, TypeOK
<1>18. ASSUME HandoffFails PROVE TypeOK'
  BY <1>0, <1>18 DEF HandoffFails, TypeOK
<1>19. ASSUME HandoffDone PROVE TypeOK'
  BY <1>0, <1>19 DEF HandoffDone, HandedOverFirst, IInv, TypeOK
<1>20. ASSUME Recorded PROVE TypeOK'
  BY <1>0, <1>20, DisownType DEF Recorded, Remounts, TypeOK
<1>21. ASSUME Invalidate PROVE TypeOK'
  BY <1>0, <1>21, DisownType DEF Invalidate, TypeOK
<1>22. ASSUME Dispose PROVE TypeOK'
  <2>1. /\ gen' \in Nat
        /\ stage' \in [Mounts -> {"unused", "starting", "listening", "reported", "live",
                                 "stopped", "leaked"}]
        /\ mountState' \in {"none", "mounting", "mounted"}
        /\ mounted' \in Mounts \cup {None} /\ reported' \in Mounts \cup {None}
    BY <1>0, <1>22, DisownType DEF Dispose
  <2>2. open' \in [Opens -> {"unused", "opening", "provisioning", "open", "failed", "closed"}]
    BY <1>0, <1>22 DEF Dispose, Closes, TypeOK
  <2>3. session' = None /\ publishedDb' = None /\ saving' = 0
    BY <1>22 DEF Dispose, Closes
  <2>4. disposed' \in BOOLEAN /\ retry' \in BOOLEAN
    BY <1>22 DEF Dispose
  <2>5. UNCHANGED <<connecting, connection, loaded, born, backend, shown, phase, publishing,
                    handed, made, scanned, target>>
    BY <1>22 DEF Dispose
  <2> QED
    BY <1>0, <2>1, <2>2, <2>3, <2>4, <2>5 DEF TypeOK
<1>23. CASE UNCHANGED vars
  BY <1>0, <1>23 DEF vars, TypeOK
<1> QED
  BY <1>1, <1>2, <1>3, <1>4, <1>5, <1>6, <1>7, <1>8, <1>9, <1>10, <1>11, <1>12, <1>13, <1>14, <1>15, <1>16, <1>17, <1>18, <1>19, <1>20, <1>21, <1>22, <1>23 DEF Next, RetryConnect, OpenRefused, OpenFails, OnItsWay

(***************************************************************************)
(* The connection.                                                         *)
(***************************************************************************)

LEMMA NextOneOpen == IInv /\ [Next]_vars => OneOpen'
<1> SUFFICES ASSUME IInv, [Next]_vars PROVE OneOpen'
  OBVIOUS
<1> USE DEF connVars, OnItsWay
<1>0. TypeOK /\ OneOpen
  BY DEF IInv
<1>1. ASSUME NEW o \in Opens, Starts(o), UNCHANGED session, ~disposed' PROVE OneOpen'
  BY <1>0, <1>1 DEF Starts, NoneOnItsWay, OneOpen, TypeOK
<1>2. ASSUME NEW o \in Opens, Connect(o) PROVE OneOpen'
  BY <1>1, <1>2 DEF Connect
<1>3. ASSUME NEW o \in Opens, OnItsWay(o), EndsFailed(o) PROVE OneOpen'
  BY <1>0, <1>3 DEF EndsFailed, Retries, OneOpen, TypeOK
<1>4. ASSUME NEW o \in Opens, Provisions(o) PROVE OneOpen'
  BY <1>0, <1>4 DEF Provisions, OneOpen, TypeOK
<1>5. ASSUME NEW o \in Opens, Opened(o) PROVE OneOpen'
  BY <1>0, <1>5, ConstantsOK DEF Opened, HandedOver, OneOpen, TypeOK
<1>6. CASE DraftAttached \/ AttachFails \/ AttachTooLate
  BY <1>0, <1>6 DEF DraftAttached, AttachFails, AttachTooLate, OneOpen, TypeOK
<1>7. CASE Publish
  BY <1>0, <1>1, <1>7 DEF Publish, OneOpen
<1>8. CASE Dispose
  BY <1>0, <1>8, ConstantsOK DEF Dispose, Closes, OneOpen, TypeOK
<1>9. CASE UNCHANGED <<disposed, open, session, connecting, retry>>
  BY <1>0, <1>9 DEF OneOpen
<1>10. ASSUME NEW n \in 0 .. 1, Saving(n) PROVE OneOpen'
  BY <1>9, <1>10 DEF Saving
<1>11. ASSUME NEW m \in Mounts,
              EnsureMounted(m) \/ MountDisowned(m) \/ MountListens(m) \/ MountReports(m)
                 \/ MountAdopted(m) \/ MountRejected(m)
       PROVE  OneOpen'
  BY <1>9, <1>11 DEF EnsureMounted, MountDisowned, MountListens, MountReports, MountAdopted, MountRejected
<1>12. ASSUME NEW r \in Rows, MakeRecord(r) PROVE OneOpen'
  BY <1>9, <1>12 DEF MakeRecord
<1>13. CASE PublishConnected \/ HandoffFails \/ HandoffDone \/ Recorded
  BY <1>9, <1>13 DEF PublishConnected, HandoffFails, HandoffDone, Recorded
<1>14. CASE Invalidate \/ UNCHANGED vars
  BY <1>9, <1>14 DEF Invalidate, vars
<1> QED
  BY <1>2, <1>3, <1>4, <1>5, <1>6, <1>7, <1>8, <1>10, <1>11, <1>12, <1>13, <1>14
  DEF Next, RetryConnect, OpenRefused, OpenFails

(***************************************************************************)
(* The mounts.                                                             *)
(***************************************************************************)

\* What is disowned is current no more: no mount is under way or live after it.
LEMMA DisownsEveryMount ==
  ASSUME TypeOK, OneMount, Disown, UNCHANGED born
  PROVE  OneMount' /\ \A m \in Mounts : ~Alive(m)'
<1>1. \A m \in Mounts : ~Alive(m)'
  BY DEF OneMount, Disown, Alive, Current, TypeOK
<1>2. NoStaleMount'
  BY <1>1 DEF OneMount, Disown, NoStaleMount, TypeOK
<1>3. \A m \in Mounts : born'[m] <= gen'
  BY DEF OneMount, Disown, TypeOK
<1> QED
  BY <1>1, <1>2, <1>3 DEF OneMount

LEMMA NextOneMount == IInv /\ [Next]_vars => OneMount'
<1> SUFFICES ASSUME IInv, [Next]_vars PROVE OneMount'
  OBVIOUS
<1> USE DEF connVars, mountVars, pubVars
<1>0. TypeOK /\ OneMount
  BY DEF IInv
<1>1. CASE Disown /\ UNCHANGED born
  BY <1>0, <1>1, DisownsEveryMount
<1>2. CASE UNCHANGED <<disposed, gen, stage, born, mountState, mounted>>
  BY <1>0, <1>2 DEF OneMount, NoStaleMount, UnderWay, Alive, Current
<1> USE DEF UnderWay, Alive, Current
<1>3. ASSUME NEW m \in Mounts, EnsureMounted(m) PROVE OneMount'
  BY <1>0, <1>3 DEF EnsureMounted, OneMount, NoStaleMount, TypeOK
<1>4. ASSUME NEW m \in Mounts, MountDisowned(m) PROVE OneMount'
  BY <1>0, <1>4 DEF MountDisowned, OneMount, NoStaleMount, TypeOK
<1>5. ASSUME NEW m \in Mounts, MountListens(m) \/ MountReports(m) PROVE OneMount'
  BY <1>0, <1>5 DEF MountListens, MountReports, OneMount, NoStaleMount, TypeOK
<1>6. ASSUME NEW m \in Mounts, MountAdopted(m) PROVE OneMount'
  BY <1>0, <1>6, ConstantsOK DEF MountAdopted, OneMount, NoStaleMount, TypeOK
<1>7. ASSUME NEW m \in Mounts, MountRejected(m) PROVE OneMount'
  BY <1>0, <1>7 DEF MountRejected, Freed, OneMount, NoStaleMount, TypeOK
<1>8. CASE DraftAttached \/ AttachFails
  BY <1>0, <1>1, <1>2, <1>8 DEF DraftAttached, AttachFails, HandsDraftOver
<1>9. CASE Recorded \/ Invalidate
  BY <1>1, <1>2, <1>9 DEF Recorded, Remounts, Invalidate
<1>10. CASE Dispose
  BY <1>1, <1>10 DEF Dispose
<1>11. ASSUME NEW o \in Opens, Connect(o) \/ EndsFailed(o) \/ Provisions(o) \/ Opened(o)
       PROVE  OneMount'
  BY <1>2, <1>11 DEF Connect, EndsFailed, Provisions, Opened
<1>12. ASSUME NEW n \in 0 .. 1, Saving(n) PROVE OneMount'
  BY <1>2, <1>12 DEF Saving
<1>13. ASSUME NEW r \in Rows, MakeRecord(r) PROVE OneMount'
  BY <1>2, <1>13 DEF MakeRecord
<1>14. CASE \/ AttachTooLate \/ Publish \/ PublishConnected \/ HandoffFails \/ HandoffDone
            \/ UNCHANGED vars
  BY <1>2, <1>14 DEF AttachTooLate, Publish, PublishConnected, HandoffFails, HandoffDone, vars
<1> QED
  BY <1>3, <1>4, <1>5, <1>6, <1>7, <1>8, <1>9, <1>10, <1>11, <1>12, <1>13, <1>14
  DEF Next, RetryConnect, OpenRefused, OpenFails

(***************************************************************************)
(* The backends and the publish.                                           *)
(***************************************************************************)

\* After a disown no mount may paint: what is published mounts on its own backend.
LEMMA DisownsEveryBackend ==
  ASSUME IInv, Disown,
         UNCHANGED <<disposed, born, backend, handed, publishedDb, publishing, phase, session>>
  PROVE  HandedOverFirst'
<1>1. \A m \in Mounts : ~Alive(m)'
  BY DisownsEveryMount DEF IInv
<1> QED
  BY <1>1 DEF IInv, HandedOverFirst, MayPaint

LEMMA NextHandedOverFirst == IInv /\ [Next]_vars => HandedOverFirst'
<1> SUFFICES ASSUME IInv, [Next]_vars PROVE HandedOverFirst'
  OBVIOUS
<1> USE DEF connVars, mountVars, pubVars
<1>0. TypeOK /\ OneOpen /\ OneMount /\ HandedOverFirst
  BY DEF IInv
<1>1. CASE UNCHANGED <<disposed, gen, stage, born, backend, handed, publishedDb, publishing,
                       phase, session>>
  BY <1>0, <1>1 DEF HandedOverFirst, MayPaint, UnderWay, Alive, Current
<1> USE DEF MayPaint, UnderWay, Alive, Current, OnItsWay
<1>2. ASSUME NEW o \in Opens, Connect(o) PROVE HandedOverFirst'
  BY <1>1, <1>2 DEF Connect
<1>3. ASSUME NEW o \in Opens, OnItsWay(o), EndsFailed(o) PROVE HandedOverFirst'
  BY <1>0, <1>3 DEF EndsFailed, PublishFails, HandedOverFirst, TypeOK
<1>4. ASSUME NEW o \in Opens, Provisions(o) PROVE HandedOverFirst'
  BY <1>0, <1>4 DEF Provisions, Reported, HandedOverFirst, TypeOK
<1>5. ASSUME NEW o \in Opens, Opened(o) PROVE HandedOverFirst'
  BY <1>0, <1>5, ConstantsOK DEF Opened, Reported, HandedOverFirst, OneOpen, TypeOK
<1>6. CASE DraftAttached
  BY <1>0, <1>1, <1>6, DisownsEveryBackend DEF DraftAttached, HandsDraftOver
<1>7. CASE AttachFails
  <2>1. \A m \in Mounts : MayPaint(m)' => MayPaint(m)
    BY <1>0, <1>7, DisownsEveryMount DEF AttachFails, HandsDraftOver
  <2> QED
    BY <1>0, <1>7, <2>1 DEF AttachFails, PublishFails, HandedOverFirst
<1>8. CASE AttachTooLate
  BY <1>0, <1>8 DEF AttachTooLate, PublishFails, HandedOverFirst
<1>9. ASSUME NEW n \in 0 .. 1, Saving(n) PROVE HandedOverFirst'
  BY <1>1, <1>9 DEF Saving
<1>10. ASSUME NEW m \in Mounts, EnsureMounted(m) PROVE HandedOverFirst'
  BY <1>0, <1>10 DEF EnsureMounted, Backend, HandedOverFirst, TypeOK
<1>11. ASSUME NEW m \in Mounts, MountDisowned(m) PROVE HandedOverFirst'
  BY <1>0, <1>11 DEF MountDisowned, HandedOverFirst, TypeOK
<1>12. ASSUME NEW m \in Mounts, MountListens(m) \/ MountReports(m) PROVE HandedOverFirst'
  BY <1>0, <1>12 DEF MountListens, MountReports, HandedOverFirst, TypeOK
<1>13. ASSUME NEW m \in Mounts, MountAdopted(m) \/ MountRejected(m) PROVE HandedOverFirst'
  BY <1>0, <1>13 DEF MountAdopted, MountRejected, HandedOverFirst, TypeOK
<1>14. ASSUME NEW r \in Rows, MakeRecord(r) PROVE HandedOverFirst'
  BY <1>1, <1>14 DEF MakeRecord
<1>15. CASE Publish
  <2>1. CASE session # None /\ Migrates
    BY <1>0, <1>15, <2>1 DEF Publish, Migrates, HandedOverFirst
  <2>2. CASE publishing' = "connecting" /\ phase' # "published"
    BY <1>0, <1>15, <2>2 DEF Publish, HandedOverFirst
  <2>3. connection # "published"
    BY <1>0 DEF TypeOK
  <2> QED
    BY <1>15, <2>1, <2>2, <2>3 DEF Publish
<1>16. CASE PublishConnected \/ HandoffFails
  BY <1>0, <1>16 DEF PublishConnected, Migrates, HandoffFails, HandedOverFirst
<1>17. CASE HandoffDone
  BY <1>0, <1>17 DEF HandoffDone, HandedOverFirst
<1>18. CASE Recorded
  <2>1. CASE disposed
    BY <1>0, <1>18, <2>1 DEF Recorded, HandedOverFirst
  <2>2. CASE ~disposed
    <3>1. \A m \in Mounts : ~MayPaint(m)'
      BY <1>0, <1>18, <2>2, DisownsEveryMount DEF Recorded, Remounts
    <3> QED
      BY <1>0, <1>18, <2>2, <3>1 DEF Recorded, HandedOverFirst
  <2> QED
    BY <2>1, <2>2
<1>19. CASE Invalidate
  BY <1>19, DisownsEveryBackend DEF Invalidate
<1>20. CASE Dispose
  BY <1>0, <1>20 DEF Dispose, HandedOverFirst
<1>21. CASE UNCHANGED vars
  BY <1>1, <1>21 DEF vars
<1> QED
  BY <1>2, <1>3, <1>4, <1>5, <1>6, <1>7, <1>8, <1>9, <1>10, <1>11, <1>12, <1>13, <1>14, <1>15,
     <1>16, <1>17, <1>18, <1>19, <1>20, <1>21
  DEF Next, RetryConnect, OpenRefused, OpenFails

(***************************************************************************)
(* What is said of the open and of the unsaved writes.                     *)
(***************************************************************************)

LEMMA NextWaitsForOne == IInv /\ [Next]_vars => WaitsForOne'
<1> SUFFICES ASSUME IInv, [Next]_vars PROVE WaitsForOne'
  OBVIOUS
<1> USE DEF connVars, pubVars
<1>0. TypeOK /\ OneOpen /\ WaitsForOne
  BY DEF IInv
<1>1. CASE UNCHANGED <<disposed, connecting, connection, session, publishing, phase>>
  BY <1>0, <1>1 DEF WaitsForOne, WaitIsSaid
<1> USE DEF WaitIsSaid, OnItsWay
<1>2. ASSUME NEW o \in Opens, Connect(o) PROVE WaitsForOne'
  BY <1>0, <1>2 DEF Connect, Starts, NoneOnItsWay, WaitsForOne
<1>3. ASSUME NEW o \in Opens, OnItsWay(o), EndsFailed(o) PROVE WaitsForOne'
  BY <1>0, <1>3 DEF EndsFailed, PublishFails, WaitsForOne
<1>4. ASSUME NEW o \in Opens, Provisions(o) PROVE WaitsForOne'
  BY <1>0, <1>4 DEF Provisions, Reported, OneOpen, WaitsForOne
<1>5. ASSUME NEW o \in Opens, Opened(o) PROVE WaitsForOne'
  BY <1>0, <1>5, ConstantsOK DEF Opened, Reported, OneOpen, WaitsForOne
<1>6. CASE DraftAttached
  BY <1>0, <1>6 DEF DraftAttached, WaitsForOne
<1>7. CASE AttachFails \/ AttachTooLate
  BY <1>0, <1>7 DEF AttachFails, AttachTooLate, PublishFails, WaitsForOne
<1>8. ASSUME NEW n \in 0 .. 1, Saving(n) PROVE WaitsForOne'
  BY <1>1, <1>8 DEF Saving
<1>9. ASSUME NEW m \in Mounts,
             EnsureMounted(m) \/ MountDisowned(m) \/ MountListens(m) \/ MountReports(m)
               \/ MountAdopted(m) \/ MountRejected(m)
      PROVE  WaitsForOne'
  BY <1>1, <1>9
  DEF EnsureMounted, MountDisowned, MountListens, MountReports, MountAdopted, MountRejected
<1>10. ASSUME NEW r \in Rows, MakeRecord(r) PROVE WaitsForOne'
  BY <1>1, <1>10 DEF MakeRecord
<1>11. CASE Publish
  <2>1. CASE session # None /\ Migrates /\ UNCHANGED connVars
    BY <1>0, <1>11, <2>1 DEF Publish, Migrates, WaitsForOne
  <2>2. ASSUME publishing' = "connecting", NEW o \in Opens, Starts(o), phase' = "connecting",
               UNCHANGED <<disposed, session>>
        PROVE  WaitsForOne'
    BY <1>0, <2>2 DEF Starts, WaitsForOne
  <2>3. CASE /\ session = None /\ connecting # "none" /\ publishing' = "connecting"
             /\ phase' = connection /\ UNCHANGED <<disposed, connVars>>
    BY <1>0, <2>3 DEF WaitsForOne, TypeOK
  <2> QED
    BY <1>11, <2>1, <2>2, <2>3 DEF Publish
<1>12. CASE PublishConnected \/ HandoffFails \/ HandoffDone \/ Recorded
  BY <1>0, <1>12 DEF PublishConnected, Migrates, HandoffFails, HandoffDone, Recorded, WaitsForOne
<1>13. CASE Dispose
  BY <1>13 DEF Dispose, WaitsForOne
<1>14. CASE Invalidate \/ UNCHANGED vars
  BY <1>1, <1>14 DEF Invalidate, vars
<1> QED
  BY <1>2, <1>3, <1>4, <1>5, <1>6, <1>7, <1>8, <1>9, <1>10, <1>11, <1>12, <1>13, <1>14
  DEF Next, RetryConnect, OpenRefused, OpenFails

LEMMA NextSavingIsShown == IInv /\ [Next]_vars => SavingIsShown'
<1> SUFFICES ASSUME IInv, [Next]_vars PROVE SavingIsShown'
  OBVIOUS
<1> USE DEF mountVars, SavingIsShown
<1>0. TypeOK /\ SavingIsShown
  BY DEF IInv
<1>1. CASE UNCHANGED <<mounted, shown, saving>>
  BY <1>0, <1>1
<1>2. CASE Disown
  BY <1>2 DEF Disown
<1>3. ASSUME NEW n \in 0 .. 1, Saving(n) PROVE SavingIsShown'
  BY <1>0, <1>3 DEF Saving, TypeOK
<1>4. ASSUME NEW m \in Mounts, MountAdopted(m) PROVE SavingIsShown'
  BY <1>0, <1>4 DEF MountAdopted, Told, TypeOK
<1>5. ASSUME NEW m \in Mounts,
             EnsureMounted(m) \/ MountDisowned(m) \/ MountListens(m) \/ MountReports(m)
               \/ MountRejected(m)
      PROVE  SavingIsShown'
  BY <1>1, <1>5 DEF EnsureMounted, MountDisowned, MountListens, MountReports, MountRejected
<1>6. ASSUME NEW o \in Opens, Connect(o) \/ EndsFailed(o) \/ Provisions(o) \/ Opened(o)
      PROVE  SavingIsShown'
  BY <1>1, <1>6 DEF Connect, EndsFailed, Provisions, Opened
<1>7. CASE DraftAttached \/ AttachFails \/ AttachTooLate
  BY <1>1, <1>2, <1>7 DEF DraftAttached, AttachFails, AttachTooLate, HandsDraftOver
<1>8. ASSUME NEW r \in Rows, MakeRecord(r) PROVE SavingIsShown'
  BY <1>1, <1>8 DEF MakeRecord
<1>9. CASE Publish \/ PublishConnected \/ HandoffFails \/ HandoffDone
  BY <1>1, <1>9 DEF Publish, PublishConnected, HandoffFails, HandoffDone
<1>10. CASE Recorded \/ Invalidate \/ Dispose
  BY <1>1, <1>2, <1>10 DEF Recorded, Remounts, Invalidate, Dispose
<1>11. CASE UNCHANGED vars
  BY <1>1, <1>11 DEF vars
<1> QED
  BY <1>3, <1>4, <1>5, <1>6, <1>7, <1>8, <1>9, <1>10, <1>11
  DEF Next, RetryConnect, OpenRefused, OpenFails

(***************************************************************************)
(* The theorems.                                                           *)
(***************************************************************************)

LEMMA InitIInv == Init => IInv
<1> SUFFICES ASSUME Init PROVE IInv
  OBVIOUS
<1>1. TypeOK
  BY InitTypeOK
<1>2. OneOpen
  BY DEF Init, OneOpen, OnItsWay
<1>3. OneMount
  BY DEF Init, OneMount, NoStaleMount, UnderWay
<1>4. HandedOverFirst
  BY DEF Init, HandedOverFirst
<1>5. WaitsForOne /\ SavingIsShown
  BY DEF Init, WaitsForOne, WaitIsSaid, SavingIsShown
<1> QED
  BY <1>1, <1>2, <1>3, <1>4, <1>5 DEF IInv

LEMMA Invariance == Spec => []IInv
<1>1. IInv /\ [Next]_vars => IInv'
  BY NextTypeOK, NextOneOpen, NextOneMount, NextHandedOverFirst, NextWaitsForOne,
     NextSavingIsShown DEF IInv
<1> QED
  BY <1>1, InitIInv, PTL DEF Spec

\* The runtime's state is what its declarations say (`createProjectRuntime`): the
\* session it owns is always an open one.
THEOREM TypeCorrect == Spec => []TypeOK
<1>1. IInv => TypeOK
  BY DEF IInv
<1> QED
  BY <1>1, Invariance, PTL

\* A set any two members of which are the same has at most one.
LEMMA AtMostOne ==
  ASSUME NEW S, \A x, y \in S : x = y
  PROVE  Cardinality(S) <= 1
<1>1. CASE S = {}
  BY <1>1, FS_EmptySet
<1>2. ASSUME NEW x \in S PROVE Cardinality(S) <= 1
  <2>1. S = {x}
    OBVIOUS
  <2> QED
    BY <2>1, FS_Singleton
<1> QED
  BY <1>1, <1>2

\* However many connects, retries and publishes there are, in any order, they share
\* one open; and a closed project keeps none and retries none (`connect`, `dispose`).
THEOREM TheyShareOneOpen == Spec => []OneSession
<1>1. IInv => OneSession
  <2> SUFFICES ASSUME IInv PROVE OneSession
    OBVIOUS
  <2> DEFINE Held == {o \in Opens : OnItsWay(o) \/ open[o] = "open"}
  <2>1. \A o, p \in Held : o = p
    BY ConstantsOK DEF IInv, OneOpen
  <2>2. Cardinality(Held) <= 1
    BY <2>1, AtMostOne
  <2>3. session = None => \A o \in Opens : open[o] # "open"
    BY ConstantsOK DEF IInv, OneOpen
  <2>4. retry => \A o \in Opens : ~OnItsWay(o) /\ open[o] # "open"
    BY <2>3 DEF IInv, OneOpen
  <2>5. disposed => ~retry /\ \A o \in Opens : open[o] # "open"
    BY <2>3 DEF IInv, OneOpen
  <2> QED
    BY <2>2, <2>4, <2>5 DEF OneSession
<1> QED
  BY <1>1, Invariance, PTL

\* However many mounts are begun and however late they complete, the one adopted is
\* of the generation the page is in (`ensureMounted`, `invalidate`).
THEOREM AdoptedIsCurrent == Spec => []NoStaleMount
<1>1. IInv => NoStaleMount
  BY DEF IInv, OneMount
<1> QED
  BY <1>1, Invariance, PTL

\* The canvas is on no backend that was not handed every record first, whatever
\* handoffs failed before (`publish`).
THEOREM NoHandoffNoBackend == Spec => []NeverHalfCopied
<1>1. IInv => NeverHalfCopied
  BY DEF IInv, HandedOverFirst, NeverHalfCopied
<1> QED
  BY <1>1, Invariance, PTL

\* Once the button says Published, every mount that paints is on the database that
\* was handed to, and that is the owned session's (`publish`, `ensureMounted`).
THEOREM PublishedIsWhatPaints == Spec => []PublishedIsShown
<1>1. IInv => PublishedIsShown
  <2> SUFFICES ASSUME IInv, phase = "published", ~disposed
               PROVE  /\ publishedDb = session /\ session \in handed
                      /\ \A m \in Mounts : Paints(m) => backend[m] = publishedDb
    BY DEF PublishedIsShown
  <2>1. publishedDb = session /\ session \in handed
    BY DEF IInv, HandedOverFirst
  <2>2. \A m \in Mounts : Paints(m) => MayPaint(m)
    BY DEF Paints, MayPaint, UnderWay
  <2> QED
    BY <2>1, <2>2 DEF IInv, HandedOverFirst
<1> QED
  BY <1>1, Invariance, PTL

\* The Publish that waits and the mount on the canvas are told where the open and
\* the unsaved writes stand, whoever began the open and whichever of the mount and
\* the count came first (`connect`, `ensureMounted`).
THEOREM WhatMovesIsSaid == Spec => []SaidIsSo
<1>1. IInv => SaidIsSo
  BY DEF IInv, WaitsForOne, SaidIsSo
<1> QED
  BY <1>1, Invariance, PTL

\* With no read that fails once a mount listens, none leaks its listeners.
NoneLeaks == \A m \in Mounts : stage[m] # "leaked"

LEMMA NextNoneLeaks ==
  ASSUME ~ReadFailures
  PROVE  IInv /\ NoneLeaks /\ [Next]_vars => NoneLeaks'
<1> SUFFICES ASSUME IInv, NoneLeaks, [Next]_vars PROVE NoneLeaks'
  OBVIOUS
<1> USE DEF NoneLeaks, connVars, mountVars
<1>0. TypeOK
  BY DEF IInv
<1>1. CASE Disown
  BY <1>0, <1>1 DEF Disown
<1>2. CASE UNCHANGED stage
  BY <1>2
<1>3. ASSUME NEW m \in Mounts,
             EnsureMounted(m) \/ MountDisowned(m) \/ MountListens(m) \/ MountReports(m)
               \/ MountAdopted(m) \/ MountRejected(m)
      PROVE  NoneLeaks'
  BY <1>0, <1>3
  DEF EnsureMounted, MountDisowned, MountListens, MountReports, MountAdopted, MountRejected, TypeOK
<1>4. ASSUME NEW o \in Opens, Connect(o) \/ EndsFailed(o) \/ Provisions(o) \/ Opened(o)
      PROVE  NoneLeaks'
  BY <1>2, <1>4 DEF Connect, EndsFailed, Provisions, Opened
<1>5. CASE DraftAttached \/ AttachFails \/ AttachTooLate
  BY <1>1, <1>2, <1>5 DEF DraftAttached, AttachFails, AttachTooLate, HandsDraftOver
<1>6. ASSUME NEW n \in 0 .. 1, Saving(n) PROVE NoneLeaks'
  BY <1>2, <1>6 DEF Saving
<1>7. ASSUME NEW r \in Rows, MakeRecord(r) PROVE NoneLeaks'
  BY <1>2, <1>7 DEF MakeRecord
<1>8. CASE Publish \/ PublishConnected \/ HandoffFails \/ HandoffDone \/ UNCHANGED vars
  BY <1>2, <1>8 DEF Publish, PublishConnected, HandoffFails, HandoffDone, vars
<1>9. CASE Recorded \/ Invalidate \/ Dispose
  BY <1>1, <1>2, <1>9 DEF Recorded, Remounts, Invalidate, Dispose
<1> QED
  BY <1>3, <1>4, <1>5, <1>6, <1>7, <1>8, <1>9 DEF Next, RetryConnect, OpenRefused, OpenFails

\* Whatever is edited, published or left meanwhile, one mount at a time repaints the
\* canvas, as long as no first page fails to be read: then the runtime loses the
\* mount's listeners (`mountApp`), and with ReadFailures the property is false.
THEOREM OneMountAtATime ==
  ASSUME ~ReadFailures
  PROVE  Spec => []OneMountPaints
<1>1. Init => NoneLeaks
  BY DEF Init, NoneLeaks
<1>2. IInv /\ NoneLeaks => OneMountPaints
  <2> SUFFICES ASSUME IInv, NoneLeaks PROVE OneMountPaints
    OBVIOUS
  <2>1. ASSUME NEW m \in Mounts, NEW n \in Mounts, Paints(m), Paints(n) PROVE m = n
    <3>1. CASE stage[m] = "live" \/ stage[n] = "live"
      BY <2>1, <3>1, ConstantsOK DEF IInv, OneMount, NoStaleMount, NoneLeaks, Paints, UnderWay, TypeOK
    <3>2. CASE UnderWay(m) /\ UnderWay(n)
      BY <2>1, <3>2 DEF IInv, OneMount, Paints
    <3> QED
      BY <2>1, <3>1, <3>2 DEF NoneLeaks, Paints, UnderWay
  <2> QED
    BY <2>1, AtMostOne DEF OneMountPaints
<1> QED
  BY <1>1, <1>2, NextNoneLeaks, Invariance, PTL DEF Spec

=============================================================================
