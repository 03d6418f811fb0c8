------------------------------- MODULE Panels ------------------------------
(***************************************************************************)
(* The versions panel and the upgrade offer (versions-panel.js, app.js),   *)
(* each painted from what had arrived; and the Assets tab                  *)
(* (assets-panel.js, assets.js, app.js): its check, its repair passes on a *)
(* page of their own, and what its row says of them.                       *)
(*                                                                         *)
(* External: the SDK's report of itself, its checkAll and repairAll over a *)
(* group of blocks, and the node that loses blocks.                        *)
(***************************************************************************)
EXTENDS Versions, FiniteSets

CONSTANTS
  BakedInfos,   \* what build-info may say; `NoBuildInfo` where it could not be read
  Reports,      \* what the SDK may say of itself
  Stamps,       \* the stamps a project may have come with
  Blocks, K,    \* a group of the tree, any K of which rebuild the rest
  Mounts        \* bound on the times the tab is opened

NoBuildInfo == [sdkRev |-> NoRev, profile |-> "dev", code |-> <<>>, released |-> <<>>]
NoSdk == [rev |-> NoRev, prolly |-> 0, format |-> 0]
NoStamp == [part \in Base |-> Absent(part)]

\* An SDK that cannot name itself says so in its revision; a stamp names something.
ASSUME ConstantsOK ==
  /\ IsFiniteSet(Blocks) /\ K \in 1 .. Cardinality(Blocks) /\ Mounts \in Nat
  /\ NoBuildInfo \in BakedInfos
  /\ \A b \in BakedInfos : b.released \in Seq([number : Nat, code : SUBSET Nat])
  /\ \A r \in Reports : r.rev # NoRev
  /\ NoStamp \notin Stamps

VARIABLES
  baked, build,      \* did build-info arrive, and what it says
  sdk,               \* sdkSelfReport
  loaded,            \* was the open project's draft read?
  stamped, versions, \* app.versions
  offer,             \* the parts the upgrade bar names
  panel,             \* what the versions panel says, once it is mounted
  tab,               \* the mount of the Assets tab that is shown, 0 for none
  mount,             \* each one's row and its pass
  lost               \* the node: blocks of the group it does not have

known == <<baked, build, sdk>>
project == <<loaded, stamped, versions>>
painted == <<offer, panel>>
assets == <<tab, mount, lost>>
vars == <<known, project, painted, assets>>

\* The report of a pass: the list its word is from, the word, and whether it says
\* that something is missing.  `list` is "none" where the report names none.
Report(list, word, missing) == [list |-> list, word |-> word, missing |-> missing]
NoReport == Report("none", "none", FALSE)
groupHealth == {"whole", "degraded", "damaged"}
repairOutcome == {"repaired", "partial", "cancelled"}

Row == [phase |-> "never", checking |-> FALSE, cancelling |-> FALSE, cancelled |-> FALSE,
        page |-> "none", report |-> NoReport]
Rows == [phase : {"never", "running", "done", "failed"}, checking : BOOLEAN, cancelling : BOOLEAN,
         cancelled : BOOLEAN, page : {"none", "opening", "reading", "closed"},
         report : [list : {"none", "groupHealth", "repairOutcome"},
                   word : groupHealth \cup repairOutcome \cup {"none", "new"}, missing : BOOLEAN]]

TypeOK ==
  /\ baked \in BOOLEAN /\ build \in BakedInfos /\ sdk \in Reports \cup {NoSdk}
  /\ loaded \in BOOLEAN /\ stamped \in BOOLEAN /\ (stamped <=> versions # NoStamp)
  /\ offer \subseteq DOMAIN versions
  /\ panel # {} <=> baked
  /\ tab \in 0 .. Mounts /\ lost \subseteq Blocks
  /\ mount \in [1 .. Mounts -> Rows]

-----------------------------------------------------------------------------
(* The versions panel and the offer.                                       *)

\* versionsPanel?.refresh(): nothing before the panel is mounted.
Refresh == panel' = IF baked' THEN {model(build', sdk', versions', stamped')} ELSE {}

\* offerUpgrade: with a half missing, the bar is left as it is.
OfferUpgrade ==
  offer' = IF build' = NoBuildInfo \/ sdk' = NoSdk THEN offer
           ELSE IF stamped' THEN drift(versions', build', sdk') ELSE {}

\* Mutant of StampedOr: stamped with what one half says.
StampedOr_Half(has, v, isLoaded) ==
  IF ~has /\ isLoaded THEN stamped' = TRUE /\ versions' = stamp(build', sdk') ELSE stamped' = has /\ versions' = v

\* stampIfNew, before the panel and the offer are painted again.
StampedOr(has, v, isLoaded) ==
  IF ~has /\ build' # NoBuildInfo /\ sdk' # NoSdk /\ isLoaded
    THEN stamped' = TRUE /\ versions' = stamp(build', sdk')
    ELSE stamped' = has /\ versions' = v

BuildInfoArrives(b) ==
  /\ ~baked /\ baked' = TRUE /\ build' = b /\ UNCHANGED sdk
  /\ StampedOr(stamped, versions, loaded) /\ Refresh /\ OfferUpgrade
  /\ UNCHANGED <<loaded, assets>>

PaintsAtSdk == Refresh

SdkArrives(r) ==
  /\ sdk = NoSdk /\ sdk' = r /\ UNCHANGED <<baked, build>>
  /\ StampedOr(stamped, versions, loaded) /\ OfferUpgrade /\ PaintsAtSdk
  /\ UNCHANGED <<loaded, assets>>

\* openInPage: another project, or one made here.
Open(fresh) ==
  /\ loaded' = fresh /\ UNCHANGED known
  /\ StampedOr(FALSE, NoStamp, fresh) /\ Refresh /\ OfferUpgrade
  /\ UNCHANGED assets

\* Mutant of OffersAtDraft: the bar is left as the project before it had it.
OffersAtDraft_Not == UNCHANGED offer

OffersAtDraft == OfferUpgrade

\* onDraft: the draft is read, or read again after another tab changed it.
DraftRead(has, v) ==
  /\ loaded' = TRUE /\ UNCHANGED known
  /\ StampedOr(has, v, TRUE) /\ Refresh /\ OffersAtDraft
  /\ UNCHANGED assets

\* The bar's button.
Accept ==
  /\ offer # {}
  /\ stamped' = TRUE /\ versions' = stamp(build, sdk)
  /\ UNCHANGED <<known, loaded, assets>> /\ OfferUpgrade /\ Refresh

-----------------------------------------------------------------------------
(* The Assets tab.                                                         *)

\* start: the row is running, and its pass opens a page of its own.
Started(checking) ==
  [Row EXCEPT !.phase = "running", !.checking = checking, !.page = "opening"]

\* The header's button: the tab is mounted anew, and looks.  A pass of the mount
\* before it goes on.
OpenTab ==
  /\ tab = 0 /\ sdk # NoSdk
  /\ \E m \in 1 .. Mounts :
       /\ mount[m] = Row /\ \A n \in 1 .. m - 1 : mount[n] # Row
       /\ tab' = m /\ mount' = [mount EXCEPT ![m] = Started(TRUE)]
  /\ UNCHANGED <<known, project, painted, lost>>

CloseTab ==
  /\ tab # 0 /\ tab' = 0
  /\ UNCHANGED <<known, project, painted, mount, lost>>

\* A word that the SDK's list does not have is refused; a report whose list is not
\* one of the SDK's, too.  Such a row is painted as a pass that failed.
Readable(report) ==
  CASE report.list = "groupHealth" -> report.word \in groupHealth
    [] report.list = "repairOutcome" -> report.word \in repairOutcome
    [] OTHER -> FALSE

\* treeRow, as paint shows it.
Shown(row) ==
  CASE row.phase = "running" -> [word |-> IF row.checking THEN "checking" ELSE "repairing",
                                 repair |-> FALSE, cancel |-> ~row.cancelling]
    [] row.phase = "done" /\ Readable(row.report) -> [word |-> row.report.word, repair |-> TRUE, cancel |-> FALSE]
    [] OTHER -> [word |-> "unchecked", repair |-> TRUE, cancel |-> FALSE]

RepairNow ==
  /\ tab # 0 /\ Shown(mount[tab]).repair
  /\ mount' = [mount EXCEPT ![tab] = Started(FALSE)]
  /\ UNCHANGED <<known, project, painted, tab, lost>>

\* cancel: a pass whose page is opening is told by the flag, a running one by the SDK.
Cancel ==
  /\ tab # 0 /\ Shown(mount[tab]).cancel
  /\ mount' = [mount EXCEPT ![tab].cancelling = TRUE, ![tab].cancelled = TRUE]
  /\ UNCHANGED <<known, project, painted, tab, lost>>

\* Mutant of Begins: a Cancel pressed while the page opens is not looked at.
Begins_Always(row) == TRUE

Begins(row) == ~row.cancelled

\* The report a pass that was cancelled before it began resolves with.
CancelledReport == Report("none", "cancelled", FALSE)

Ended(row, report) == [row EXCEPT !.phase = "done", !.page = "closed", !.report = report]

\* handle.tree resolves.
PageOpens(m) ==
  /\ mount[m].page = "opening"
  /\ mount' = [mount EXCEPT ![m] = IF Begins(@) THEN [@ EXCEPT !.page = "reading"] ELSE Ended(@, CancelledReport)]
  /\ UNCHANGED <<known, project, painted, tab, lost>>

\* repairAll puts back; checkAll does not.
PutsBack(row) == ~row.checking

Enough(gone) == Cardinality(Blocks \ gone) >= K

\* The pass puts a missing block back, which it can rebuild from any K.
PutBack(m, b) ==
  /\ mount[m].page = "reading" /\ PutsBack(mount[m]) /\ b \in lost /\ Enough(lost)
  /\ lost' = lost \ {b}
  /\ UNCHANGED <<known, project, painted, tab, mount>>

\* What the SDK's report of an ended pass says of the group as it then is; a newer
\* SDK may use a word this build's list does not have.
Reported(row) ==
  LET missing == lost # {}
  IN  IF row.cancelled THEN {Report("repairOutcome", "cancelled", missing)}
      ELSE {Report("groupHealth", IF ~missing THEN "whole" ELSE IF Enough(lost) THEN "degraded" ELSE "damaged", missing),
            Report("groupHealth", "new", missing)}
           \cup (IF row.checking THEN {} ELSE {Report("repairOutcome", IF missing THEN "partial" ELSE "repaired", missing)})

\* repairAll or checkAll resolves; the page is closed first.
PassReports(m) ==
  /\ mount[m].page = "reading"
  /\ \E r \in Reported(mount[m]) : mount' = [mount EXCEPT ![m] = Ended(@, r)]
  /\ UNCHANGED <<known, project, painted, tab, lost>>

\* Mutant of Closed: the page of a pass that rejects is left open.
Closed_Not(page) == page

\* repairPass's finally: a page that opened is closed.
Closed(page) == IF page = "opening" THEN "none" ELSE "closed"

\* The page does not open, or the pass rejects: start's catch says so.
PassFails(m) ==
  /\ mount[m].page \in {"opening", "reading"}
  /\ mount' = [mount EXCEPT ![m].phase = "failed", ![m].page = Closed(@)]
  /\ UNCHANGED <<known, project, painted, tab, lost>>

BlockLost(b) ==
  /\ b \notin lost /\ lost' = lost \cup {b}
  /\ UNCHANGED <<known, project, painted, tab, mount>>

-----------------------------------------------------------------------------
Init ==
  /\ baked = FALSE /\ build = NoBuildInfo /\ sdk = NoSdk
  /\ loaded = FALSE /\ stamped = FALSE /\ versions = NoStamp
  /\ offer = {} /\ panel = {}
  /\ tab = 0 /\ mount = [m \in 1 .. Mounts |-> Row] /\ lost = {}

Answers(m) == PageOpens(m) \/ PassReports(m) \/ PassFails(m)

Next ==
  \/ \E b \in BakedInfos : BuildInfoArrives(b)
  \/ \E r \in Reports : SdkArrives(r)
  \/ \E fresh \in BOOLEAN : Open(fresh)
  \/ DraftRead(FALSE, NoStamp) \/ \E v \in Stamps : DraftRead(TRUE, v)
  \/ Accept
  \/ OpenTab \/ CloseTab \/ RepairNow \/ Cancel
  \/ \E m \in 1 .. Mounts : Answers(m) \/ \E b \in Blocks : PutBack(m, b)
  \/ \E b \in Blocks : BlockLost(b)

Spec == Init /\ [][Next]_vars

-----------------------------------------------------------------------------
(* What it promises.                                                       *)

\* The panel says what is: in whatever order build-info, the SDK, a draft and a
\* switch come, it is painted again after each (app.js:145, 275, 346, 372, 395).
PanelIsCurrent == baked => panel = {model(build, sdk, versions, stamped)}

\* The bar offers exactly what moved on since the open project's own stamp, once
\* both halves are known: never a project before's (app.js:352-361, 145, 276).
OfferIsCurrent ==
  build # NoBuildInfo /\ sdk # NoSdk => offer = IF stamped THEN drift(versions, build, sdk) ELSE {}

\* Both are painted as things stand, however they came to stand so.
PaintedIsCurrent == PanelIsCurrent /\ OfferIsCurrent

\* The panel says verified only when the SDK that runs names the revision this
\* build pinned: not when it was not loaded, cannot name itself, or agrees in less
\* than seven digits (versions.js:9-12, 26-28, 45-49).
VerifiedIsThePinned ==
  \A p \in panel : p.verdict \in {"ok", "info", "warn"} =>
    sdk \in Reports /\ sdk.rev # Unknown /\ [six |-> sdk.rev.six, rest |-> sdk.rev.rest] = [six |-> build.sdkRev.six, rest |-> build.sdkRev.rest]

\* A contract of the project is called superseded only when the newest epoch does
\* not have it, and current only when it does: one that an epoch carried over is
\* current (project-versions.js:11-13, 85-102).
SupersededIsOlder ==
  \A p \in panel : \A section \in p.project : \A name \in DOMAIN section.code :
    LET newest == {e \in {build.released[i] : i \in DOMAIN build.released} :
                     \A i \in DOMAIN build.released : build.released[i].number <= e.number}
        has == \E e \in newest : versions[name] \in e.code
    IN  (section.code[name] = "superseded" => ~has) /\ (section.code[name] = "current" => has)

\* The panel's verdicts, of the SDK and of each contract, are earned.
VerdictsHold == VerifiedIsThePinned /\ SupersededIsOlder

\* A look puts nothing back: a block comes back only while a repair is reading that
\* the person asked for and had not cancelled before it began (assets.js:78-79).
CheckPutsNothingBack ==
  [][lost' \subseteq lost /\ lost' # lost =>
       \E m \in 1 .. Mounts : mount[m].page = "reading" /\ ~mount[m].checking]_vars

\* A pass that was cancelled while its page was opening never begins, whichever of
\* its two ends comes first (assets.js:66-71).
CancelWins ==
  [][\A m \in 1 .. Mounts : mount[m].page = "opening" /\ mount[m].cancelled => mount'[m].page # "reading"]_vars

\* A pass does what was asked, as it was last asked before it began.
OnlyWhatWasAsked == CheckPutsNothingBack /\ CancelWins

\* The page a pass opened for itself is closed when the pass has ended, whatever
\* ended it: its report, a rejection or a Cancel (assets.js:80-82).
PagesAreClosed ==
  \A m \in 1 .. Mounts : mount[m].phase # "running" => mount[m].page \in {"none", "closed"}

\* A pass the person cancelled ends in the SDK's own cancelled word (assets.js:69-71).
CancelIsSaid ==
  \A m \in 1 .. Mounts :
    mount[m].phase = "done" /\ mount[m].cancelled => Shown(mount[m]).word = "cancelled"
=============================================================================
