----------------------------- MODULE PagedView -----------------------------
(***************************************************************************)
(* One mount of the app on the canvas (runtime.js, runtime-logic.js): the  *)
(* bindings its components share, each reading one page of a domain; the   *)
(* rows asked for past it; the form and its edit; and the reload and the   *)
(* render that follow a write.  One domain, with other people writing it.  *)
(*                                                                         *)
(* A record is its id, and ids grow with time.  A page is the set of its   *)
(* ids, the direction being the binding's.  The domain's version counts    *)
(* its changes, so a read is current when it is of the last version.       *)
(***************************************************************************)
EXTENDS Naturals, Sequences, FiniteSets

CONSTANTS
  Components,   \* the app's components: [type, live]
  PAGE,         \* the rows a page holds
  Ops,          \* the person's writes that may be under way at once
  None,
  Failures,     \* may a read of the domain fail?
  Held,         \* the records the domain holds at first
  MaxRow,       \* bound on the records made
  MaxVersion,   \* bound on the changes of the domain
  MaxScans      \* bound on the answers to Show more that may be on their way

ASSUME ConstantsOK ==
  /\ Components \subseteq [type : {"form", "table", "list"}, live : BOOLEAN]
  /\ PAGE \in Nat \ {0}
  /\ Failures \in BOOLEAN
  /\ MaxRow \in Nat /\ Held \in 0 .. MaxRow /\ MaxVersion \in Nat \ {0} /\ MaxScans \in Nat
  /\ None \notin Ops /\ None \notin Nat

-----------------------------------------------------------------------------
(* What is read: bindings, pages, and what a view may say of its extent.   *)

ReadsNewestFirst(type) == type = "list"

\* What distinguishes a read; components that agree on it share one binding.
BindingOf(c) == [live |-> c.live, reverse |-> ReadsNewestFirst(c.type)]
Each == {BindingOf(c) : c \in Components}

\* Does j come before i in the direction of the read?
Before(reverse, j, i) == IF reverse THEN j > i ELSE j < i

\* Mutant of Scan: a row over the page.
Scan_OneMore(S, reverse, after) ==
  LET rest == IF after = None THEN S ELSE {i \in S : Before(reverse, after, i)}
  IN  {i \in rest : Cardinality({j \in rest : Before(reverse, j, i)}) <= PAGE}

\* A read of at most PAGE rows of S, after one of them or from the start.
Scan(S, reverse, after) ==
  LET rest == IF after = None THEN S ELSE {i \in S : Before(reverse, after, i)}
  IN  {i \in rest : Cardinality({j \in rest : Before(reverse, j, i)}) < PAGE}

Last(S, reverse) == CHOOSE i \in S : \A j \in S \ {i} : Before(reverse, j, i)

NoMore == [rows |-> {}, ended |-> FALSE, stitched |-> FALSE]

\* A page that is short is complete; a full one is "at least this many" until a
\* read past it came back short.
Extent(page, more) ==
  IF Cardinality(page) < PAGE \/ more.ended THEN "all" ELSE "more"

PageView(page, more) == [rows |-> page \cup more.rows, extent |-> Extent(page, more)]

-----------------------------------------------------------------------------
VARIABLES
  rows, minted, version,   \* the domain: its records, the last id, its changes
  snap,      \* what each binding last read: rows and version
  beyond,    \* the rows asked for past each page (`stitched`: history)
  reads,     \* the reloads on their way, in the order they were asked
  scans,     \* the answers to Show more on their way
  stage,     \* where each of the person's writes is
  target,    \* the row it is of
  left,      \* the bindings its refresh has still to reload
  editing,   \* the row being edited, or None
  alive,     \* is this mount still wanted?
  canvas,    \* blank, painted by this mount, or a later mount's
  form,      \* the row the painted form edits, or None for Add
  shown,     \* the painted views
  own,       \* history: the version of the person's last accepted write
  failed     \* history: was a reload rejected, so that a refresh ended early?

domainVars == <<rows, minted, version>>
readVars   == <<snap, beyond, reads, scans>>
opVars     == <<stage, target, left>>
paintVars  == <<canvas, form, shown>>
vars == <<domainVars, readVars, opVars, editing, alive, paintVars, own, failed>>

Ids == 1 .. MaxRow
Writers == Ops \cup {None}   \* None is the mount itself, loading its first frame

Read == [rows : SUBSET Ids, version : Nat]
More == [rows : SUBSET Ids, ended : BOOLEAN, stitched : BOOLEAN]
View == [rows : SUBSET Ids, extent : {"all", "more"}]
Reloading == [of : Each, owner : Writers \cup {"tick"}, rows : SUBSET Ids, version : Nat]
Scanning == [of : Each, more : More, after : Ids, got : (SUBSET Ids) \cup {None}, crossed : BOOLEAN]

TypeOK ==
  /\ rows \subseteq 1 .. minted /\ minted \in 0 .. MaxRow /\ version \in 1 .. MaxVersion
  /\ snap \in [Each -> Read] /\ \A b \in Each : Cardinality(snap[b].rows) <= PAGE
  /\ beyond \in [Each -> More]
  /\ reads \in Seq(Reloading) /\ scans \subseteq Scanning
  /\ stage \in [Writers -> {"idle", "saving", "deleting", "reloading"}]
  /\ target \in [Writers -> Ids \cup {None}]
  /\ left \in [Writers -> SUBSET Each]
  /\ editing \in Ids \cup {None} /\ form \in Ids \cup {None}
  /\ alive \in BOOLEAN /\ failed \in BOOLEAN
  /\ canvas \in {"blank", "ours", "taken"}
  /\ shown \in [Each -> View]
  /\ own \in 0 .. MaxVersion

ViewOf(b) == PageView(snap[b].rows, beyond[b])

\* Asked after every await: a page that was disowned must not repaint.
MayPaint == alive

\* The canvas is drawn from the snapshots, what was read past them, and the edit.
Render ==
  IF MayPaint
    THEN /\ canvas' = "ours"
         /\ form' = editing'
         /\ shown' = [b \in Each |-> PageView(snap'[b].rows, beyond'[b])]
    ELSE UNCHANGED paintVars

-----------------------------------------------------------------------------
(* The domain, as the SDK keeps it.                                        *)

Changes == version < MaxVersion /\ version' = version + 1

Put == minted < MaxRow /\ minted' = minted + 1 /\ rows' = rows \cup {minted + 1}

\* Another session adds a record, updates one or deletes one (while it matters here).
OthersWrite ==
  /\ alive /\ Changes
  /\ \/ Put
     \/ rows # {} /\ UNCHANGED <<rows, minted>>
     \/ (\E r \in rows : rows' = rows \ {r}) /\ UNCHANGED minted
  /\ UNCHANGED <<readVars, opVars, editing, alive, paintVars, own, failed>>

Asked(b, o) == [of |-> b, owner |-> o, rows |-> Scan(rows, b.reverse, None), version |-> version]

\* A live binding that is listened to is told the domain moved, and reads its page again.
Notice(b) ==
  /\ alive /\ b.live /\ snap[b].version # version
  /\ \A i \in DOMAIN reads : reads[i].of # b \/ reads[i].version # version
  /\ reads' = Append(reads, Asked(b, "tick"))
  /\ UNCHANGED <<domainVars, snap, beyond, scans, opVars, editing, alive, paintVars, own, failed>>

-----------------------------------------------------------------------------
(* Reloads.                                                                *)

\* The next reload of o's refresh, the one of `b` having been answered.
Continues(o, b) ==
  IF o = "tick" THEN UNCHANGED opVars /\ reads' = Tail(reads)
  ELSE IF left[o] = {}
    THEN /\ stage' = [stage EXCEPT ![o] = "idle"]
         /\ reads' = Tail(reads) /\ UNCHANGED <<target, left>>
    ELSE \E n \in left[o] :
           /\ left' = [left EXCEPT ![o] = @ \ {n}]
           /\ reads' = Append(Tail(reads), Asked(n, o)) /\ UNCHANGED <<stage, target>>

\* Mutant of Resets: the rows read past the page stay when the page moves.
Resets_Kept(b) == UNCHANGED <<beyond, scans>>

\* A change takes the binding back to its first page.  An answer to Show more on
\* its way was asked of the page before.
Resets(b) ==
  /\ beyond' = [beyond EXCEPT ![b] = NoMore]
  /\ scans' = {IF s.of = b THEN [s EXCEPT !.crossed = TRUE] ELSE s : s \in scans}

\* Mutant of Repaints: nothing listens to a binding that moved by itself.
Repaints_OwnOnly(o) == IF o = "tick" THEN UNCHANGED paintVars ELSE Render

\* Every reload that is answered is heard, whoever asked for it.
Repaints(o) == Render

\* A reload is answered: the binding's listener resets what was read past the
\* page and renders; whoever awaited the reload goes on, and renders at its end.
Reloaded ==
  /\ reads # <<>>
  /\ LET r == Head(reads)
     IN  /\ snap' = [snap EXCEPT ![r.of] = [rows |-> r.rows, version |-> r.version]]
         /\ IF alive THEN Resets(r.of) ELSE UNCHANGED <<beyond, scans>>
         /\ Continues(r.owner, r.of)
  /\ UNCHANGED editing /\ Repaints(Head(reads).owner)
  /\ UNCHANGED <<domainVars, alive, own, failed>>

\* A reload is rejected (one, in a behaviour): the rest of the refresh is not made,
\* nor its render.
ReloadFails ==
  /\ Failures /\ ~failed /\ reads # <<>>
  /\ LET o == Head(reads).owner
     IN  IF o = "tick" THEN UNCHANGED opVars
         ELSE /\ stage' = [stage EXCEPT ![o] = "idle"]
              /\ left' = [left EXCEPT ![o] = {}]
              /\ UNCHANGED target
  /\ failed' = TRUE
  /\ reads' = Tail(reads)
  /\ UNCHANGED <<domainVars, snap, beyond, scans, editing, alive, paintVars, own>>

\* Mutant of Refreshed: a write reloads one binding, not every one over its domain.
Refreshed_One == {CHOOSE b \in Each : TRUE}

\* The bindings a change reloads: every one of the mount.
Refreshed == Each

\* The write is accepted: every binding is reloaded, one after another.
Accepted(o) ==
  /\ stage' = [stage EXCEPT ![o] = "reloading"]
  /\ \E b \in Refreshed :
       /\ left' = [left EXCEPT ![o] = Refreshed \ {b}]
       /\ reads' = Append(reads, [Asked(b, o) EXCEPT
                     !.rows = Scan(rows', b.reverse, None), !.version = version'])
  /\ target' = [target EXCEPT ![o] = None]
  /\ own' = version'
  /\ UNCHANGED <<snap, beyond, scans, paintVars>>

-----------------------------------------------------------------------------
(* What the person does, on a canvas that is this mount's.                 *)

OnCanvas == canvas = "ours" /\ alive

\* Save: the form that is painted, an edit of its row or a new record.
Save(o) ==
  /\ OnCanvas /\ stage[o] = "idle"
  /\ \E c \in Components : c.type = "form"
  /\ stage' = [stage EXCEPT ![o] = "saving"]
  /\ target' = [target EXCEPT ![o] = form]
  /\ UNCHANGED <<domainVars, readVars, left, editing, alive, paintVars, own, failed>>

\* The write is made: whichever edit is open when it is, is ended.
Saved(o) ==
  /\ stage[o] = "saving" /\ Changes
  /\ IF target[o] = None THEN Put ELSE target[o] \in rows /\ UNCHANGED <<rows, minted>>
  /\ editing' = None
  /\ Accepted(o)
  /\ UNCHANGED <<alive, failed>>

\* The row was deleted meanwhile: the write is refused, and the edit stays.
Refused(o) ==
  /\ stage[o] = "saving" /\ target[o] # None /\ target[o] \notin rows
  /\ stage' = [stage EXCEPT ![o] = "idle"]
  /\ target' = [target EXCEPT ![o] = None]
  /\ UNCHANGED <<domainVars, readVars, left, editing, alive, paintVars, own, failed>>

\* A row of a table that is painted.
Listed(r) == \E c \in Components : c.type = "table" /\ r \in shown[BindingOf(c)].rows

\* Edit and Cancel.
SetEditing(r) ==
  /\ OnCanvas /\ r # editing
  /\ r = None \/ Listed(r)
  /\ editing' = r
  /\ UNCHANGED <<snap, beyond>> /\ Render
  /\ UNCHANGED <<domainVars, reads, scans, opVars, alive, own, failed>>

Delete(o, r) ==
  /\ OnCanvas /\ stage[o] = "idle" /\ Listed(r)
  /\ stage' = [stage EXCEPT ![o] = "deleting"]
  /\ target' = [target EXCEPT ![o] = r]
  /\ UNCHANGED <<domainVars, readVars, left, editing, alive, paintVars, own, failed>>

\* The delete is made; an edit of that row ends with it.
Deleted(o) ==
  /\ stage[o] = "deleting"
  /\ IF target[o] \in rows THEN Changes /\ rows' = rows \ {target[o]}
                           ELSE UNCHANGED <<rows, version>>
  /\ editing' = IF editing = target[o] THEN None ELSE editing
  /\ Accepted(o)
  /\ UNCHANGED <<minted, alive, failed>>

\* Show more: the next page after the last row painted, onto what was then read.
ShowMore(b) ==
  /\ OnCanvas /\ shown[b].extent = "more"
  /\ \E c \in Components : BindingOf(c) = b /\ c.type # "form"
  /\ Cardinality(scans) < MaxScans
  /\ LET past == beyond[b].rows \ snap[b].rows
         after == Last(IF past # {} THEN past ELSE shown[b].rows, b.reverse)
     IN  scans' = scans \cup {[of |-> b, more |-> beyond[b], after |-> after,
                               got |-> None, crossed |-> FALSE]}
  /\ UNCHANGED <<domainVars, snap, beyond, reads, opVars, editing, alive, paintVars, own, failed>>

\* The node reads that page.
ScanRead(s) ==
  /\ s.got = None
  /\ scans' = (scans \ {s}) \cup {[s EXCEPT !.got = Scan(rows, s.of.reverse, s.after)]}
  /\ UNCHANGED <<domainVars, snap, beyond, reads, opVars, editing, alive, paintVars, own, failed>>

\* Its answer, or its failure, which proves nothing about the end.
ScanAnswered(s) ==
  /\ \/ /\ s.got # None
        /\ beyond' = [beyond EXCEPT ![s.of] =
             [rows |-> s.more.rows \cup s.got, ended |-> Cardinality(s.got) < PAGE,
              stitched |-> s.crossed \/ s.more.stitched]]
     \/ /\ Failures
        /\ beyond' = [beyond EXCEPT ![s.of] = [s.more EXCEPT !.stitched = @ \/ s.crossed]]
  /\ scans' = scans \ {s}
  /\ UNCHANGED <<snap, editing>> /\ Render
  /\ UNCHANGED <<domainVars, reads, opVars, alive, own, failed>>

\* The project is switched, edited or published: a later mount has the canvas.
Disowned ==
  /\ alive /\ alive' = FALSE
  /\ canvas' = "taken"
  /\ UNCHANGED <<domainVars, readVars, opVars, editing, form, shown, own, failed>>

-----------------------------------------------------------------------------
\* The bindings are made and listened to, and the first refresh has begun.
Init ==
  /\ rows = 1 .. Held /\ minted = Held
  /\ version = 1 /\ own = 0
  /\ snap = [b \in Each |-> [rows |-> {}, version |-> 0]]
  /\ beyond = [b \in Each |-> NoMore]
  /\ scans = {}
  /\ stage = [o \in Writers |-> IF o = None THEN "reloading" ELSE "idle"]
  /\ target = [o \in Writers |-> None]
  /\ \E b \in Each :
       /\ left = [o \in Writers |-> IF o = None THEN Each \ {b} ELSE {}]
       /\ reads = <<Asked(b, None)>>
  /\ editing = None
  /\ alive = TRUE
  /\ canvas = "blank" /\ form = None
  /\ shown = [b \in Each |-> [rows |-> {}, extent |-> "all"]]
  /\ failed = FALSE

Next ==
  \/ OthersWrite \/ Reloaded \/ ReloadFails \/ Disowned
  \/ \E b \in Each : Notice(b) \/ ShowMore(b)
  \/ \E o \in Ops : Save(o) \/ Saved(o) \/ Refused(o) \/ Deleted(o)
  \/ \E o \in Ops, r \in Ids : Delete(o, r)
  \/ \E r \in Ids \cup {None} : SetEditing(r)
  \/ \E s \in scans : ScanRead(s) \/ ScanAnswered(s)

Spec == Init /\ [][Next]_vars

\* The SDK tells a live binding of a change, and ends every read and write.
Fairness ==
  /\ \A b \in Each : WF_vars(Notice(b))
  /\ WF_vars(Reloaded \/ ReloadFails)
  /\ \A o \in Ops : WF_vars(Saved(o) \/ Refused(o) \/ Deleted(o))

FairSpec == Spec /\ Fairness

-----------------------------------------------------------------------------
(* What a mount promises.                                                  *)

\* A view that says all is shown, of a domain that has not changed since its page
\* was read, shows every record: only a read that came back short proves the end
\* (`pageView`, the footer).  Rows read past a page that was replaced excepted.
AllShownIsAll ==
  \A b \in Each :
    canvas = "ours" /\ shown[b].extent = "all" /\ snap[b].version = version
      /\ ~beyond[b].stitched
      => rows \subseteq shown[b].rows

\* The same of every view: rows read past a page are never kept under another
\* page ("Back to the first page is honest; a stitched-together one is not").
NeverStitched ==
  \A b \in Each :
    canvas = "ours" /\ shown[b].extent = "all" /\ snap[b].version = version
      => rows \subseteq shown[b].rows

\* When the person's writes have ended, every view is painted from a read made
\* after the last of them, however many ran at once (`changed`, `refresh`).
OwnWritesAreShown ==
  (\A o \in Writers : stage[o] = "idle") /\ reads = <<>> /\ alive /\ ~failed =>
    \A b \in Each : snap[b].version >= own /\ shown[b] = ViewOf(b)

\* A live view comes to show what other people write, by itself.
LiveFollows ==
  []<>(~alive \/ \A b \in Each : b.live => shown[b] = ViewOf(b) /\ snap[b].version = version)

=============================================================================
