------------------------------ MODULE Designer ------------------------------
(***************************************************************************)
(* The design view (app.js, catalogue.js): the definition a person edits,  *)
(* handler by handler, and the panels each handler paints again -- the     *)
(* canvas, the tree, the properties, the mapping and the definition -- as  *)
(* they stand when it returns.  A handler names the panels it paints, so   *)
(* one it forgets goes on showing what was.                                *)
(*                                                                         *)
(* The runtime's mounts, seen from the page: one at most is on its way or  *)
(* on the canvas, of the definition as it was when it began.               *)
(***************************************************************************)
EXTENDS Naturals, SequencesExt

CONSTANTS
  Catalogue,     \* type -> its keys and Sets, as <<range or Set, is it the domain's?>>, and its modes
  Domains,       \* the domains a person may type, "?" for none
  HomeOf,        \* type -> the domain a new component of it is given
  Drafts,        \* the definitions another tab may leave in the draft
  MaxComponents, MaxSteps  \* bounds on the components and on the person's steps

Modes == {"owned", "shared", "document", "ledger"}
Ranges == {"d", "i", "e", "f", "c", "l"}

\* validateComponent, of what the views use.
Valid(c) ==
  /\ c.modes \in Seq(Modes) \ {<<>>}
  /\ c.keys # {} /\ \A k \in c.keys : k[1] \in Ranges

\* Whose data a component shows, and is it live?
Bounds == {"mine", "publisher"} \X BOOLEAN

\* A component as a draft holds it, of a mode this build may not know; an object of the
\* page has an identity too.
Kept == [type : DOMAIN Catalogue, domain : Domains, mode : Modes \cup {"unknown"}, bound : Bounds]
Component(ids) ==
  [id : ids, type : DOMAIN Catalogue, domain : Domains, mode : Modes \cup {"unknown"}, bound : Bounds]

ASSUME ConstantsOK ==
  /\ \A type \in DOMAIN Catalogue : Valid(Catalogue[type]) /\ HomeOf[type] \in Domains
  /\ MaxComponents \in Nat \ {0} /\ MaxSteps \in Nat
  /\ \A held \in Drafts :
       /\ held.components \in Seq(Kept) /\ Len(held.components) <= MaxComponents
       /\ held.schemas \in [Domains -> Nat]

VARIABLES
  loaded,              \* has the open project's draft been read (`rt.draft.loaded`)?
  components, schemas, \* the definition; a schema is 0 where none was declared, 1 the default, or an edit of it
  sel, preview, sdk,   \* the selected component, 0 for none; Preview or design; is the SDK there?
  handed,              \* the definition as the draft writer last had it
  mount,               \* the runtime's mount, and the definition it is of
  inert,               \* are the panels inert?
  canvas, tree, map, panel, def,  \* what each panel shows
  made, steps          \* components made so far: what tells one object from another; and the steps

edited == <<components, schemas, sel>>
views == <<inert, canvas, tree, map, panel, def>>
vars == <<loaded, edited, preview, sdk, handed, mount, views, made, steps>>

-----------------------------------------------------------------------------
(* What the views derive from the definition.                              *)

NoMount == [state |-> "none", of |-> <<>>]
NoPanel == [id |-> 0, domain |-> "?"]
Nothing == [components |-> <<>>, schemas |-> [d \in Domains |-> 0]]

\* mapping: the paths a component claims.  What many people write is in a Set, and
\* not under `d` in anyone's tree.
Fill(paths, c) == {<<p[1], IF p[2] THEN c.domain ELSE "">> : p \in paths}
ModeOf(c) == IF c.mode \in Modes THEN c.mode ELSE Head(Catalogue[c.type].modes)
mapping(c) ==
  LET keys == Fill(Catalogue[c.type].keys, c)
      sets == Fill(Catalogue[c.type].sets, c)
  IN  IF ModeOf(c) \in {"shared", "document"}
        THEN [keys |-> {k \in keys : k[1] # "d"}, sets |-> sets \cup {<<ModeOf(c), c.domain>>}, mode |-> ModeOf(c)]
        ELSE [keys |-> keys, sets |-> sets, mode |-> ModeOf(c)]

\* treeView: path -> component indexes.
treeView(cs) ==
  [ranges |-> UNION {{<<k, i>> : k \in mapping(cs[i]).keys} : i \in DOMAIN cs},
   sets |-> UNION {{<<s, i>> : s \in mapping(cs[i]).sets} : i \in DOMAIN cs}]

\* schemasOf: each domain's own schema, or the default.
schemasOf(cs, ss) == [d \in {cs[i].domain : i \in DOMAIN cs} \ {"?"} |-> IF ss[d] = 0 THEN 1 ELSE ss[d]]

\* What a mount of the app shows: a component's mode is the design's, not the runtime's.
Shown(cs, ss) ==
  [components |-> [i \in DOMAIN cs |-> [type |-> cs[i].type, domain |-> cs[i].domain, bound |-> cs[i].bound]],
   schemas |-> schemasOf(cs, ss)]

Design == [kind |-> "design", of |-> components', sel |-> sel']
Says(kind) == [kind |-> kind, of |-> <<>>, sel |-> 0]

TypeOK ==
  /\ loaded \in BOOLEAN /\ preview \in BOOLEAN /\ sdk \in BOOLEAN /\ inert \in BOOLEAN
  /\ made \in Nat /\ steps \in 0 .. MaxSteps
  /\ components \in Seq(Component(1 .. made)) /\ Len(components) <= MaxComponents
  /\ schemas \in [Domains -> Nat]
  /\ sel \in 0 .. Len(components)
  /\ mount.state \in {"none", "mounting", "mounted"}
  /\ canvas.kind \in {"design", "loading", "app", "error"}

-----------------------------------------------------------------------------
(* The renders.                                                            *)

\* renderCanvas: in Preview the app is mounted, unless one is or is on its way.
renderCanvas(from) ==
  /\ canvas' = IF ~preview' THEN Design ELSE IF ~sdk' THEN Says("loading") ELSE canvas
  /\ mount' = IF preview' /\ sdk' /\ from.state = "none"
                THEN [state |-> "mounting", of |-> Shown(components', schemas')] ELSE from

renderTree == tree' = treeView(components')
Selected == sel' \in DOMAIN components'
renderMap == map' = IF Selected THEN <<mapping(components'[sel'])>> ELSE <<>>
renderDef == def' = [components |-> components', schemas |-> schemas']

\* schemaEditor declares the selected domain's schema if it has none.
Declared(ss) == IF Selected THEN [ss EXCEPT ![components'[sel'].domain] = IF @ = 0 THEN 1 ELSE @] ELSE ss

renderProps ==
  /\ panel' = IF Selected THEN [id |-> components'[sel'].id, domain |-> components'[sel'].domain] ELSE NoPanel
  /\ renderMap

Inert == ~loaded'

render(from) ==
  /\ inert' = Inert
  /\ renderCanvas(from) /\ renderTree /\ renderProps /\ renderDef

\* Mutant of save: the edit is on the canvas alone.
save_Not(cs, ss) == UNCHANGED handed

\* save: the writer is given the definition as it is.
save(cs, ss) == handed' = [components |-> cs, schemas |-> ss]

Acts == steps < MaxSteps /\ steps' = steps + 1
Edits == Acts /\ ~inert /\ UNCHANGED <<loaded, preview, sdk>>

\* Mutant of invalidate: what is mounted stays.
invalidate_Not == mount

invalidate == NoMount

-----------------------------------------------------------------------------
(* The handlers.                                                           *)

\* invalidate, save and render: what most edits do, in this order.  The schema the
\* properties declare on the way is given to the writer by the next save.
EditedTo(cs, s) ==
  /\ components' = cs /\ sel' = s
  /\ save(cs, schemas) /\ schemas' = Declared(schemas)
  /\ render(invalidate)

Add(type) ==
  /\ Edits /\ Len(components) < MaxComponents
  /\ made' = made + 1
  /\ EditedTo(Append(components, [id |-> made', type |-> type, domain |-> HomeOf[type],
                                  mode |-> Head(Catalogue[type].modes), bound |-> <<"mine", FALSE>>]),
              Len(components) + 1)

\* A component of the design, or a path of the tree, is clicked.
Select(i) ==
  /\ Acts /\ i # sel
  /\ (canvas.kind = "design" /\ ~inert) \/ (\E p \in tree.ranges \cup tree.sets : p[2] = i)
  /\ sel' = i /\ UNCHANGED <<loaded, components, preview, sdk, handed, made>>
  /\ schemas' = Declared(schemas) /\ render(mount)

\* The properties' inputs edit the component they were painted for, if it is still there.
Inst == {i \in DOMAIN components : components[i].id = panel.id}

\* Mutant of PaintsOfDomain: the tree is left.
PaintsOfDomain_NoTree == renderCanvas(invalidate) /\ renderMap /\ renderDef /\ UNCHANGED <<tree, panel, inert>>

\* The properties are not painted under the person's typing.
PaintsOfDomain == renderCanvas(invalidate) /\ renderTree /\ renderMap /\ renderDef /\ UNCHANGED <<panel, inert>>

SetDomain(d) ==
  /\ Edits
  /\ \E i \in Inst : d # components[i].domain /\ components' = [components EXCEPT ![i].domain = d]
  /\ save(components', schemas)
  /\ UNCHANGED <<schemas, sel, made>> /\ PaintsOfDomain

\* What is mounted does not depend on the mode.
SetMode(mode) ==
  /\ Edits
  /\ \E i \in Inst : /\ mode \in ToSet(Catalogue[components[i].type].modes) \ {components[i].mode}
                    /\ components' = [components EXCEPT ![i].mode = mode]
  /\ save(components', schemas)
  /\ UNCHANGED <<sel, made>> /\ schemas' = Declared(schemas) /\ render(mount)

\* Live, or whose data it shows.
SetBound(bound) ==
  /\ Edits /\ UNCHANGED made
  /\ \E i \in Inst : bound # components[i].bound /\ EditedTo([components EXCEPT ![i].bound = bound], sel)

RemoveSelected ==
  /\ Edits /\ panel # NoPanel
  /\ UNCHANGED made /\ EditedTo(RemoveAt(components, sel), 0)

\* The schema editor's inputs: the schema is edited in place and the canvas is left
\* as it is; a field added or taken away paints the properties again.
SchemaEdited(fields) ==
  /\ Edits /\ panel # NoPanel
  /\ LET edit == [schemas EXCEPT ![panel.domain] = @ + 1]
     IN  /\ UNCHANGED <<components, sel, made>> /\ save(components, edit) /\ mount' = invalidate
         /\ IF fields THEN schemas' = Declared(edit) /\ renderProps ELSE schemas' = edit /\ UNCHANGED <<panel, map>>
         /\ def' = [components |-> components, schemas |-> edit] /\ UNCHANGED <<canvas, tree, inert>>

Clear ==
  /\ Edits /\ UNCHANGED made /\ EditedTo(<<>>, 0)

TogglePreview ==
  /\ Acts /\ preview' = ~preview
  /\ UNCHANGED <<loaded, components, sel, sdk, handed, made>>
  /\ schemas' = Declared(schemas) /\ render(invalidate)

\* Mutant of FirstOf: the selection stays where it was.
FirstOf_Kept(cs) == sel

FirstOf(cs) == IF cs = <<>> THEN 0 ELSE 1

Identified(n, c) == [id |-> n, type |-> c.type, domain |-> c.domain, mode |-> c.mode, bound |-> c.bound]

\* Another definition takes the canvas: every object of it is new.
Takes(held) ==
  /\ components' = [i \in DOMAIN held.components |-> Identified(made + i, held.components[i])]
  /\ made' = made + Len(held.components) /\ sel' = FirstOf(held.components)
  /\ handed' = [components |-> components', schemas |-> held.schemas]
  /\ schemas' = Declared(held.schemas)

\* onDraft: the draft is read, or read again after another tab moved it.
DraftRead(held) ==
  /\ Acts /\ sdk /\ loaded' = TRUE /\ UNCHANGED <<preview, sdk>>
  /\ Takes(held) /\ render(invalidate)

\* openInPage: a project made here from a definition, or one whose draft is yet to be read.
Open(fresh, from) ==
  /\ Acts /\ loaded' = fresh /\ UNCHANGED <<preview, sdk>>
  /\ Takes(IF fresh THEN from ELSE Nothing) /\ render(NoMount)

SdkArrives ==
  /\ ~sdk /\ sdk' = TRUE
  /\ UNCHANGED <<loaded, components, sel, preview, handed, made, steps>>
  /\ schemas' = Declared(schemas) /\ render(mount)

\* mountApp paints, and the tree with it; or it is rejected, and says why.
MountEnds(ok) ==
  /\ mount.state = "mounting"
  /\ mount' = IF ok THEN [mount EXCEPT !.state = "mounted"] ELSE NoMount
  /\ canvas' = IF ok THEN [kind |-> "app", of |-> mount.of, sel |-> 0] ELSE Says("error")
  /\ UNCHANGED <<loaded, edited, preview, sdk, handed, inert, map, panel, def, made, steps>>
  /\ IF ok THEN renderTree ELSE UNCHANGED tree

-----------------------------------------------------------------------------
Init ==
  /\ loaded = FALSE /\ components = Nothing.components /\ schemas = Nothing.schemas
  /\ sel = 0 /\ preview \in BOOLEAN /\ sdk = FALSE
  /\ handed = Nothing /\ mount = NoMount
  /\ inert = TRUE
  /\ canvas = IF preview THEN Says("loading") ELSE [kind |-> "design", of |-> <<>>, sel |-> 0]
  /\ tree = treeView(<<>>) /\ map = <<>> /\ panel = NoPanel
  /\ def = Nothing /\ made = 0 /\ steps = 0

Next ==
  \/ \E type \in DOMAIN Catalogue : Add(type)
  \/ \E i \in DOMAIN components : Select(i)
  \/ \E d \in Domains : SetDomain(d)
  \/ \E mode \in Modes : SetMode(mode)
  \/ \E bound \in Bounds : SetBound(bound)
  \/ RemoveSelected \/ Clear \/ TogglePreview \/ SdkArrives
  \/ \E fields \in BOOLEAN : SchemaEdited(fields)
  \/ \E held \in Drafts : DraftRead(held)
  \/ \E b \in BOOLEAN : MountEnds(b) \/ \E from \in Drafts : Open(b, from)

Spec == Init /\ [][Next]_vars

-----------------------------------------------------------------------------
(* What it promises.                                                       *)

\* A schema nobody declared is the default either way.
OnlyDefaults(ss) == \A d \in Domains : schemas[d] # ss[d] => ss[d] = 0 /\ schemas[d] = 1

\* Every panel shows the definition as it is, whichever handler ran last and
\* whichever panels it painted (app.js:711-722, 790-809, 729, 770).
PanelsPainted ==
  /\ tree = treeView(components)
  /\ def.components = components /\ OnlyDefaults(def.schemas)
  /\ map = IF sel = 0 THEN <<>> ELSE <<mapping(components[sel])>>
  /\ ~preview => canvas = [kind |-> "design", of |-> components, sel |-> sel]

\* What the person types in the properties is an edit of the open project's
\* definition: of the component that is selected, and of a schema it declares --
\* after another tab's draft took the canvas, and after a switch (app.js:724-788).
PanelEditsIt ==
  IF sel = 0 THEN panel = NoPanel
  ELSE panel.id = components[sel].id /\ schemas[panel.domain] # 0

\* What the person sees and what they type into are the definition as it is.
PanelsShowIt == PanelsPainted /\ PanelEditsIt

\* What is mounted, or on its way, is of the definition as it is now: no handler
\* that changes what the app shows leaves an older app in Preview (app.js:605, 729,
\* 744, 758, 761, 770, 844).
MountedIsCurrent ==
  /\ mount.state # "none" => mount.of = Shown(components, schemas)
  /\ mount.state = "mounted" => canvas = [kind |-> "app", of |-> mount.of, sel |-> 0]

\* Every edit on the canvas was given to the draft's writer, whichever panel it was
\* made in (app.js:40-44, 605, 729-788, 844).
EditsAreHanded == components = handed.components /\ OnlyDefaults(handed.schemas)

\* Nothing can be edited while a project's draft is being read: an edit then would
\* be replaced by the draft, or written over it (app.js:832-834).
UsableOnceRead == loaded <=> ~inert

\* No edit is lost on its way to the writer: none is made before the draft is read,
\* and every one made after is handed over.
EditsAreKept == EditsAreHanded /\ UsableOnceRead

\* In Preview there is an app, on its way or on the canvas, or the reason there is none.
PreviewIsAlive == preview /\ sdk => mount.state # "none" \/ canvas.kind = "error"
=============================================================================
