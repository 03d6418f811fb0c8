--------------------------- MODULE Designer_proofs --------------------------
(***************************************************************************)
(* Proofs about the design view, for any catalogue, any domains and any    *)
(* number of components and steps: that every panel shows the definition   *)
(* as it is and edits it, that what is mounted is of it, and that no edit  *)
(* is lost on its way to the draft's writer.                               *)
(***************************************************************************)
EXTENDS Designer, TLAPS

(***************************************************************************)
(* The operators.                                                          *)
(***************************************************************************)

\* What many identities are: those of fewer.
LEMMA MoreIdentities ==
  ASSUME NEW n \in Nat, NEW m \in Nat, n <= m, NEW cs \in Seq(Component(1 .. n))
  PROVE  cs \in Seq(Component(1 .. m))
<1>1. Component(1 .. n) \subseteq Component(1 .. m)
  BY DEF Component
<1> QED
  BY <1>1

LEMMA ComponentIs ==
  ASSUME NEW ids, NEW cs \in Seq(Component(ids))
  PROVE  /\ DOMAIN cs = 1 .. Len(cs) /\ Len(cs) \in Nat
         /\ \A i \in DOMAIN cs : cs[i] \in Component(ids) /\ cs[i].domain \in Domains
                                /\ cs[i].type \in DOMAIN Catalogue
<1>1. DOMAIN cs = 1 .. Len(cs) /\ Len(cs) \in Nat /\ \A i \in DOMAIN cs : cs[i] \in Component(ids)
  OBVIOUS
<1> QED
  BY <1>1 DEF Component

LEMMA RemoveAtIs ==
  ASSUME NEW S, NEW cs \in Seq(S), NEW i \in 1 .. Len(cs)
  PROVE  RemoveAt(cs, i) \in Seq(S) /\ Len(RemoveAt(cs, i)) = Len(cs) - 1
<1> DEFINE before == SubSeq(cs, 1, i - 1)
           after == SubSeq(cs, i + 1, Len(cs))
<1>1. before \in Seq(S) /\ Len(before) = i - 1
  OBVIOUS
<1>2. after \in Seq(S) /\ Len(after) = Len(cs) - i
  OBVIOUS
<1>3. RemoveAt(cs, i) = before \o after
  BY DEF RemoveAt
<1> HIDE DEF before, after
<1>4. before \o after \in Seq(S) /\ Len(before \o after) = Len(before) + Len(after)
  BY <1>1, <1>2
<1>5. Len(cs) \in Nat
  OBVIOUS
<1> QED
  BY <1>1, <1>2, <1>3, <1>4, <1>5

\* What the schema editor declares: the default, of the selected domain, where none was.
LEMMA DeclaredIs ==
  ASSUME NEW n \in Nat, components' \in Seq(Component(1 .. n)), sel' \in 0 .. Len(components'),
         NEW ss \in [Domains -> Nat]
  PROVE  /\ Declared(ss) \in [Domains -> Nat]
         /\ \A d \in Domains : Declared(ss)[d] # ss[d] => ss[d] = 0 /\ Declared(ss)[d] = 1
         /\ sel' # 0 => components'[sel'].domain \in Domains /\ Declared(ss)[components'[sel'].domain] # 0
         /\ Selected <=> sel' # 0
<1>1. /\ DOMAIN components' = 1 .. Len(components') /\ Len(components') \in Nat
      /\ \A i \in DOMAIN components' : components'[i].domain \in Domains
  BY ComponentIs
<1>2. Selected <=> sel' # 0
  BY <1>1 DEF Selected
<1>3. CASE sel' = 0
  BY <1>2, <1>3 DEF Declared
<1>4. CASE sel' # 0
  <2>1. PICK d \in Domains : d = components'[sel'].domain
    BY <1>1, <1>4
  <2>2. Declared(ss) = [ss EXCEPT ![d] = IF @ = 0 THEN 1 ELSE @]
    BY <1>2, <1>4, <2>1 DEF Declared
  <2> QED
    BY <1>2, <2>1, <2>2
<1> QED
  BY <1>3, <1>4

\* What a mount shows does not tell a default from a schema nobody declared.
LEMMA DefaultsAreShownAlike ==
  ASSUME NEW n \in Nat, NEW cs \in Seq(Component(1 .. n)),
         NEW was \in [Domains -> Nat], NEW is \in [Domains -> Nat],
         \A d \in Domains : is[d] # was[d] => was[d] = 0 /\ is[d] = 1
  PROVE  Shown(cs, is) = Shown(cs, was)
<1>1. \A i \in DOMAIN cs : cs[i].domain \in Domains
  BY ComponentIs
<1>2. \A d \in {cs[i].domain : i \in DOMAIN cs} \ {"?"} :
        (IF is[d] = 0 THEN 1 ELSE is[d]) = (IF was[d] = 0 THEN 1 ELSE was[d])
  BY <1>1
<1>3. schemasOf(cs, is) = schemasOf(cs, was)
  BY <1>2 DEF schemasOf
<1> QED
  BY <1>3 DEF Shown

(***************************************************************************)
(* The inductive invariant.                                                *)
(***************************************************************************)

\* There is a mount only in Preview, once the SDK is there.
OnlyInPreview ==
  /\ mount = [state |-> mount.state, of |-> mount.of]
  /\ mount.state # "none" => preview /\ sdk

IInv == TypeOK /\ OnlyInPreview /\ PanelsShowIt /\ MountedIsCurrent /\ EditsAreKept

\* A mount that may stay over a step: of the definition as it will be.
MayStay(from, ss) ==
  /\ from.state \in {"none", "mounting", "mounted"} /\ from = [state |-> from.state, of |-> from.of]
  /\ from.state # "none" => preview' /\ sdk' /\ from.of = Shown(components', ss)
  /\ from.state = "mounted" => canvas = [kind |-> "app", of |-> from.of, sel |-> 0]

LEMMA NoMountMayStay == \A ss : MayStay(NoMount, ss)
BY DEF NoMount, MayStay

\* The canvas is painted, and in Preview the app is mounted, of the definition as it is.
LEMMA CanvasIs ==
  ASSUME canvas.kind \in {"design", "loading", "app", "error"}, preview' \in BOOLEAN, sdk' \in BOOLEAN,
         NEW from, MayStay(from, schemas'), renderCanvas(from)
  PROVE  /\ mount'.state \in {"none", "mounting", "mounted"}
         /\ canvas'.kind \in {"design", "loading", "app", "error"}
         /\ OnlyInPreview' /\ MountedIsCurrent'
         /\ ~preview' => canvas' = [kind |-> "design", of |-> components', sel |-> sel']
<1>1. CASE ~preview'
  BY <1>1 DEF renderCanvas, MayStay, Design, OnlyInPreview, MountedIsCurrent
<1>2. CASE preview' /\ ~sdk'
  BY <1>2 DEF renderCanvas, MayStay, Says, OnlyInPreview, MountedIsCurrent
<1>3. CASE preview' /\ sdk' /\ from.state = "none"
  BY <1>3 DEF renderCanvas, OnlyInPreview, MountedIsCurrent
<1>4. CASE preview' /\ sdk' /\ from.state # "none"
  BY <1>4 DEF renderCanvas, MayStay, OnlyInPreview, MountedIsCurrent
<1> QED
  BY <1>1, <1>2, <1>3, <1>4

\* A whole render leaves every panel as the definition is, whatever it was before.
LEMMA RenderShows ==
  ASSUME canvas.kind \in {"design", "loading", "app", "error"}, preview' \in BOOLEAN, sdk' \in BOOLEAN,
         made' \in Nat, components' \in Seq(Component(1 .. made')), sel' \in 0 .. Len(components'),
         NEW ss \in [Domains -> Nat], schemas' = Declared(ss), NEW from, MayStay(from, ss), render(from)
  PROVE  /\ mount'.state \in {"none", "mounting", "mounted"}
         /\ canvas'.kind \in {"design", "loading", "app", "error"}
         /\ OnlyInPreview' /\ MountedIsCurrent' /\ PanelsShowIt' /\ UsableOnceRead'
         /\ inert' = ~loaded' /\ schemas' \in [Domains -> Nat]
<1>1. /\ schemas' \in [Domains -> Nat]
      /\ \A d \in Domains : schemas'[d] # ss[d] => ss[d] = 0 /\ schemas'[d] = 1
      /\ sel' # 0 => components'[sel'].domain \in Domains /\ schemas'[components'[sel'].domain] # 0
      /\ Selected <=> sel' # 0
  BY DeclaredIs
<1>2. MayStay(from, schemas')
  BY <1>1, DefaultsAreShownAlike DEF MayStay
<1>3. /\ mount'.state \in {"none", "mounting", "mounted"}
      /\ canvas'.kind \in {"design", "loading", "app", "error"}
      /\ OnlyInPreview' /\ MountedIsCurrent'
      /\ ~preview' => canvas' = [kind |-> "design", of |-> components', sel |-> sel']
  BY <1>2, CanvasIs DEF render
<1>4. PanelsPainted'
  BY <1>1, <1>3 DEF render, renderTree, renderProps, renderMap, renderDef, PanelsPainted, OnlyDefaults
<1>5. PanelEditsIt'
  BY <1>1 DEF render, renderProps, PanelEditsIt
<1>6. inert' = ~loaded' /\ UsableOnceRead'
  BY DEF render, Inert, UsableOnceRead
<1> QED
  BY <1>1, <1>3, <1>4, <1>5, <1>6 DEF PanelsShowIt

\* The same, of every conjunct of the invariant: what is left to show of a handler is
\* what it makes of the definition, and what it gave the writer.
LEMMA RenderKeeps ==
  ASSUME TypeOK, loaded' \in BOOLEAN, preview' \in BOOLEAN, sdk' \in BOOLEAN, steps' \in 0 .. MaxSteps,
         made' \in Nat, components' \in Seq(Component(1 .. made')), Len(components') <= MaxComponents,
         sel' \in 0 .. Len(components'),
         NEW ss \in [Domains -> Nat], schemas' = Declared(ss), NEW from, MayStay(from, ss), render(from),
         handed'.components = components',
         \A d \in Domains : ss[d] # handed'.schemas[d] => handed'.schemas[d] = 0 /\ ss[d] = 1
  PROVE  IInv'
<1>1. /\ mount'.state \in {"none", "mounting", "mounted"}
      /\ canvas'.kind \in {"design", "loading", "app", "error"}
      /\ OnlyInPreview' /\ MountedIsCurrent' /\ PanelsShowIt' /\ UsableOnceRead'
      /\ inert' = ~loaded' /\ schemas' \in [Domains -> Nat]
  BY RenderShows DEF TypeOK
<1>2. TypeOK'
  BY <1>1 DEF TypeOK
<1>3. \A d \in Domains : schemas'[d] # ss[d] => ss[d] = 0 /\ schemas'[d] = 1
  BY DeclaredIs
<1>4. EditsAreHanded'
  BY <1>1, <1>3 DEF EditsAreHanded, OnlyDefaults
<1> QED
  BY <1>1, <1>2, <1>4 DEF IInv, EditsAreKept

LEMMA TypeFacts ==
  ASSUME TypeOK
  PROVE  /\ made \in Nat /\ schemas \in [Domains -> Nat] /\ components \in Seq(Component(1 .. made))
         /\ DOMAIN components = 1 .. Len(components) /\ Len(components) \in Nat
         /\ \A i \in DOMAIN components : /\ components[i] \in Component(1 .. made)
                                        /\ components[i].domain \in Domains
                                        /\ components[i].type \in DOMAIN Catalogue
         /\ sel \in 0 .. Len(components) /\ Len(components) <= MaxComponents
BY ComponentIs DEF TypeOK

LEMMA InitIInv == Init => IInv
<1> SUFFICES ASSUME Init PROVE IInv
  OBVIOUS
<1>1. /\ components = <<>> /\ DOMAIN components = {} /\ Len(components) = 0
      /\ schemas = [d \in Domains |-> 0] /\ Nothing.schemas = schemas /\ Nothing.components = components
  BY DEF Init, Nothing
<1>2. canvas.kind \in {"design", "loading", "app", "error"}
      /\ (~preview => canvas = [kind |-> "design", of |-> <<>>, sel |-> 0])
  BY DEF Init, Says
<1>3. TypeOK
  <2>1. components \in Seq(Component(1 .. made)) /\ Len(components) <= MaxComponents
    BY <1>1, ConstantsOK
  <2>2. schemas \in [Domains -> Nat] /\ sel \in 0 .. Len(components) /\ made \in Nat /\ steps \in 0 .. MaxSteps
    BY <1>1, ConstantsOK DEF Init
  <2>3. loaded \in BOOLEAN /\ preview \in BOOLEAN /\ sdk \in BOOLEAN /\ inert \in BOOLEAN
        /\ mount.state \in {"none", "mounting", "mounted"}
    BY DEF Init, NoMount
  <2> QED
    BY <1>2, <2>1, <2>2, <2>3 DEF TypeOK
<1>4. OnlyInPreview /\ MountedIsCurrent
  BY DEF Init, NoMount, OnlyInPreview, MountedIsCurrent
<1>5. PanelsShowIt
  BY <1>1, <1>2 DEF Init, PanelsShowIt, PanelsPainted, PanelEditsIt, OnlyDefaults
<1>6. EditsAreKept
  BY <1>1 DEF Init, EditsAreKept, EditsAreHanded, UsableOnceRead, OnlyDefaults
<1> QED
  BY <1>3, <1>4, <1>5, <1>6 DEF IInv

\* An edit after which the app is mounted anew and everything painted.
LEMMA EditedToKeeps ==
  ASSUME IInv, Edits, made' \in Nat, NEW cs \in Seq(Component(1 .. made')), Len(cs) <= MaxComponents,
         NEW s \in 0 .. Len(cs), EditedTo(cs, s)
  PROVE  IInv'
<1>1. /\ components' = cs /\ sel' = s /\ schemas' = Declared(schemas) /\ render(NoMount)
      /\ handed'.components = components' /\ handed'.schemas = schemas
  BY DEF EditedTo, save, invalidate
<1>2. UNCHANGED <<loaded, preview, sdk>> /\ steps' \in 0 .. MaxSteps
  BY ConstantsOK DEF IInv, TypeOK, Edits, Acts
<1>3. TypeOK /\ loaded' \in BOOLEAN /\ preview' \in BOOLEAN /\ sdk' \in BOOLEAN
      /\ schemas \in [Domains -> Nat] /\ MayStay(NoMount, schemas)
  BY <1>2, NoMountMayStay DEF IInv, TypeOK
<1> QED
  BY <1>1, <1>2, <1>3, RenderKeeps

LEMMA AddKeeps ==
  ASSUME IInv, NEW type \in DOMAIN Catalogue, Add(type)
  PROVE  IInv'
<1> DEFINE new == [id |-> made', type |-> type, domain |-> HomeOf[type],
                   mode |-> Head(Catalogue[type].modes), bound |-> <<"mine", FALSE>>]
           cs == Append(components, new)
<1>1. /\ TypeOK /\ Edits /\ Len(components) < MaxComponents /\ made' = made + 1
      /\ EditedTo(cs, Len(components) + 1)
  BY DEF IInv, Add
<1>2. made \in Nat /\ made' \in Nat /\ components \in Seq(Component(1 .. made')) /\ Len(components) \in Nat
  BY <1>1, TypeFacts, MoreIdentities
<1>3. new \in Component(1 .. made')
  <2>1. HomeOf[type] \in Domains /\ <<"mine", FALSE>> \in Bounds
    BY ConstantsOK DEF Bounds
  <2>2. Head(Catalogue[type].modes) \in Modes
    <3>1. Catalogue[type].modes \in Seq(Modes) /\ Catalogue[type].modes # <<>>
      BY ConstantsOK DEF Valid
    <3> QED
      BY <3>1
  <2> QED
    BY <1>1, <1>2, <2>1, <2>2 DEF Component
<1> HIDE DEF new
<1>4. cs \in Seq(Component(1 .. made')) /\ Len(cs) = Len(components) + 1
  BY <1>2, <1>3
<1> HIDE DEF cs
<1>5. Len(cs) <= MaxComponents /\ Len(components) + 1 \in 0 .. Len(cs)
  BY <1>1, <1>2, <1>4, ConstantsOK
<1> QED
  BY <1>1, <1>2, <1>4, <1>5, EditedToKeeps DEF cs

\* An edit of one component in place keeps its identity.
LEMMA InPlace ==
  ASSUME NEW n \in Nat, NEW cs \in Seq(Component(1 .. n)), NEW i \in DOMAIN cs,
         NEW c \in Component(1 .. n), c.id = cs[i].id
  PROVE  /\ [cs EXCEPT ![i] = c] \in Seq(Component(1 .. n))
         /\ Len([cs EXCEPT ![i] = c]) = Len(cs) /\ DOMAIN [cs EXCEPT ![i] = c] = DOMAIN cs
         /\ \A j \in DOMAIN cs : [cs EXCEPT ![i] = c][j].id = cs[j].id
<1>1. /\ [cs EXCEPT ![i] = c] \in Seq(Component(1 .. n))
      /\ Len([cs EXCEPT ![i] = c]) = Len(cs) /\ DOMAIN [cs EXCEPT ![i] = c] = DOMAIN cs
  OBVIOUS
<1>2. \A j \in DOMAIN cs : [cs EXCEPT ![i] = c][j] = IF j = i THEN c ELSE cs[j]
  OBVIOUS
<1> QED
  BY <1>1, <1>2

LEMMA SetBoundKeeps ==
  ASSUME IInv, NEW bound \in Bounds, SetBound(bound)
  PROVE  IInv'
<1>1. PICK i \in DOMAIN components : EditedTo([components EXCEPT ![i].bound = bound], sel)
  BY DEF SetBound, Inst
<1>2. TypeOK /\ Edits /\ made' = made
  BY DEF IInv, SetBound
<1> DEFINE c == [components[i] EXCEPT !.bound = bound]
<1>3. c \in Component(1 .. made) /\ c.id = components[i].id
  BY <1>2, TypeFacts DEF Component
<1>4. [components EXCEPT ![i].bound = bound] = [components EXCEPT ![i] = c]
  OBVIOUS
<1> HIDE DEF c
<1> DEFINE cs == [components EXCEPT ![i] = c]
<1>5. cs \in Seq(Component(1 .. made)) /\ Len(cs) = Len(components)
  BY <1>2, <1>3, TypeFacts, InPlace
<1>6. EditedTo(cs, sel)
  BY <1>1, <1>4
<1> HIDE DEF cs
<1>7. cs \in Seq(Component(1 .. made')) /\ made' \in Nat /\ Len(cs) <= MaxComponents /\ sel \in 0 .. Len(cs)
  BY <1>2, <1>5, TypeFacts
<1> QED
  BY <1>2, <1>6, <1>7, EditedToKeeps

LEMMA RemoveKeeps ==
  ASSUME IInv, RemoveSelected \/ Clear
  PROVE  IInv'
<1>1. TypeOK /\ Edits /\ made' = made /\ made \in Nat
  BY TypeFacts DEF IInv, RemoveSelected, Clear
<1>2. CASE RemoveSelected
  <2>1. sel # 0
    BY <1>2 DEF RemoveSelected, IInv, PanelsShowIt, PanelEditsIt
  <2>2. sel \in 1 .. Len(components) /\ components \in Seq(Component(1 .. made))
        /\ Len(components) \in Nat /\ Len(components) <= MaxComponents
    BY <1>1, <2>1, TypeFacts
  <2> DEFINE cs == RemoveAt(components, sel)
  <2>3. cs \in Seq(Component(1 .. made)) /\ Len(cs) = Len(components) - 1
    BY <2>2, RemoveAtIs
  <2>4. EditedTo(cs, 0)
    BY <1>2 DEF RemoveSelected
  <2> HIDE DEF cs
  <2>5. cs \in Seq(Component(1 .. made')) /\ Len(cs) <= MaxComponents /\ 0 \in 0 .. Len(cs) /\ made' \in Nat
    BY <1>1, <2>2, <2>3, ConstantsOK
  <2> QED
    BY <1>1, <2>4, <2>5, EditedToKeeps
<1>3. CASE Clear
  <2>1. <<>> \in Seq(Component(1 .. made')) /\ Len(<<>>) <= MaxComponents /\ 0 \in 0 .. Len(<<>>)
    BY ConstantsOK
  <2>2. EditedTo(<<>>, 0)
    BY <1>3 DEF Clear
  <2> QED
    BY <1>1, <2>1, <2>2, EditedToKeeps
<1> QED
  BY <1>2, <1>3

\* What stays mounted, and what the writer has, when the definition stays.
LEMMA SameDefinition ==
  ASSUME IInv, UNCHANGED <<preview, sdk, handed>>
  PROVE  /\ UNCHANGED components => MayStay(mount, schemas)
         /\ handed.components = components
         /\ \A d \in Domains : schemas[d] # handed.schemas[d] => handed.schemas[d] = 0 /\ schemas[d] = 1
BY DEF IInv, TypeOK, OnlyInPreview, MountedIsCurrent, MayStay, EditsAreKept, EditsAreHanded, OnlyDefaults

LEMMA RendersKeep ==
  ASSUME IInv,
         \/ \E i \in DOMAIN components : Select(i)
         \/ TogglePreview \/ SdkArrives
  PROVE  IInv'
<1>1. /\ TypeOK /\ UNCHANGED <<loaded, components, handed, made>>
      /\ schemas' = Declared(schemas)
      /\ preview' \in BOOLEAN /\ sdk' \in BOOLEAN /\ steps' \in 0 .. MaxSteps
      /\ sel' \in 0 .. Len(components)
  <2>1. TypeOK
    BY DEF IInv
  <2>2. CASE \E i \in DOMAIN components : Select(i)
    BY <2>1, <2>2, TypeFacts, ConstantsOK DEF Select, Acts, TypeOK
  <2>3. CASE TogglePreview
    BY <2>1, <2>3, ConstantsOK DEF TogglePreview, Acts, TypeOK
  <2>4. CASE SdkArrives
    BY <2>1, <2>4 DEF SdkArrives, TypeOK
  <2> QED
    BY <2>2, <2>3, <2>4
<1>2. /\ loaded' \in BOOLEAN /\ made' \in Nat /\ components' \in Seq(Component(1 .. made'))
      /\ Len(components') <= MaxComponents /\ sel' \in 0 .. Len(components')
      /\ schemas \in [Domains -> Nat]
  BY <1>1, TypeFacts DEF TypeOK
<1>3. /\ handed'.components = components'
      /\ \A d \in Domains : schemas[d] # handed'.schemas[d] => handed'.schemas[d] = 0 /\ schemas[d] = 1
  BY <1>1 DEF IInv, EditsAreKept, EditsAreHanded, OnlyDefaults
<1>4. \E from : MayStay(from, schemas) /\ render(from)
  <2>1. CASE \E i \in DOMAIN components : Select(i)
    <3>1. render(mount) /\ UNCHANGED <<preview, sdk>>
      BY <2>1 DEF Select
    <3>2. MayStay(mount, schemas)
      BY <1>1, <3>1, SameDefinition
    <3> QED
      BY <3>1, <3>2
  <2>2. CASE TogglePreview
    BY <2>2, NoMountMayStay DEF TogglePreview, invalidate
  <2>3. CASE SdkArrives
    <3>1. render(mount) /\ ~sdk
      BY <2>3 DEF SdkArrives
    <3>2. mount = [state |-> "none", of |-> mount.of] /\ mount.state = "none"
      BY <3>1 DEF IInv, TypeOK, OnlyInPreview
    <3>3. MayStay(mount, schemas)
      BY <3>2 DEF MayStay
    <3> QED
      BY <3>1, <3>3
  <2> QED
    BY <2>1, <2>2, <2>3
<1> QED
  BY <1>1, <1>2, <1>3, <1>4, RenderKeeps

LEMMA SetModeKeeps ==
  ASSUME IInv, NEW mode \in Modes, SetMode(mode)
  PROVE  IInv'
<1>1. PICK i \in DOMAIN components : components' = [components EXCEPT ![i].mode = mode]
  BY DEF SetMode, Inst
<1>2. /\ TypeOK /\ UNCHANGED <<loaded, preview, sdk, sel, made>> /\ steps' \in 0 .. MaxSteps
      /\ handed' = [components |-> components', schemas |-> schemas]
      /\ schemas' = Declared(schemas) /\ render(mount)
  BY ConstantsOK DEF IInv, SetMode, Edits, Acts, TypeOK, save
<1> DEFINE c == [components[i] EXCEPT !.mode = mode]
<1>3. /\ c \in Component(1 .. made) /\ c.id = components[i].id
      /\ c.type = components[i].type /\ c.domain = components[i].domain /\ c.bound = components[i].bound
  BY <1>2, TypeFacts DEF Component
<1>4. components' = [components EXCEPT ![i] = c]
  BY <1>1
<1> HIDE DEF c
<1>5. /\ components' \in Seq(Component(1 .. made)) /\ Len(components') = Len(components)
      /\ DOMAIN components' = DOMAIN components
      /\ \A j \in DOMAIN components : components'[j] = IF j = i THEN c ELSE components[j]
  <2>1. components \in Seq(Component(1 .. made)) /\ made \in Nat
    BY <1>2, TypeFacts
  <2>2. \A j \in DOMAIN components : components'[j] = IF j = i THEN c ELSE components[j]
    BY <1>4, <2>1
  <2> QED
    BY <1>3, <1>4, <2>1, <2>2, InPlace
\* What is mounted says nothing of the mode.
<1>6. Shown(components', schemas) = Shown(components, schemas)
  <2>1. \A j \in DOMAIN components : /\ components'[j].type = components[j].type
                                     /\ components'[j].domain = components[j].domain
                                     /\ components'[j].bound = components[j].bound
    BY <1>3, <1>5
  <2>2. [j \in DOMAIN components' |->
           [type |-> components'[j].type, domain |-> components'[j].domain, bound |-> components'[j].bound]]
        = [j \in DOMAIN components |->
           [type |-> components[j].type, domain |-> components[j].domain, bound |-> components[j].bound]]
    BY <1>5, <2>1
  <2>3. {components'[j].domain : j \in DOMAIN components'} = {components[j].domain : j \in DOMAIN components}
    BY <1>5, <2>1
  <2>4. schemasOf(components', schemas) = schemasOf(components, schemas)
    BY <2>3 DEF schemasOf
  <2> QED
    BY <2>2, <2>4 DEF Shown
<1>7. MayStay(mount, schemas)
  BY <1>2, <1>6 DEF IInv, TypeOK, OnlyInPreview, MountedIsCurrent, MayStay
<1>8. /\ loaded' \in BOOLEAN /\ preview' \in BOOLEAN /\ sdk' \in BOOLEAN /\ made' \in Nat
      /\ components' \in Seq(Component(1 .. made')) /\ Len(components') <= MaxComponents
      /\ sel' \in 0 .. Len(components') /\ schemas \in [Domains -> Nat]
      /\ handed'.components = components' /\ handed'.schemas = schemas
  BY <1>2, <1>5, TypeFacts DEF TypeOK
<1> QED
  BY <1>2, <1>7, <1>8, RenderKeeps

\* Another definition takes the canvas.
LEMMA TakesIs ==
  ASSUME TypeOK, NEW cs \in Seq(Kept), Len(cs) <= MaxComponents, NEW ss \in [Domains -> Nat],
         Takes([components |-> cs, schemas |-> ss])
  PROVE  /\ made' \in Nat /\ components' \in Seq(Component(1 .. made')) /\ Len(components') <= MaxComponents
         /\ sel' \in 0 .. Len(components') /\ schemas' = Declared(ss)
         /\ handed'.components = components' /\ handed'.schemas = ss
<1>1. /\ components' = [i \in DOMAIN cs |-> Identified(made + i, cs[i])]
      /\ made' = made + Len(cs) /\ sel' = FirstOf(cs)
      /\ handed' = [components |-> components', schemas |-> ss] /\ schemas' = Declared(ss)
  BY DEF Takes
<1>2. made \in Nat /\ Len(cs) \in Nat /\ DOMAIN cs = 1 .. Len(cs) /\ \A i \in DOMAIN cs : cs[i] \in Kept
  BY TypeFacts
<1>3. \A i \in 1 .. Len(cs) : Identified(made + i, cs[i]) \in Component(1 .. made')
  <2> SUFFICES ASSUME NEW i \in 1 .. Len(cs) PROVE Identified(made + i, cs[i]) \in Component(1 .. made')
    OBVIOUS
  <2>1. made + i \in 1 .. made' /\ cs[i] \in Kept
    BY <1>1, <1>2
  <2> QED
    BY <2>1 DEF Kept, Component, Identified
<1>4. components' \in Seq(Component(1 .. made')) /\ Len(components') = Len(cs)
  <2>1. components' = [i \in 1 .. Len(cs) |-> Identified(made + i, cs[i])]
    BY <1>1, <1>2
  <2> QED
    BY <1>2, <1>3, <2>1
<1>5. sel' \in 0 .. Len(components')
  <2>1. cs # <<>> => Len(cs) > 0
    BY <1>2
  <2> QED
    BY <1>1, <1>2, <1>4, <2>1 DEF FirstOf
<1> QED
  BY <1>1, <1>2, <1>4, <1>5

LEMMA TakesKeeps ==
  ASSUME IInv, \/ \E held \in Drafts : DraftRead(held)
               \/ \E fresh \in BOOLEAN, from \in Drafts : Open(fresh, from)
  PROVE  IInv'
<1>1. PICK held : /\ held.components \in Seq(Kept) /\ Len(held.components) <= MaxComponents
                  /\ held.schemas \in [Domains -> Nat] /\ Takes(held) /\ render(NoMount)
  <2>1. ASSUME NEW held \in Drafts, DraftRead(held)
        PROVE  /\ held.components \in Seq(Kept) /\ Len(held.components) <= MaxComponents
               /\ held.schemas \in [Domains -> Nat] /\ Takes(held) /\ render(NoMount)
    BY <2>1, ConstantsOK DEF DraftRead, invalidate
  <2>2. ASSUME NEW fresh \in BOOLEAN, NEW from \in Drafts, Open(fresh, from)
        PROVE  \E held : /\ held.components \in Seq(Kept) /\ Len(held.components) <= MaxComponents
                         /\ held.schemas \in [Domains -> Nat] /\ Takes(held) /\ render(NoMount)
    <3>1. /\ Nothing.components \in Seq(Kept) /\ Len(Nothing.components) <= MaxComponents
          /\ Nothing.schemas \in [Domains -> Nat]
      BY ConstantsOK DEF Nothing
    <3>2. CASE fresh
      BY <2>2, <3>2, ConstantsOK DEF Open
    <3>3. CASE ~fresh
      <4>1. Takes(Nothing) /\ render(NoMount)
        BY <2>2, <3>3 DEF Open
      <4> QED
        BY <3>1, <4>1
    <3> QED
      BY <3>2, <3>3
  <2> QED
    BY <2>1, <2>2
<1>2. TypeOK /\ loaded' \in BOOLEAN /\ preview' \in BOOLEAN /\ sdk' \in BOOLEAN /\ steps' \in 0 .. MaxSteps
  <2>1. loaded' \in BOOLEAN
    BY DEF DraftRead, Open
  <2>2. UNCHANGED <<preview, sdk>> /\ Acts
    BY DEF DraftRead, Open
  <2> QED
    BY <2>1, <2>2, ConstantsOK DEF IInv, TypeOK, Acts
<1> DEFINE cs == held.components
           ss == held.schemas
<1>3. Takes([components |-> cs, schemas |-> ss])
  BY <1>1 DEF Takes
<1>4. cs \in Seq(Kept) /\ Len(cs) <= MaxComponents /\ ss \in [Domains -> Nat]
  BY <1>1
<1> HIDE DEF cs, ss
<1> QED
  BY <1>1, <1>2, <1>3, <1>4, TakesIs, NoMountMayStay, RenderKeeps

\* A domain typed in the properties: they are not painted under the person's typing.
LEMMA SetDomainKeeps ==
  ASSUME IInv, NEW d \in Domains, SetDomain(d)
  PROVE  IInv'
<1>1. PICK i \in DOMAIN components : components' = [components EXCEPT ![i].domain = d]
  BY DEF SetDomain, Inst
<1>2. /\ TypeOK /\ UNCHANGED <<loaded, preview, sdk, sel, made, schemas, panel, inert>>
      /\ steps' \in 0 .. MaxSteps
      /\ handed' = [components |-> components', schemas |-> schemas]
      /\ renderCanvas(NoMount) /\ renderTree /\ renderMap /\ renderDef
  BY ConstantsOK DEF IInv, SetDomain, Edits, Acts, TypeOK, save, PaintsOfDomain, invalidate
<1> DEFINE c == [components[i] EXCEPT !.domain = d]
<1>3. c \in Component(1 .. made) /\ c.id = components[i].id
  BY <1>2, TypeFacts DEF Component
<1>4. components' = [components EXCEPT ![i] = c]
  BY <1>1
<1> HIDE DEF c
<1>5. /\ components' \in Seq(Component(1 .. made)) /\ Len(components') = Len(components)
      /\ DOMAIN components' = DOMAIN components
      /\ \A j \in DOMAIN components : components'[j].id = components[j].id
  BY <1>2, <1>3, <1>4, TypeFacts, InPlace
<1>6. /\ mount'.state \in {"none", "mounting", "mounted"}
      /\ canvas'.kind \in {"design", "loading", "app", "error"}
      /\ OnlyInPreview' /\ MountedIsCurrent'
      /\ ~preview' => canvas' = [kind |-> "design", of |-> components', sel |-> sel']
  <2>1. preview' \in BOOLEAN /\ sdk' \in BOOLEAN /\ MayStay(NoMount, schemas')
        /\ canvas.kind \in {"design", "loading", "app", "error"}
    BY <1>2, NoMountMayStay DEF TypeOK
  <2> QED
    BY <1>2, <2>1, CanvasIs
<1>7. sel \in 0 .. Len(components) /\ DOMAIN components = 1 .. Len(components) /\ Len(components) \in Nat
  BY <1>2, TypeFacts
<1>8. Selected <=> sel # 0
  BY <1>2, <1>5, <1>7 DEF Selected
<1>9. PanelsPainted'
  BY <1>2, <1>6, <1>8 DEF renderTree, renderMap, renderDef, PanelsPainted, OnlyDefaults
<1>10. PanelEditsIt'
  BY <1>2, <1>5, <1>7 DEF IInv, PanelsShowIt, PanelEditsIt
<1>11. EditsAreKept'
  BY <1>2 DEF IInv, EditsAreKept, EditsAreHanded, UsableOnceRead, OnlyDefaults
<1>12. TypeOK'
  BY <1>2, <1>5, <1>6 DEF TypeOK
<1> QED
  BY <1>6, <1>9, <1>10, <1>11, <1>12 DEF IInv, PanelsShowIt

LEMMA SchemaEditedKeeps ==
  ASSUME IInv, NEW fields \in BOOLEAN, SchemaEdited(fields)
  PROVE  IInv'
<1> DEFINE edit == [schemas EXCEPT ![panel.domain] = @ + 1]
<1>1. /\ TypeOK /\ UNCHANGED <<loaded, preview, sdk, components, sel, made, canvas, tree, inert>>
      /\ steps' \in 0 .. MaxSteps
      /\ handed' = [components |-> components, schemas |-> edit] /\ mount' = NoMount
      /\ def' = [components |-> components, schemas |-> edit]
      /\ IF fields THEN schemas' = Declared(edit) /\ renderProps ELSE schemas' = edit /\ UNCHANGED <<panel, map>>
      /\ panel # NoPanel
  BY ConstantsOK DEF IInv, SchemaEdited, Edits, Acts, TypeOK, save, invalidate
<1>2. /\ sel # 0 /\ schemas[panel.domain] # 0
      /\ sel \in 0 .. Len(components) /\ components \in Seq(Component(1 .. made)) /\ made \in Nat
      /\ DOMAIN components = 1 .. Len(components) /\ schemas \in [Domains -> Nat]
  BY <1>1, TypeFacts DEF IInv, PanelsShowIt, PanelEditsIt
<1>3. edit \in [Domains -> Nat] /\ edit[panel.domain] # 0
  <2>1. CASE panel.domain \in Domains
    <3>1. PICK d \in Domains : d = panel.domain
      BY <2>1
    <3>2. edit = [schemas EXCEPT ![d] = schemas[d] + 1] /\ schemas[d] \in Nat
      BY <1>2, <3>1
    <3> HIDE DEF edit
    <3> QED
      BY <1>2, <3>1, <3>2
  <2>2. CASE panel.domain \notin Domains
    <3>1. edit = schemas
      BY <1>2, <2>2
    <3> QED
      BY <1>2, <3>1
  <2> QED
    BY <2>1, <2>2
<1>4. \A d \in Domains : schemas[d] # 0 => edit[d] # 0
  BY <1>2
<1> HIDE DEF edit
<1>5. /\ Declared(edit) \in [Domains -> Nat]
      /\ \A d \in Domains : Declared(edit)[d] # edit[d] => edit[d] = 0 /\ Declared(edit)[d] = 1
      /\ sel' # 0 => components'[sel'].domain \in Domains /\ Declared(edit)[components'[sel'].domain] # 0
      /\ Selected <=> sel' # 0
  BY <1>1, <1>2, <1>3, DeclaredIs
<1>6. /\ schemas' \in [Domains -> Nat]
      /\ \A d \in Domains : schemas'[d] # edit[d] => edit[d] = 0 /\ schemas'[d] = 1
  BY <1>1, <1>3, <1>5
<1>7. TypeOK' /\ OnlyInPreview' /\ MountedIsCurrent'
  BY <1>1, <1>6 DEF TypeOK, OnlyInPreview, MountedIsCurrent, NoMount
<1>8. PanelsPainted'
  <2>1. /\ tree' = treeView(components') /\ def'.components = components' /\ OnlyDefaults(def.schemas)'
        /\ ~preview' => canvas' = [kind |-> "design", of |-> components', sel |-> sel']
    BY <1>1, <1>6 DEF IInv, PanelsShowIt, PanelsPainted, OnlyDefaults
  <2>2. map' = <<mapping(components'[sel'])>>
    BY <1>1, <1>2, <1>5 DEF IInv, PanelsShowIt, PanelsPainted, renderProps, renderMap
  <2> QED
    BY <1>1, <1>2, <2>1, <2>2 DEF PanelsPainted
<1>9. PanelEditsIt'
  <2>1. CASE fields
    BY <1>1, <1>2, <1>5, <2>1 DEF renderProps, PanelEditsIt
  <2>2. CASE ~fields
    <3>1. schemas' = edit /\ panel' = panel /\ panel.id = components[sel].id
      BY <1>1, <1>2, <2>2 DEF IInv, PanelsShowIt, PanelEditsIt
    <3> QED
      BY <1>1, <1>2, <1>3, <3>1 DEF PanelEditsIt
  <2> QED
    BY <2>1, <2>2
<1>10. EditsAreKept'
  BY <1>1, <1>6 DEF IInv, EditsAreKept, EditsAreHanded, UsableOnceRead, OnlyDefaults
<1> QED
  BY <1>7, <1>8, <1>9, <1>10 DEF IInv, PanelsShowIt

LEMMA MountEndsKeeps ==
  ASSUME IInv, NEW ok \in BOOLEAN, MountEnds(ok)
  PROVE  IInv'
<1>1. /\ UNCHANGED <<loaded, components, schemas, sel, preview, sdk, handed, inert, map, panel, def, made, steps>>
      /\ mount = [state |-> mount.state, of |-> mount.of] /\ mount.state = "mounting" /\ preview /\ sdk
      /\ mount.of = Shown(components, schemas)
  BY DEF MountEnds, edited, IInv, OnlyInPreview, MountedIsCurrent
<1>2. /\ tree' = treeView(components)
      /\ mount'.state \in {"none", "mounted"} /\ canvas'.kind \in {"app", "error"}
      /\ mount' = [state |-> mount'.state, of |-> mount'.of]
      /\ mount'.state = "mounted" => mount'.of = mount.of /\ canvas' = [kind |-> "app", of |-> mount.of, sel |-> 0]
  <2>1. CASE ok
    <3>1. mount' = [mount EXCEPT !.state = "mounted"] /\ canvas' = [kind |-> "app", of |-> mount.of, sel |-> 0]
          /\ tree' = treeView(components)
      BY <1>1, <2>1 DEF MountEnds, renderTree
    <3>2. PICK of : mount = [state |-> "mounting", of |-> of]
      BY <1>1
    <3>3. mount' = [state |-> "mounted", of |-> of]
      BY <3>1, <3>2
    <3> QED
      BY <3>1, <3>2, <3>3
  <2>2. CASE ~ok
    BY <2>2 DEF MountEnds, NoMount, Says, IInv, PanelsShowIt, PanelsPainted
  <2> QED
    BY <2>1, <2>2
<1>3. TypeOK'
  BY <1>1, <1>2 DEF IInv, TypeOK
<1>4. OnlyInPreview' /\ MountedIsCurrent'
  BY <1>1, <1>2 DEF OnlyInPreview, MountedIsCurrent
<1>5. PanelsShowIt'
  BY <1>1, <1>2 DEF IInv, PanelsShowIt, PanelsPainted, PanelEditsIt, OnlyDefaults
<1>6. EditsAreKept'
  BY <1>1 DEF IInv, EditsAreKept, EditsAreHanded, UsableOnceRead, OnlyDefaults
<1> QED
  BY <1>3, <1>4, <1>5, <1>6 DEF IInv

LEMMA StutterKeeps == IInv /\ UNCHANGED vars => IInv'
<1> SUFFICES ASSUME IInv, UNCHANGED vars PROVE IInv'
  OBVIOUS
<1> USE DEF vars, edited, views
<1>1. TypeOK' /\ OnlyInPreview' /\ MountedIsCurrent'
  BY DEF IInv, TypeOK, OnlyInPreview, MountedIsCurrent
<1>2. PanelsShowIt' /\ EditsAreKept'
  BY DEF IInv, PanelsShowIt, PanelsPainted, PanelEditsIt, OnlyDefaults, EditsAreKept, EditsAreHanded, UsableOnceRead
<1> QED
  BY <1>1, <1>2 DEF IInv

LEMMA NextIInv == IInv /\ [Next]_vars => IInv'
<1> SUFFICES ASSUME IInv, Next PROVE IInv'
  BY StutterKeeps
<1>1. ASSUME NEW type \in DOMAIN Catalogue, Add(type) PROVE IInv'
  BY <1>1, AddKeeps
<1>2. ASSUME NEW d \in Domains, SetDomain(d) PROVE IInv'
  BY <1>2, SetDomainKeeps
<1>3. ASSUME NEW mode \in Modes, SetMode(mode) PROVE IInv'
  BY <1>3, SetModeKeeps
<1>4. ASSUME NEW bound \in Bounds, SetBound(bound) PROVE IInv'
  BY <1>4, SetBoundKeeps
<1>5. ASSUME NEW fields \in BOOLEAN, SchemaEdited(fields) PROVE IInv'
  BY <1>5, SchemaEditedKeeps
<1>6. ASSUME NEW ok \in BOOLEAN, MountEnds(ok) PROVE IInv'
  BY <1>6, MountEndsKeeps
<1> QED
  BY <1>1, <1>2, <1>3, <1>4, <1>5, <1>6, RemoveKeeps, RendersKeep, TakesKeeps DEF Next

LEMMA AlwaysIInv == Spec => []IInv
BY InitIInv, NextIInv, PTL DEF Spec

(***************************************************************************)
(* The theorems.                                                           *)
(***************************************************************************)

\* The definition, the selection and what is painted are always of their kind (app.js).
THEOREM TypeCorrect == Spec => []TypeOK
<1>1. IInv => TypeOK
  BY DEF IInv
<1> QED
  BY <1>1, AlwaysIInv, PTL

\* Whichever handler ran last and whichever panels it painted, each shows the definition
\* as it is, and the properties edit the component that is selected (app.js:605-850).
THEOREM EveryPanelShowsIt == Spec => []PanelsShowIt
<1>1. IInv => PanelsShowIt
  BY DEF IInv
<1> QED
  BY <1>1, AlwaysIInv, PTL

\* No handler that changes what the app shows leaves an older app in Preview: a change of
\* mode and a declared default do not change it, and every other one invalidates.
THEOREM NoOlderApp == Spec => []MountedIsCurrent
<1>1. IInv => MountedIsCurrent
  BY DEF IInv
<1> QED
  BY <1>1, AlwaysIInv, PTL

\* Every edit was given to the draft's writer, and none can be made before the draft is
\* read (`save`, `render`).
THEOREM NoEditIsLost == Spec => []EditsAreKept
<1>1. IInv => EditsAreKept
  BY DEF IInv
<1> QED
  BY <1>1, AlwaysIInv, PTL

=============================================================================
