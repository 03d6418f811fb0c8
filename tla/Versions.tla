------------------------------ MODULE Versions -----------------------------
(***************************************************************************)
(* What the builder runs and what a project was made with (versions.js,    *)
(* project-versions.js): the comparisons, pure, and what each one says.    *)
(*                                                                         *)
(* A revision is its first six digits, those after them, how many of them  *)
(* are given and whether its tree was modified; `NoRev` is no revision.    *)
(* A contract's hash, the tree library and the format tag are numbers, 0   *)
(* where there is none: two spellings of one digest compare equal.         *)
(***************************************************************************)
EXTENDS Naturals, Sequences, FiniteSetsExt

NoRev   == [six |-> "", rest |-> "", len |-> 0, dirty |-> FALSE]
Unknown == [six |-> "unknow", rest |-> "n", len |-> 7, dirty |-> FALSE]

\* Mutant of sameRev: what both give is compared, however little that is.
sameRev_Short(a, b) ==
  LET n == Min({a.len, b.len}) IN n > 0 /\ a.six = b.six /\ (n > 6 => a.rest = b.rest)

\* Seven digits or no match; a modified tree's revision is compared without its mark.
sameRev(a, b) == Min({a.len, b.len}) >= 7 /\ a.six = b.six /\ a.rest = b.rest

\* verification: how the loaded SDK compares with the revision this build pinned.
verification(pinned, rev, profile) ==
  CASE rev = NoRev -> "unverified"
    [] rev = Unknown \/ (rev # NoRev /\ ~sameRev(rev, pinned)) -> "mismatch"
    [] OTHER -> IF ~rev.dirty THEN "ok" ELSE IF profile = "release" THEN "warn" ELSE "info"

\* The released table: epochs [number, code] in the file's order.
Holding(hash, released) == {i \in DOMAIN released : hash \in released[i].code}

\* releaseLabel: the first epoch that holds it.
releaseLabel(hash, released) ==
  IF hash = 0 THEN [state |-> "unknown", epoch |-> 0]
  ELSE IF Holding(hash, released) = {} THEN [state |-> "info", epoch |-> 0]
  ELSE [state |-> "ok", epoch |-> released[Min(Holding(hash, released))].number]

\* codeState's `mine`: the last one.
Mine(holding) == Max(holding)

\* codeState: what is said of a contract's code that a project was made with.
codeState(hash, released, current) ==
  LET holding == Holding(hash, released)
  IN  CASE hash = 0 -> "unrecorded"
        [] hash # 0 /\ released = <<>> -> IF current \notin {0, hash} THEN "earlier" ELSE "unreleased"
        [] hash # 0 /\ released # <<>> /\ holding = {} -> "unlisted"
        [] OTHER -> IF \A i \in DOMAIN released : released[i].number <= released[Mine(holding)].number
                      THEN "current" ELSE "superseded"

-----------------------------------------------------------------------------
(* The stamp, and what has moved on since.                                 *)

Base == {"SDK", "freenet-prolly", "tree-format"}
Absent(part) == IF part = "SDK" THEN NoRev ELSE 0

\* stamp: per part, what the SDK says it is, else what the build pinned.
stamp(baked, sdk) ==
  [part \in Base \cup DOMAIN baked.code |->
     CASE part = "SDK" -> IF sdk.rev # NoRev THEN sdk.rev ELSE baked.sdkRev
       [] part = "freenet-prolly" -> sdk.prolly
       [] part = "tree-format" -> sdk.format
       [] OTHER -> baked.code[part]]

\* drift: the parts that both records name, differently.
drift(stamped, baked, sdk) ==
  LET now == stamp(baked, sdk)
  IN  {part \in DOMAIN stamped \cap DOMAIN now :
         Absent(part) \notin {stamped[part], now[part]} /\ stamped[part] # now[part]}

\* sdkState: the note says which comparison was made.
sdkState(was, is) ==
  CASE was = NoRev -> "unrecorded" [] was # NoRev /\ is = NoRev -> "uncompared"
    [] OTHER -> IF was = is THEN "same" ELSE "superseded"

\* appSection of a stamped project; its own blocks are never given to be checked.
appSection(stamped, baked, sdk) ==
  [drift |-> drift(stamped, baked, sdk), sdk |-> sdkState(stamped["SDK"], sdk.rev),
   code |-> [name \in DOMAIN stamped \ Base |->
               codeState(stamped[name], baked.released, IF name \in DOMAIN baked.code THEN baked.code[name] ELSE 0)]]

\* model: the panel -- the verdict, the builder's own contracts, and this project's
\* section, of a project that has a stamp.  Copy diagnostics is the same, in words.
model(baked, sdk, project, stamped) ==
  [verdict |-> verification(baked.sdkRev, sdk.rev, baked.profile),
   contracts |-> [name \in DOMAIN baked.code |-> releaseLabel(baked.code[name], baked.released)],
   project |-> IF stamped THEN {appSection(project, baked, sdk)} ELSE {}]
=============================================================================
