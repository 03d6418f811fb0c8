------------------------------ MODULE MCPanels -----------------------------
(* A build with two epochs, of which one contract was carried over into the  *)
(* second; SDKs that are the pinned one, that one modified, another one that  *)
(* agrees in six digits, and one that cannot name itself.                    *)
EXTENDS Panels

Rev(six, rest, len, dirty) == [six |-> six, rest |-> rest, len |-> len, dirty |-> dirty]

ABuild == [sdkRev |-> Rev("aaaaaa", "a", 7, FALSE), profile |-> "dev",
           code |-> [block |-> 2, register |-> 3],
           released |-> <<[number |-> 1, code |-> {1, 3}], [number |-> 2, code |-> {2, 3}]>>]
Unreleased == [ABuild EXCEPT !.released = <<>>, !.profile = "release"]
SomeBuilds == {NoBuildInfo, ABuild, Unreleased}

SomeReports ==
  {[rev |-> Rev("aaaaaa", "a", 40, dirty), prolly |-> 1, format |-> 1] : dirty \in BOOLEAN}
  \cup {[rev |-> Rev("aaaaaa", "b", 40, FALSE), prolly |-> 2, format |-> 1],
        [rev |-> Rev("aaaaaa", "", 6, FALSE), prolly |-> 1, format |-> 1],
        [rev |-> Unknown, prolly |-> 0, format |-> 0]}

\* Made on the first epoch, and before the contracts were recorded.
SomeStamps ==
  {stamp([ABuild EXCEPT !.code = [block |-> 1, register |-> 3]], [rev |-> Rev("cccccc", "c", 40, FALSE), prolly |-> 1, format |-> 1]),
   stamp([NoBuildInfo EXCEPT !.sdkRev = Rev("aaaaaa", "a", 40, FALSE)], NoSdk)}
=============================================================================
