----------------------------- MODULE MCDesigner -----------------------------
(* Two entries of the catalogue: one that may be shared, and one with a Set    *)
(* and an edge beside its records.                                             *)
EXTENDS Designer
Entries ==
  [table |-> [keys |-> {<<"d", TRUE>>}, sets |-> {}, modes |-> <<"owned", "shared">>],
   comments |-> [keys |-> {<<"d", TRUE>>, <<"e", FALSE>>}, sets |-> {<<"inbox", TRUE>>}, modes |-> <<"owned">>]]
Homes == [table |-> "tables", comments |-> "comments"]
Declares(s) == [d \in Domains |-> IF d = "tables" THEN s ELSE 0]
OtherTabs ==
  {[components |-> <<>>, schemas |-> Declares(0)],
   [components |-> <<[type |-> "comments", domain |-> "tables", mode |-> "shared", bound |-> <<"publisher", TRUE>>]>>,
    schemas |-> Declares(2)]}
=============================================================================
