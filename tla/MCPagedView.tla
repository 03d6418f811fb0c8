---------------------------- MODULE MCPagedView ----------------------------
EXTENDS PagedView, TLC

\* A form and a table of the author's own view, a live list, over one domain.
FormTableList ==
  {[type |-> "form", live |-> FALSE], [type |-> "table", live |-> FALSE],
   [type |-> "list", live |-> TRUE]}

\* The person's writes are interchangeable.
Symmetry == Permutations(Ops)
=============================================================================
