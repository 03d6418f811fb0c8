------------------------------- MODULE MCPage -------------------------------
(* Two projects of the tree, one of them published, and one to be made. *)
EXTENDS Page
=============================================================================
