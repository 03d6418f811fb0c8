-------------------------------- MODULE Link --------------------------------
(***************************************************************************)
(* What an app's one link promises, whoever publishes it and however it is *)
(* loaded: the link is put up over a definition that is published, handed  *)
(* out once it is up, and whoever opens it comes to the app or to a reason *)
(* why not.  Published implements it.                                      *)
(***************************************************************************)
VARIABLES
  published,  \* is the app's definition in its owner's tree?
  up,         \* is the link's site on the network?
  offered,    \* is the link shown to its owner?
  page        \* a reader's page: closed, loading, app or reason

vars == <<published, up, offered, page>>

Init == published = FALSE /\ up = FALSE /\ offered = FALSE /\ page = "closed"

Publish == published' = TRUE /\ UNCHANGED <<up, offered, page>>

PutUp == published /\ up' = TRUE /\ UNCHANGED <<published, offered, page>>

Offer == published /\ up /\ offered' = TRUE /\ UNCHANGED <<published, up, page>>

\* The owner publishes again: the link is shown again when that is done.
Renew == offered' = FALSE /\ UNCHANGED <<published, up, page>>

Visit == up /\ page = "closed" /\ page' = "loading" /\ UNCHANGED <<published, up, offered>>

Show == page = "loading" /\ published /\ page' = "app" /\ UNCHANGED <<published, up, offered>>

GiveReason == page = "loading" /\ page' = "reason" /\ UNCHANGED <<published, up, offered>>

Leave == page \in {"app", "reason"} /\ page' = "closed" /\ UNCHANGED <<published, up, offered>>

Next == Publish \/ PutUp \/ Offer \/ Renew \/ Visit \/ Show \/ GiveReason \/ Leave

\* Nothing is shown, offered or put up before what it needs.
Safety == Init /\ [][Next]_vars

\* Nobody is left waiting at the link.
Answers == (page = "loading") ~> (page \in {"app", "reason"})

Spec == Safety /\ Answers
=============================================================================
