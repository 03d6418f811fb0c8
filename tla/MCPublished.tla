---------------------------- MODULE MCPublished -----------------------------
(* Two of three pieces rebuild the bundle; one module of each kind the code names. *)
EXTENDS Published
SdkModules == {"index.js", "artefacts.js", "engine-db.js", "craftworks_sdk.js", "served.js"}
StarterModules == {"served.js", "pieces.js"}
=============================================================================
