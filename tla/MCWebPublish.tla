---------------------------- MODULE MCWebPublish ----------------------------
(* Small instances of WebPublish. *)
EXTENDS WebPublish
=============================================================================
