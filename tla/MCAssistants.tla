---------------------------- MODULE MCAssistants ----------------------------
(* Small instances of Assistants. *)
EXTENDS Assistants
=============================================================================
