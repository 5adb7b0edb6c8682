-------------------------- MODULE MCEventListener ---------------------------
(* EventListener on an instance small enough for TLC to exhaust.           *)
EXTENDS EventListener
=============================================================================
