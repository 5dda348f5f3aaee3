------------------------------ MODULE MCOutbox ------------------------------
(* Outbox on two events and two processes.                                 *)
EXTENDS Outbox
=============================================================================
