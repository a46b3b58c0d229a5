---------------------------- MODULE MCLifecycle ----------------------------
(***************************************************************************)
(* The lifecycle coordinator on a small instance: a clock of a few ticks,  *)
(* every interval and every lease one tick long.                           *)
(***************************************************************************)
EXTENDS LifecycleCoordinator

MCLeaseTtls == {1}
=============================================================================
