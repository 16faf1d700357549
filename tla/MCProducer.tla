----------------------------- MODULE MCProducer -----------------------------
(***************************************************************************)
(* Instances of Producer for TLC. A .cfg file cannot hold a negative       *)
(* number, so the options that are switched off by one are named here.     *)
(***************************************************************************)
EXTENDS Producer

NoConfirm == -1   \* --confirm not given
NoTimeout == -1   \* --confirm-timeout -1: wait for a permit forever
=============================================================================
