---------------------------- MODULE MCModelFetch ----------------------------
(***************************************************************************)
(* A small instance of ModelFetch: three callers are two leaders in a row  *)
(* and one that waits for either, or one leader and a waiter of each kind. *)
(***************************************************************************)
EXTENDS ModelFetch, TLC
=============================================================================
