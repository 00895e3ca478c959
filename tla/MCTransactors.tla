---------------------------- MODULE MCTransactors ----------------------------
(***************************************************************************)
(* An instance of Transactors for TLC: a begins the transactions and has   *)
(* the reference; b is asked by it and has the map and the vector.         *)
(***************************************************************************)
EXTENDS Transactors, TLC

CONSTANTS a, b, k1

Owners == ("map" :> b) @@ ("vector" :> b) @@ ("ref" :> a)
===============================================================================
