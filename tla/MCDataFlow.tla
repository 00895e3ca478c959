------------------------------ MODULE MCDataFlow ------------------------------
(***************************************************************************)
(* An instance of DataFlow for TLC.  Thread t1 binds v1; t2 binds it too,  *)
(* to another value, and adds it to the stream, from which t3 takes and    *)
(* reads it; t4 binds v2 by `v2 << v1', and t5 shuts v2 down.              *)
(***************************************************************************)
EXTENDS DataFlow, TLC

CONSTANTS t1, t2, t3, t4, t5, v1, v2, x1, x2

Calls == (t1 :> "bind") @@ (t2 :> "add") @@ (t3 :> "take") @@ (t4 :> "copy")
         @@ (t5 :> "shutdown")
On    == (t1 :> v1) @@ (t2 :> v1) @@ (t3 :> None) @@ (t4 :> v2) @@ (t5 :> v2)
From   == [t \in Thread |-> IF t = t4 THEN v1 ELSE None]
Values == [t \in Thread |-> CASE t = t1 -> x1 [] t = t2 -> x2
                              [] OTHER -> None]
===============================================================================
