------------------------------ MODULE MCNameCache ------------------------------
(* Instance of NameCache for TLC: two users of a cache that holds one, of    *)
(* whom one changes his name twice; two readers, so that an answer or an     *)
(* event overtakes another.                                                  *)
EXTENDS NameCache, TLC

CONSTANTS u1, u2, r1, r2

MCUsers == {u1, u2}
MCReaders == {r1, r2}
MCMaxChanges == u1 :> 2 @@ u2 :> 0
===============================================================================
