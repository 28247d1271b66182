---- MODULE MCHeapGc ----
(***************************************************************************)
(* Two objects, of which one has __del__.  One program has weak references *)
(* to both and collections inside collections; the other combines a weak   *)
(* reference with a finalizer.                                             *)
(***************************************************************************)
EXTENDS HeapGc

CONSTANTS a, b

MCPrograms == {[weak |-> {a, b}, fin |-> {}, depth |-> 3],
               [weak |-> {b}, fin |-> {a}, depth |-> 2]}
====
