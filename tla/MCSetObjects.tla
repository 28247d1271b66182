---- MODULE MCSetObjects ----
(* va and vb are equal objects; va, vc and vd collide in the storage, and    *)
(* vb has no lookup hash.                                                    *)
EXTENDS SetObjects

CONSTANTS va, vb, vc, vd, h1

MCValues == {va, vb, vc, vd}
MCHashOf == [v \in MCValues |-> IF v = vb THEN NoHash ELSE h1]
MCClass == [v \in MCValues |-> CASE v = vc -> 2 [] v = vd -> 3 [] OTHER -> 1]
====
