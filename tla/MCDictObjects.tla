---- MODULE MCDictObjects ----
(* ka and kb are equal instances with a __hash__ of their own, kc is a     *)
(* plain value whose two hashes agree and collide with theirs.             *)
EXTENDS DictObjects

CONSTANTS ka, kb, kc, h1, h2, h3

MCKeys == {ka, kb, kc}
MCHashes == {h1, h2, h3}
MCClass == [k \in Keys |-> IF k = kc THEN 2 ELSE 1]
MCRuntimeHash == [k \in Keys |-> h1]
MCLookupHash == [k \in Keys |-> CASE k = kc -> h1 [] k = kb -> h3 [] OTHER -> h2]

\* ka and kb, with their lookup hashes, can be exchanged.
Swap == [x \in {ka, kb, h2, h3} |->
           CASE x = ka -> kb [] x = kb -> ka [] x = h2 -> h3 [] x = h3 -> h2]

Symmetry == {Swap}
====
