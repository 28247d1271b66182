---- MODULE DictProbe ----
(***************************************************************************)
(* The probe sequence of the dict slot table (runtime/dict_backend.rs):    *)
(* the slot that round i of a lookup visits, for a hash and a table length.*)
(* lookup_slot, lookup_vacant_slot and candidate_indices_for_hash share it.*)
(*                                                                         *)
(* The code computes slot * 5 + perturb + 1 with wrapping 64-bit additions *)
(* and masks with size - 1; sizes are powers of two, so the wrap-around is *)
(* invisible after the mask and plain arithmetic modulo the size is exact. *)
(***************************************************************************)
EXTENDS Naturals

PERTURB_SHIFT == 5

\* The slots of rounds 0 .. rounds: the loop's two variables, slot and perturb.
ProbePath(hash, len, rounds) ==
  LET perturb[i \in 0 .. rounds] ==
        IF i = 0 THEN hash ELSE perturb[i - 1] \div (2 ^ PERTURB_SHIFT)
      slot[i \in 0 .. rounds] ==
        IF i = 0 THEN hash % len ELSE (slot[i - 1] * 5 + perturb[i - 1] + 1) % len
  IN  slot
====
