---- MODULE MCDictBackend ----
(***************************************************************************)
(* Small instances of DictBackend.  The hashes are chosen to collide: h0,  *)
(* h0 + size and h0 + 32 share a first slot but part at different rounds.  *)
(***************************************************************************)
EXTENDS DictBackend, DictProbe

\* The perturbed probe sequence, tabulated: comparing the table with itself makes
\* TLC evaluate the nested functions once and for all.
ProbeTable ==
  CHOOSE p \in {[h \in Hashes |-> [n \in TableSizes |->
                   ProbePath(h, n, n + MaxPerturbRounds)]]} : p = p
MCProbe == ProbeTable

CONSTANTS k1, k2, k3, k4

\* k1, k2 and k3 collide in every table; k4 has no hash.
MCLookupHash ==
  [k \in Keys |-> CASE k = k1 -> 0 [] k = k2 -> 64 [] k = k3 -> 0 [] k = k4 -> NoHash]
MCHashes == {0, 5, 64}

\* k1 is also used under a hash that its lookup hash disagrees with.
MCCallerHashes == [k \in Keys |-> IF k = k1 THEN {5} ELSE {}]

\* A dict holds hashable keys or keys without a hash, never both at a time:
\* with both, a removal leaves wrong indices in the slots.
Unmixed ==
  \/ \A e \in DOMAIN entries : entryHashes[e] # NoHash
  \/ req = {} /\ \A e \in DOMAIN entries : entryHashes[e] = NoHash

UnmixedSpec == Init /\ [][Next /\ Unmixed']_vars /\ WF_vars(Step)
====
