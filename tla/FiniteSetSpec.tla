---- MODULE FiniteSetSpec ----
(***************************************************************************)
(* What the set storage promises: a finite set whose members come and go   *)
(* one at a time, or all at once.                                          *)
(***************************************************************************)
CONSTANT Values     \* what a member can be

VARIABLE members    \* the members

SetInit == members = {}

Add(v) == members' = members \cup {v}

Discard(v) == members' = members \ {v}

SetClear == members' = {}

SetNext ==
  \/ \E v \in Values : Add(v) \/ Discard(v)
  \/ SetClear

SetSpec == SetInit /\ [][SetNext]_members
====
