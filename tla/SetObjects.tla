---- MODULE SetObjects ----
(***************************************************************************)
(* Set objects as a program sees them (set_*_runtime in                    *)
(* src/vm/vm_runtime_methods.rs), on top of their storage: a call copies   *)
(* the members, runs the program's __eq__ on one copy after the other and  *)
(* then uses what it found on the storage as it is by then.                *)
(*                                                                         *)
(* Equal values (to __eq__) share a class; to the storage they are         *)
(* different values with hashes of their own.                              *)
(***************************************************************************)
EXTENDS SetStorage

CONSTANTS Class,         \* Class[v]: what __eq__ compares
          MaxEqDepth,    \* bound on calls inside __eq__
          MaxMembers     \* bound on the size of the set

ASSUME ValueAssumption ==
  /\ DOMAIN Class = Values
  /\ MaxEqDepth \in Nat \ {0} /\ MaxMembers \in Nat

VARIABLES eqCalls,       \* the calls in progress, the innermost last
          quiet          \* no __eq__ has changed the set so far

storage == <<values, index, pc, cursor>>
objVars == <<storage, eqCalls, quiet>>

ObjInit == Init /\ eqCalls = <<>> /\ quiet = TRUE

Equal(u, v) == Class[u] = Class[v]

-----------------------------------------------------------------------------
(* Calls: add, remove or discard, and the test of membership *)

Innermost == Last(eqCalls)

Pop == eqCalls' = Front(eqCalls)

\* The copy is compared in order; the position is that in the copy.
Comparing == eqCalls # <<>> /\ Innermost.at <= Len(Innermost.copy)

Exhausted == eqCalls # <<>> /\ Innermost.at > Len(Innermost.copy)

CanRun == Ready /\ (eqCalls # <<>> => Len(eqCalls) < MaxEqDepth /\ Comparing)

\* The bound: every call in progress may still add a member.
Room == Len(values) + Len(eqCalls) < MaxMembers

\* A change by a step that other calls are waiting for.
Noted(waiting) == quiet' = (quiet /\ (waiting = 0 \/ values' = values))

Copy(op, v) == [op |-> op, value |-> v, at |-> 1, copy |-> values]

Begin(op, v) ==
  /\ CanRun
  /\ op = "add" => Room
  /\ eqCalls' = Append(eqCalls, Copy(op, v))
  /\ UNCHANGED <<storage, quiet>>

ClearCall ==
  /\ CanRun
  /\ Clear
  /\ Noted(Len(eqCalls))
  /\ UNCHANGED eqCalls

\* pop() takes the last value.
PopMember ==
  /\ CanRun
  /\ values # <<>>
  /\ RemoveAtIndex(Len(values))
  /\ Noted(Len(eqCalls))
  /\ UNCHANGED eqCalls

\* retain and remove_value are called by the host, between two calls.
HostUses ==
  /\ eqCalls = <<>>
  /\ \/ \E v \in Values : RemoveValue(v)
     \/ RetainStart \/ RetainKeep \/ RetainDrop
     \/ RebuildStart \/ RebuildValue \/ RebuildDone
  /\ UNCHANGED <<eqCalls, quiet>>

\* A slip: the position is one too far.
RemovedNext(i) == IF i + 1 \in DOMAIN values THEN RemoveAtIndex(i + 1) ELSE UNCHANGED storage

\* set_remove_checked_runtime checks only that the position exists.
RemovedAt(i) == IF i \in DOMAIN values THEN RemoveAtIndex(i) ELSE UNCHANGED storage

CompareHit ==
  /\ Comparing
  /\ Equal(Innermost.copy[Innermost.at], Innermost.value)
  /\ IF Innermost.op = "remove" THEN RemovedAt(Innermost.at) ELSE UNCHANGED storage
  /\ Noted(Len(eqCalls) - 1)
  /\ Pop

CompareMiss ==
  /\ Comparing
  /\ ~Equal(Innermost.copy[Innermost.at], Innermost.value)
  /\ eqCalls' = Append(Front(eqCalls), [Innermost EXCEPT !.at = @ + 1])
  /\ UNCHANGED <<storage, quiet>>

\* __eq__ raises.
CompareRaises ==
  /\ Comparing
  /\ Pop
  /\ UNCHANGED <<storage, quiet>>

NotFound ==
  /\ Exhausted
  /\ IF Innermost.op = "add" THEN Insert(Innermost.value) ELSE UNCHANGED storage
  /\ Noted(Len(eqCalls) - 1)
  /\ Pop

ObjNext ==
  \/ \E v \in Values, op \in {"add", "remove", "contains"} : Begin(op, v)
  \/ ClearCall
  \/ PopMember
  \/ HostUses
  \/ CompareHit \/ CompareMiss \/ CompareRaises
  \/ NotFound

ObjSpec == ObjInit /\ [][ObjNext]_objVars

-----------------------------------------------------------------------------
(* Properties *)

\* The type of every variable.
ObjTypeOK ==
  /\ TypeOK
  /\ Len(eqCalls) <= MaxEqDepth
  /\ quiet \in BOOLEAN
  /\ \A i \in DOMAIN eqCalls :
       /\ eqCalls[i].op \in {"add", "remove", "contains"}
       /\ eqCalls[i].value \in Values
       /\ eqCalls[i].at \in 1 .. (Len(eqCalls[i].copy) + 1)
       /\ eqCalls[i].copy \in Seq(Values)

\* As long as no __eq__ has changed the set, equal values are one member.
NoEqualMembers ==
  quiet => \A i, j \in DOMAIN values : Equal(values[i], values[j]) => i = j

\* As long as no __eq__ has changed the set, a call takes away no value that
\* is not equal to its own, wherever swap_remove has moved it.
RemovesItsValue ==
  [][quiet /\ Len(eqCalls') < Len(eqCalls) =>
       \A v \in Range(values) \ Range(values') : Equal(v, Innermost.value)]_objVars

Classes == INSTANCE FiniteSetSpec WITH
  Values <- Range(Class), members <- {Class[v] : v \in Range(values)}

\* As long as no __eq__ has changed the set, the copies and positions implement
\* a set of classes of equal values.
ImplementsClasses == [][quiet' => Classes!SetNext]_{Class[v] : v \in Range(values)}

\* What every step keeps of a set object, whatever __eq__ does in between
\* (SetObject, IndexBucket): types, no value twice, buckets in step with the
\* vector, searches that agree, and in a quiet program no two equal members.
SetConsistent ==
  ObjTypeOK /\ NoDuplicates /\ IndexMatchesValues /\ SearchesAgree /\ NoEqualMembers
====
