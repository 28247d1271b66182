---- MODULE MCCapiMemory ----
(* A small instance of CapiMemory for TLC. *)
EXTENDS CapiMemory, TLC

CONSTANTS p1, p2, p3, p4, plain, tuple, list, bytes, dict, wrapper, text

MCPtrs == {p1, p2, p3, p4}
MCObjs == {plain, tuple, list, bytes, dict, wrapper, text}
Addresses == Permutations(MCPtrs)

MCKind ==
  [o \in MCObjs |->
    CASE o = bytes -> "bytearray" [] o = plain -> "plain" [] o = tuple -> "tuple" [] o = list -> "list"
      [] o = dict -> "dict" [] o = wrapper -> "wrapper" [] o = text -> "interned"]

MCItems == [o \in MCObjs |-> CASE o = tuple -> <<plain>> [] o = list -> <<wrapper>> [] OTHER -> <<>>]

Calm ==
  [objs |-> {}, depth |-> 1, refs |-> 1, inits |-> FALSE, across |-> FALSE, twice |-> FALSE,
   inline |-> FALSE, foreign |-> FALSE]

\* Nested calls and initialisation with a bytearray; a tuple and its item; kinds
\* with buffers and kept kinds, with references that are counted inline; pointers
\* of an outer call; two blocks of a list in one call; native objects.
MCExtensions ==
  { [Calm EXCEPT !.objs = {bytes}, !.depth = 2, !.inits = TRUE],
    [Calm EXCEPT !.objs = {plain, tuple}],
    [Calm EXCEPT !.objs = {text, list}, !.inline = TRUE],
    [Calm EXCEPT !.objs = {wrapper, dict}, !.inline = TRUE],
    [Calm EXCEPT !.objs = {plain}, !.depth = 2, !.across = TRUE],
    [Calm EXCEPT !.objs = {list}, !.depth = 2, !.twice = TRUE],
    [Calm EXCEPT !.objs = {bytes}, !.inits = TRUE, !.foreign = TRUE] }
====
