---- MODULE PyDict ----
(***************************************************************************)
(* What a dict object promises a program: an insertion-ordered map from    *)
(* classes of equal keys to values, where an OrderedDict may also move a   *)
(* key to either end.                                                      *)
(***************************************************************************)
EXTENDS OrderedMap

\* move_to_end keeps the value and changes the position.
MoveLast(i) == items' = Append(RemoveAt(items, i), items[i])

MoveFirst(i) == items' = <<items[i]>> \o RemoveAt(items, i)

DictNext ==
  \/ MapNext
  \/ \E i \in DOMAIN items : MoveLast(i) \/ MoveFirst(i)

DictSpec == MapInit /\ [][DictNext]_items
====
