---- MODULE OrderedMap ----
(***************************************************************************)
(* What the dict storage promises: a finite map that remembers the order   *)
(* in which its keys were first inserted.  An update keeps the position of *)
(* its key, a new key goes to the end, a deletion closes the gap.          *)
(***************************************************************************)
EXTENDS Naturals, Sequences, SequencesExt

CONSTANTS Ids,      \* what identifies an entry: a key under one hash
          Vals      \* the values

VARIABLE items      \* the sequence of [id, val], in insertion order

MapInit == items = <<>>

PositionsOf(id) == {i \in DOMAIN items : items[i].id = id}

\* Update in place when the id is present, append otherwise.
Put(id, v) ==
  IF PositionsOf(id) # {}
    THEN \E i \in PositionsOf(id) : items' = [items EXCEPT ![i].val = v]
    ELSE items' = Append(items, [id |-> id, val |-> v])

Delete(i) == items' = RemoveAt(items, i)

MapClear == items' = <<>>

MapNext ==
  \/ \E id \in Ids, v \in Vals : Put(id, v)
  \/ \E i \in DOMAIN items : Delete(i)
  \/ MapClear

MapSpec == MapInit /\ [][MapNext]_items
====
