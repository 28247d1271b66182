---- MODULE MCImports ----
(* A small instance of Imports for TLC: a package p with a submodule ps, a  *)
(* submodule pz that does not compile, and a module q.                      *)
EXTENDS Imports

CONSTANTS p, ps, pz, q

MCNames == {p, ps, pz, q}
MCParent == [n \in MCNames |-> IF n \in {ps, pz} THEN p ELSE NoName]

Code(ops, dels, left) == [ops |-> ops, dels |-> dels, left |-> left]

(* Imports that run into one another and bodies that raise; failures and   *)
(* deletions of all kinds; deletions between imports.                      *)
MCPrograms ==
  { [names |-> {p, ps, q},
     main |-> Code({"stmt", "from", "import_module", "resolve"}, {q}, 2),
     body |-> Code({"stmt", "from"}, {}, 2)],
    [names |-> {p, ps, pz},
     main |-> Code(Kinds, {p}, 2), body |-> Code({"stmt", "import_module"}, {p}, 1)],
    [names |-> {p, ps, q},
     main |-> Code({"stmt", "import_module"}, {p, ps, q}, 4), body |-> Code({"stmt"}, {}, 1)],
    [names |-> {p, ps, pz},
     main |-> Code({"import_module"}, {}, 2), body |-> Code({"import_module"}, {p}, 2)] }
====
