--------------------------- MODULE MCGlobalCaches ---------------------------
(* Two modules, and programs that make two kinds of calls: to one-argument *)
(* functions of both modules, to a method and such a function, to one in   *)
(* two ways, to one and to a generator function, and with class and module *)
(* bodies.                                                                 *)
EXTENDS GlobalCaches

CONSTANTS A, B

CallOf(code, module, way) == [code |-> code, module |-> module, way |-> way]
MCPrograms == {{CallOf("f", A, "slot0"), CallOf("f2", B, "slot0")},
               {CallOf("m", A, "method"), CallOf("f2", B, "slot0")},
               {CallOf("f", A, "slot0"), CallOf("f", A, "general")},
               {CallOf("f", A, "slot0"), CallOf("g", A, "generator")},
               {CallOf("f", A, "slot0"), CallOf(Body, B, "class")},
               {CallOf("h", A, "simple"), CallOf(Body, A, "module")}}
=============================================================================
