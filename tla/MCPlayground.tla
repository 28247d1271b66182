---------------------------- MODULE MCPlayground ----------------------------
(* The page and its worker, for a few commands.  MaxRequests is what these *)
(* commands and their load attempts can post.                              *)
EXTENDS Playground
=============================================================================
