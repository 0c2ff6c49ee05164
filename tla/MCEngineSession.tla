-------------------------- MODULE MCEngineSession --------------------------
(***************************************************************************)
(* Small instances of EngineSession: the documents of one host.             *)
(***************************************************************************)
EXTENDS EngineSession, TLC

CONSTANTS c1, c2, p1

Together == [c \in Contexts |-> p1]
Symmetry == Permutations({c1, c2})
=============================================================================
