---------------------------- MODULE MCCellServer ----------------------------
(***************************************************************************)
(* Symmetry for the safety runs of CellServer: accept() may return any     *)
(* free descriptor and any connection may come next, so neither set has an *)
(* order the specification depends on.                                     *)
(***************************************************************************)
EXTENDS CellServer, TLC

Symmetry == Permutations(FDs) \union Permutations(Conns)
===============================================================================
