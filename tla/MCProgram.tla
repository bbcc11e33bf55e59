----------------------------- MODULE MCProgram ------------------------------
(* Program with the symmetry of its clients and of the vault names.         *)
EXTENDS Program, TLC

Symmetry == Permutations(Clients) \union Permutations(Names)
=============================================================================
