---------------------------- MODULE MCRegulation -----------------------------
(* Regulation for one user with his two lists.                              *)
EXTENDS Regulation

CONSTANT Luny

MCUsers     == {Luny}
MCLocations == [user : MCUsers, list : {"screen", "internet"}]
=============================================================================
