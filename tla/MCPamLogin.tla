----------------------------- MODULE MCPamLogin ------------------------------
(* One login whose user has two profiles, of which one may come later.      *)
EXTENDS PamLogin, TLC

CONSTANTS tty, luny, p1, p2

MCUserOf == (tty :> luny)
MCNameOf == (p1 :> luny) @@ (p2 :> luny)
=============================================================================
