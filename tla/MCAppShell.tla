----------------------------- MODULE MCAppShell -----------------------------
(* Two games and a few workers. *)
EXTENDS AppShell

CONSTANTS s1, s2
=============================================================================
