----------------------------- MODULE MCAskPanel -----------------------------
(* Two accounts, each with a stored conversation.                          *)
EXTENDS AskPanel, TLC

CONSTANTS v1, v2, a1, a2

MCOwner == v1 :> a1 @@ v2 :> a2
=============================================================================
