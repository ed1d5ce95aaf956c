---------------------------- MODULE MCReferendum ----------------------------
(* Scotland and Northern Ireland, with a player who lives in the one or the *)
(* other; windows of two turns and less.                                    *)
EXTENDS Referendum
=============================================================================
