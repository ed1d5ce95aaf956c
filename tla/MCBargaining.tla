---------------------------- MODULE MCBargaining ----------------------------
(* Two employers of one industry with a local each, packages that last, and *)
(* the source's clocks scaled down.                                         *)
EXTENDS Bargaining, TLC

CONSTANTS e1, e2, l1, l2

MCFirstEmployer == l1 :> e1 @@ l2 :> e2
\* The two employers are alike, and so are their locals.
Alike == {e1 :> e2 @@ e2 :> e1 @@ l1 :> l2 @@ l2 :> l1}
MCTerms == {[duration |-> 2, noStrike |-> 1]}
=============================================================================
