--------------------------- MODULE MCBillLifecycle ---------------------------
(* One region, a law for both scopes and one for regions only, and a customs *)
(* tariff; a country with two elected chambers or with one.                  *)
EXTENDS BillLifecycle, TLC

CONSTANTS both, regional, r1

MCAllowedScope == both :> "both" @@ regional :> "regional"
TwoChambers == <<"house", "senate">>
OneChamber == <<"house">>

\* A ballot nobody cast, one short of cloture, one beyond it.
MCTallies == {[for |-> 0, against |-> 0, abstain |-> 0],
              [for |-> 2, against |-> 1, abstain |-> 1],
              [for |-> 3, against |-> 1, abstain |-> 0]}
\* A ballot nobody cast and one carried.
TwoTallies == {[for |-> 0, against |-> 0, abstain |-> 0],
               [for |-> 3, against |-> 1, abstain |-> 0]}
=============================================================================
