---------------------------- MODULE MCSaveStore -----------------------------
(* Two instances of the app on one saves directory: two threads share the  *)
(* first one's mutex, a third belongs to the second.                       *)
EXTENDS SaveStore, TLC

CONSTANTS i1, i2, c1, c2, c3, d1, d2

MCInstanceOf == c1 :> i1 @@ c2 :> i1 @@ c3 :> i2

(* c1 and c2 belong to one instance, so no constant tells them apart. *)
Symmetry ==
  Permutations(Payload) \union Permutations(Pid) \union Permutations(Slot)
    \union Permutations({c1, c2})
=============================================================================
