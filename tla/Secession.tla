----------------------------- MODULE Secession -----------------------------
(***************************************************************************)
(* What a union promises its regions and a resident of one of them, with   *)
(* no campaign, ballot, bill or house in sight.                            *)
(*                                                                         *)
(* A region that is in asks to leave; in time it has agreed to or stays.   *)
(* What was agreed to is done in time or dropped.  A region that refused   *)
(* does not ask again for COOLING turns, and one that is out is out for    *)
(* good: that step alone changes its country, and its resident's.          *)
(***************************************************************************)
EXTENDS Integers

CONSTANTS
    Regions,
    Union,        \* the country all regions are in at first
    Destination,  \* the country each would then belong to
    Home,         \* the resident's region, or a place that may not leave
    ASKING,       \* how many turns a question may stand
    AGREED,       \* how many turns what was agreed to may take
    COOLING,      \* the rest after a refusal
    Never

VARIABLES
    now,       \* the turn
    standing,  \* how each region stands, since when, and until when it may not ask
    country,   \* the country of each region
    resident   \* that of the resident

vars == <<now, standing, country, resident>>

Stands(is, since, wait) == [is |-> is, since |-> since, wait |-> wait]

Init ==
    /\ now = 0
    /\ \E early \in SUBSET Regions :
          standing = [r \in Regions |-> Stands(IF r \in early THEN "agreed" ELSE "in",
                                               IF r \in early THEN 0 ELSE Never, Never)]
    /\ country = [r \in Regions |-> Union]
    /\ resident = Union

\* Only a region whose resident is still in the union asks.
Ask(r) ==
    /\ standing[r].is = "in" /\ standing[r].wait <= now
    /\ country[r] = Union /\ resident = Union
    /\ standing' = [standing EXCEPT ![r] = Stands("asking", now, Never)]
    /\ UNCHANGED <<now, country, resident>>

\* How a region may stand at turn t that stood s the turn before.
Onwards(s, t) ==
    CASE s.is = "asking" ->
            {w \in {s} : t <= s.since + ASKING}
              \cup {Stands("agreed", t, Never), Stands("in", Never, t + COOLING)}
      [] s.is = "agreed" ->
            {w \in {s} : t <= s.since + AGREED}
              \cup {Stands("out", Never, Never), Stands("in", Never, Never)}
      [] OTHER -> {s}

Leaving == {r \in Regions : standing[r].is # "out" /\ standing'[r].is = "out"}

Turn ==
    /\ now' = now + 1
    /\ DOMAIN standing' = Regions
    /\ \A r \in Regions : standing'[r] \in Onwards(standing[r], now')
    /\ country' = [r \in Regions |-> IF r \in Leaving THEN Destination[r] ELSE country[r]]
    /\ resident' = IF Home \in Leaving THEN Destination[Home] ELSE resident

Next == Turn \/ \E r \in Regions : Ask(r)

Spec == Init /\ [][Next]_vars
=============================================================================
