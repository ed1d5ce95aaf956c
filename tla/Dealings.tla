------------------------------ MODULE Dealings ------------------------------
(***************************************************************************)
(* What bargaining promises a union and the employers it deals with, with  *)
(* no offer, ballot, strike or local in sight.                             *)
(*                                                                         *)
(* A matter is taken up once, with one employer, and nothing else is open  *)
(* with that employer then.  Talks end in time, in a pact or without one.  *)
(* A pact lasts exactly the turns agreed on; after talks that failed the   *)
(* employer is left alone for COOL_TURNS.  Nothing cuts either short.      *)
(***************************************************************************)
EXTENDS Naturals

CONSTANTS
    Matters,      \* what may ever be taken up
    Employers,    \* the employers there may be
    NoOne,        \* the employer of a matter not taken up
    Durations,    \* what a pact may be agreed to last
    TALK_TURNS,   \* talks are over before this many turns have passed
    COOL_TURNS    \* the rest after talks that failed

VARIABLES
    now,    \* the turn
    book    \* book[m]: with whom, how it stands, and until when

vars == <<now, book>>

Kinds == {"new", "talks", "pact", "cooling", "over"}
Entry == [with : Employers \cup {NoOne}, kind : Kinds, until : Nat]

New == [with |-> NoOne, kind |-> "new", until |-> 0]
Talks(e) == [with |-> e, kind |-> "talks", until |-> now + TALK_TURNS]
Becomes(b, kind, until) == [with |-> b.with, kind |-> kind, until |-> until]
Ends(b, t) == {Becomes(b, "pact", t + d) : d \in Durations}
                 \cup {Becomes(b, "cooling", t + COOL_TURNS)}

Init == now = 0 /\ book = [m \in Matters |-> New]

\* A new matter, with an employer every earlier matter is over with.
TakeUp(m, e) ==
    /\ book[m].kind = "new"
    /\ \A k \in Matters : book[k].with = e => book[k].kind = "over"
    /\ book' = [book EXCEPT ![m] = Talks(e)]
    /\ UNCHANGED now

\* A party accepts, or the members do; or the union withdraws.
Conclude(m) ==
    /\ book[m].kind = "talks"
    /\ \E b \in Ends(book[m], now) : book' = [book EXCEPT ![m] = b]
    /\ UNCHANGED now

\* What a turn may make of an entry: talks go on, if they may, or end; what
\* has run out is over.
After(b, t) ==
    IF b.kind = "talks" THEN {c \in {b} : t < b.until} \cup Ends(b, t)
    ELSE IF b.kind \in {"pact", "cooling"} /\ b.until <= t
    THEN {Becomes(b, "over", 0)}
    ELSE {b}

Turn ==
    /\ now' = now + 1
    /\ book' \in [Matters -> Entry]
    /\ \A m \in Matters : book'[m] \in After(book[m], now')

Next ==
    \/ \E m \in Matters : Conclude(m) \/ \E e \in Employers : TakeUp(m, e)
    \/ Turn

Spec == Init /\ [][Next]_vars
=============================================================================
