---------------------------- MODULE StatuteBook ----------------------------
(***************************************************************************)
(* What legislation promises a country, with no chamber, ballot, office or *)
(* influence in sight.                                                     *)
(*                                                                         *)
(* A measure is filed, and within SPAN turns it is law or dead, for good.  *)
(* On most matters one measure rules at a time: the one that became law    *)
(* last.  The step that makes it law also ends its predecessor, and in the *)
(* same step it enters what citizens are shown as in force, unless all it  *)
(* does is to end a law.                                                   *)
(***************************************************************************)
EXTENDS Naturals

CONSTANTS
    Numbers,    \* what measures may be numbered
    Matters,    \* what a measure may be on
    Exclusive,  \* the matters one measure rules at a time
    Never,      \* the end of what has not ended
    SPAN        \* how long a measure may be under way

VARIABLES
    now,        \* the turn
    measures,   \* the measures filed so far, by number
    inForce     \* those shown as in force

vars == <<now, measures, inForce>>

New(matter, ends, t) ==
    [matter |-> matter, ends |-> ends, filed |-> t, fate |-> "filed", until |-> Never]
Becomes(m, fate, until) ==
    [matter |-> m.matter, ends |-> m.ends, filed |-> m.filed, fate |-> fate,
     until |-> until]

\* The measures with one more, m.
With(n, m) == [k \in DOMAIN measures \cup {n} |-> IF k = n THEN m ELSE measures[k]]
Superseded(k, m) ==
    /\ measures[k].fate = "law" /\ measures[k].until = Never
    /\ m.matter \in Exclusive /\ measures[k].matter = m.matter

Init == now = 0 /\ measures = [n \in {} |-> New({}, FALSE, 0)] /\ inForce = {}

\* m is law, number n, and what it supersedes has ended.
Enters(n, m) ==
    /\ measures' = [k \in DOMAIN measures \cup {n} |->
                      IF k = n THEN Becomes(m, "law", Never)
                      ELSE IF Superseded(k, m)
                      THEN Becomes(measures[k], "law", now)
                      ELSE measures[k]]
    /\ inForce' = {k \in inForce : ~ Superseded(k, m)}
                     \cup {k \in {n} : ~ (m.ends /\ m.matter \in Exclusive)}
    /\ UNCHANGED now

File(n, m) ==
    /\ n \notin DOMAIN measures
    /\ measures' = With(n, m)
    /\ UNCHANGED <<now, inForce>>

Decree(n, m) == n \notin DOMAIN measures /\ Enters(n, m)

Pass(n) == measures[n].fate = "filed" /\ Enters(n, measures[n])

\* Measures under way may die of a turn, and one more may be filed in it; none
\* is under way for longer than it may be.
Dying(lost) == [k \in DOMAIN measures |->
                  IF k \in lost THEN Becomes(measures[k], "dead", Never) ELSE measures[k]]
UnderWay == {k \in DOMAIN measures : measures[k].fate = "filed"}
Turn ==
    /\ \A k \in UnderWay : now < measures[k].filed + SPAN
    /\ now' = now + 1
    /\ \E lost \in SUBSET UnderWay :
          \/ measures' = Dying(lost)
          \/ \E n \in Numbers, matter \in Matters :
                /\ n \notin DOMAIN measures
                /\ measures' = [k \in DOMAIN measures \cup {n} |->
                                  IF k = n THEN New(matter, FALSE, now + 1)
                                  ELSE Dying(lost)[k]]
    /\ UNCHANGED inForce

Next ==
    \/ \E n \in Numbers, matter \in Matters, ends \in BOOLEAN :
          File(n, New(matter, ends, now)) \/ Decree(n, New(matter, ends, now))
    \/ \E n \in DOMAIN measures : Pass(n)
    \/ Turn

Spec == Init /\ [][Next]_vars
=============================================================================
