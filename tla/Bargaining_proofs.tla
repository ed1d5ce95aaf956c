-------------------------- MODULE Bargaining_proofs --------------------------
(***************************************************************************)
(* What holds of the bargaining of one union for any employers, locals,    *)
(* terms, number of campaigns and length of the game.  The safety          *)
(* properties of the runs are not inductive by themselves: that an         *)
(* employer's answer settles nothing over the members' heads rests on who  *)
(* may have asked them (only a player president does, and keeps the        *)
(* office), on which revision a ballot may name, and on the answers of a   *)
(* turn being due of running campaigns only.                               *)
(*                                                                         *)
(* A row and its agreement are taken care of first, without the state:     *)
(* GoodRow, and what each move of a campaign makes of it.                  *)
(***************************************************************************)
EXTENDS Bargaining, FiniteSetTheorems, TLAPS

\* A row, with the agreement it may have led to.
GoodBallot(c, now, lead) ==
    /\ OpenBallot(c) => /\ Live(c) /\ c.by = "employer" /\ c.ballot.rev = c.rev
                        /\ now < c.ballot.closes
    /\ c.ballot.rev # 0 => lead = "player"
    /\ c.status # "none" => /\ c.rev > 0 /\ c.ballot.rev <= c.rev
                            /\ c.ballot.rev = c.rev => c.by = "employer"
    /\ Live(c) /\ c.ballot.rev = c.rev => c.ballot.status \in {"open", "rejected"}

OnTime(c, now) ==
    /\ c.status = "negotiating" => now < c.start + DEADLINE_TURNS
    /\ c.status = "dispute" => /\ c.disputeAt <= c.start + DEADLINE_TURNS
                               /\ now < c.disputeAt + DISPUTE_MAX_TURNS

Agreed(c, a, now) ==
    /\ c.status = "settled" <=> a.status # "none"
    /\ c.status = "settled" =>
          /\ a.employer = c.employer /\ a.scope = c.scope /\ a.terms = c.terms
          /\ a.start = c.endedAt /\ a.start <= now
          /\ c.ballot.rev = c.rev => c.ballot.status = "ratified"

GoodRow(c, a, now, lead) ==
    /\ GoodBallot(c, now, lead) /\ OnTime(c, now) /\ Agreed(c, a, now)

RowsGood == \A i \in Ids : GoodRow(camps[i], agreements[i], turn, leader)
\* The answers of a turn are due of campaigns that run.
TodoLive == phase = "answer" => \A i \in todo : Live(camps[i])

IInv == TypeOK /\ RowsGood /\ TodoLive /\ OneDealPerPair

Leaders == {"none", "npp", "player"}

-----------------------------------------------------------------------------
\* What a move makes of a row

\* A campaign opens as an offer of the union's that no member has seen.
LEMMA OpenedRow ==
    ASSUME NEW e \in Employers, NEW t \in Terms, NEW now \in Turns, NEW lead \in Leaders,
           NEW a, a.status = "none", employerOf \in [Locals -> Employers \cup {Gone}]
    PROVE  /\ Opened(e, t, now) \in Rows
           /\ GoodRow(Opened(e, t, now), a, now, lead)
           /\ Opened(e, t, now).employer = e
<1>1. Opened(e, t, now) \in Rows
  <2>1. NoRow.records \in UNION {[S -> Gaps] : S \in SUBSET Locals}
    <3>1. [l \in {} |-> Unknown] \in [{} -> Gaps]
      OBVIOUS
    <3> QED BY <3>1 DEF NoRow
  <2>2. now \in {Never} \cup Turns /\ Never \in {Never} \cup 0 .. MaxTurn + RATIFICATION_TURNS
    OBVIOUS
  <2>3. 0 \in 0 .. MAX_OFFERS /\ 1 \in 0 .. MAX_OFFERS
    BY ClocksAssumption
  <2> QED BY <2>1, <2>2, <2>3 DEF Opened, NoRow, NoBallot, Rows, Statuses, Levels, Existing
<1>2. GoodRow(Opened(e, t, now), a, now, lead)
  BY ClocksAssumption DEF Opened, NoRow, NoBallot, GoodRow, GoodBallot, OnTime, Agreed,
     OpenBallot, Live, Turns
<1>3. Opened(e, t, now).employer = e
  BY DEF Opened, NoRow
<1> QED BY <1>1, <1>2, <1>3

\* A counteroffer is a new revision, which nobody has voted on.
LEMMA CounteredRow ==
    ASSUME NEW c \in Rows, NEW t \in Terms \cup {NoTerms}, NEW party \in {"union", "employer"},
           NEW now \in Turns, NEW lead \in Leaders, NEW a, GoodRow(c, a, now, lead),
           MayCounter(c, party)
    PROVE  /\ Countered(c, party, t, now) \in Rows
           /\ GoodRow(Countered(c, party, t, now), a, now, lead)
           /\ Countered(c, party, t, now).employer = c.employer
<1> DEFINE d == Countered(c, party, t, now)
<1>1. VoidBallot(c) \in [rev : 0 .. MAX_OFFERS,
                         status : {"none", "open", "void", "ratified", "rejected"},
                         closes : {Never} \cup 0 .. MaxTurn + RATIFICATION_TURNS]
      /\ VoidBallot(c).rev = c.ballot.rev /\ VoidBallot(c).status # "open"
  BY DEF VoidBallot, OpenBallot, Rows
<1>2. c.rev \in Nat /\ c.ballot.rev \in Nat /\ c.rev + 1 \in 0 .. MAX_OFFERS
  BY ClocksAssumption DEF Rows, MayCounter
<1>3. d \in Rows
  BY <1>1, <1>2 DEF Countered, Rows
<1>4. /\ d.rev = c.rev + 1 /\ d.ballot = VoidBallot(c) /\ d.status = c.status
      /\ d.start = c.start /\ d.disputeAt = c.disputeAt /\ d.employer = c.employer
  BY DEF Countered, Rows
<1>5. Live(c) /\ c.ballot.rev <= c.rev
  BY DEF MayCounter, GoodRow, GoodBallot, Live
<1>6. GoodBallot(d, now, lead)
  BY <1>1, <1>2, <1>4, <1>5 DEF GoodRow, GoodBallot, OpenBallot
<1>7. OnTime(d, now) /\ Agreed(d, a, now)
  BY <1>4, <1>5 DEF GoodRow, OnTime, Agreed, Live
<1> QED BY <1>3, <1>4, <1>6, <1>7 DEF GoodRow

\* A campaign settles with the agreement on its standing offer.
LEMMA SettledRow ==
    ASSUME NEW c \in Rows, NEW now \in Turns, NEW lead \in Leaders,
           Live(c), ~ OpenBallot(c), c.rev > 0, c.ballot.rev <= c.rev,
           c.ballot.rev # 0 => lead = "player",
           c.ballot.rev = c.rev => c.by = "employer" /\ c.ballot.status = "ratified"
    PROVE  /\ Settled(c, now) \in Rows
           /\ AgreementOf(c, now) \in Agreements
           /\ GoodRow(Settled(c, now), AgreementOf(c, now), now, lead)
           /\ Settled(c, now).employer = c.employer
           /\ ~ Live(Settled(c, now))
<1> DEFINE d == Settled(c, now)
<1>1. /\ d \in Rows /\ AgreementOf(c, now) \in Agreements
  BY DEF Settled, AgreementOf, Rows, Agreements, Statuses
<1>2. /\ d.status = "settled" /\ d.endedAt = now /\ d.ballot = c.ballot /\ d.rev = c.rev
      /\ d.by = c.by /\ d.employer = c.employer /\ d.scope = c.scope /\ d.terms = c.terms
  BY DEF Settled, Rows
<1>3. now \in Int
  BY PartiesAssumption DEF Turns
<1>4. GoodRow(d, AgreementOf(c, now), now, lead)
  BY <1>2, <1>3 DEF GoodRow, GoodBallot, OnTime, Agreed, AgreementOf, OpenBallot, Live
<1> QED BY <1>1, <1>2, <1>4 DEF Live

\* Withdrawing and lapsing end the campaign without one.
LEMMA EndedRow ==
    ASSUME NEW c \in Rows, NEW now \in Turns, NEW lead \in Leaders, NEW a,
           Live(c), c.rev > 0, c.ballot.rev <= c.rev, a.status = "none",
           c.ballot.rev # 0 => lead = "player",
           c.ballot.rev = c.rev => c.by = "employer",
           NEW d \in {Withdrawn(c, now), Lapsed(c, now)}
    PROVE  /\ d \in Rows /\ GoodRow(d, a, now, lead)
           /\ d.employer = c.employer /\ ~ Live(d) /\ d.status \in {"withdrawn", "lapsed"}
<1>1. VoidBallot(c) \in [rev : 0 .. MAX_OFFERS,
                         status : {"none", "open", "void", "ratified", "rejected"},
                         closes : {Never} \cup 0 .. MaxTurn + RATIFICATION_TURNS]
      /\ VoidBallot(c).rev = c.ballot.rev /\ VoidBallot(c).status # "open"
  BY DEF VoidBallot, OpenBallot, Rows
<1>2. d \in Rows
  <2>1. Withdrawn(c, now) \in Rows
    BY <1>1 DEF Withdrawn, Rows, Statuses, Levels
  <2>2. Lapsed(c, now) \in Rows
    BY <1>1 DEF Lapsed, Rows, Statuses, Levels
  <2> QED BY <2>1, <2>2
<1>3. /\ d.status \in {"withdrawn", "lapsed"} /\ d.ballot = VoidBallot(c) /\ d.rev = c.rev
      /\ d.by = c.by /\ d.employer = c.employer
  BY DEF Withdrawn, Lapsed, Rows
<1>4. GoodRow(d, a, now, lead)
  BY <1>1, <1>3 DEF GoodRow, GoodBallot, OnTime, Agreed, OpenBallot, Live
<1> QED BY <1>2, <1>3, <1>4 DEF Live

\* The row when the members are asked, and when they turn the offer down.
AskedOf(c, now) == [c EXCEPT !.ballot = [rev |-> c.rev, status |-> "open",
                                         closes |-> now + RATIFICATION_TURNS],
                             !.last = now]
RejectedOf(c, now) == [Closed(c, "rejected") EXCEPT !.last = now]

\* Only the player's own acceptance asks the members, and about the standing
\* offer of the employer.
LEMMA AskedRow ==
    ASSUME NEW c \in Rows, NEW a, NEW now \in Turns, GoodRow(c, a, now, "player"),
           Live(c), c.by = "employer"
    PROVE  /\ AskedOf(c, now) \in Rows /\ GoodRow(AskedOf(c, now), a, now, "player")
           /\ AskedOf(c, now).employer = c.employer /\ Live(AskedOf(c, now))
<1> DEFINE d == AskedOf(c, now)
<1>1. now + RATIFICATION_TURNS \in 0 .. MaxTurn + RATIFICATION_TURNS
      /\ now < now + RATIFICATION_TURNS
  BY ClocksAssumption, PartiesAssumption DEF Turns
<1>2. d \in Rows
  BY <1>1 DEF AskedOf, Rows
<1>3. /\ d.status = c.status /\ d.rev = c.rev /\ d.by = c.by /\ d.employer = c.employer
      /\ d.start = c.start /\ d.disputeAt = c.disputeAt
      /\ d.ballot.rev = c.rev /\ d.ballot.status = "open"
      /\ d.ballot.closes = now + RATIFICATION_TURNS
  BY DEF AskedOf, Rows
<1>4. c.rev \in Nat
  BY ClocksAssumption DEF Rows
<1>5. GoodBallot(d, now, "player")
  BY <1>1, <1>3, <1>4 DEF GoodRow, GoodBallot, OpenBallot, Live
<1>6. OnTime(d, now) /\ Agreed(d, a, now)
  BY <1>3 DEF GoodRow, OnTime, Agreed, Live
<1> QED BY <1>2, <1>3, <1>5, <1>6 DEF GoodRow, Live

\* The members turn the offer down.
LEMMA RejectedRow ==
    ASSUME NEW c \in Rows, NEW a, NEW now \in Turns, NEW lead \in Leaders,
           GoodRow(c, a, now, lead), Live(c), OpenBallot(c)
    PROVE  /\ RejectedOf(c, now) \in Rows /\ GoodRow(RejectedOf(c, now), a, now, lead)
           /\ RejectedOf(c, now).employer = c.employer /\ Live(RejectedOf(c, now))
<1> DEFINE d == RejectedOf(c, now)
<1>1. d \in Rows
  BY DEF RejectedOf, Closed, Rows
<1>2. /\ d.status = c.status /\ d.rev = c.rev /\ d.by = c.by /\ d.employer = c.employer
      /\ d.start = c.start /\ d.disputeAt = c.disputeAt
      /\ d.ballot.rev = c.ballot.rev /\ d.ballot.status = "rejected"
  BY DEF RejectedOf, Closed, Rows
<1>3. GoodBallot(d, now, lead)
  BY <1>2 DEF GoodRow, GoodBallot, OpenBallot, Live
<1>4. OnTime(d, now) /\ Agreed(d, a, now)
  BY <1>2 DEF GoodRow, OnTime, Agreed, Live
<1> QED BY <1>1, <1>2, <1>3, <1>4 DEF GoodRow, Live

\* Escalation, and the end of a ban, touch neither the offer nor the clocks.
LEMMA PressedRow ==
    ASSUME NEW c \in Rows, NEW a, NEW now \in Turns, NEW lead \in Leaders,
           GoodRow(c, a, now, lead), NEW d \in Rows,
           d.status = c.status, d.rev = c.rev, d.by = c.by, d.employer = c.employer,
           d.start = c.start, d.disputeAt = c.disputeAt, d.ballot = c.ballot,
           d.endedAt = c.endedAt, d.scope = c.scope, d.terms = c.terms
    PROVE  GoodRow(d, a, now, lead)
BY DEF GoodRow, GoodBallot, OnTime, Agreed, OpenBallot, Live

-----------------------------------------------------------------------------
\* The clocks of a turn

\* A row that does not run stays as it is; one that runs is in time again, or
\* settles by the silence of its members, or lapses.
LEMMA ClockedRow ==
    ASSUME NEW c \in Rows, NEW a, NEW t0 \in Turns, NEW lead \in Leaders,
           GoodRow(c, a, t0, lead), t0 + 1 \in Turns,
           NEW d, d = Clocked(c, t0 + 1)
    PROVE  /\ d \in Rows /\ d.employer = c.employer
           /\ ~ Live(c) => d = c
           /\ Live(c) => d.status # "none"
           /\ d.status = "settled" /\ Live(c)
                => /\ AgreementOf(c, t0 + 1) \in Agreements
                   /\ GoodRow(d, AgreementOf(c, t0 + 1), t0 + 1, lead)
           /\ Live(c) /\ d.status # "settled" => GoodRow(d, a, t0 + 1, lead)
<1> DEFINE now == t0 + 1
           p == PastDeadline(c, now)
           q == DueBallot(p, now)
<1>0. now \in Turns /\ t0 \in Int /\ now \in Int
  BY PartiesAssumption DEF Turns
<1>1. CASE ~ Live(c)
  <2>1. p = c
    BY <1>1 DEF PastDeadline, Live
  <2>2. q = c
    BY <1>1, <2>1 DEF DueBallot, GoodRow, GoodBallot
  <2>3. d = c
    BY <1>1, <2>2 DEF Clocked, Stale, Live
  <2> QED BY <1>1, <2>3
<1>2. CASE Live(c)
  <2>1. /\ p \in Rows /\ p.employer = c.employer /\ Live(p) /\ p.rev = c.rev /\ p.by = c.by
        /\ p.ballot = c.ballot /\ p.scope = c.scope /\ p.terms = c.terms
        /\ p.status = "dispute" => p.disputeAt <= p.start + DEADLINE_TURNS
        /\ p.status = "negotiating" => now < p.start + DEADLINE_TURNS
    <3>1. CASE c.status = "negotiating" /\ c.start + DEADLINE_TURNS <= now
      <4>1. p = [c EXCEPT !.status = "dispute", !.disputeAt = now]
        BY <3>1 DEF PastDeadline
      <4>2. c.start \in Int /\ t0 < c.start + DEADLINE_TURNS
        BY <3>1, PartiesAssumption DEF GoodRow, OnTime, Rows, Turns, Never
      <4>3. now <= c.start + DEADLINE_TURNS
        BY <4>2, <1>0, ClocksAssumption
      <4> QED BY <1>0, <4>1, <4>3 DEF Rows, Statuses, Live
    <3>2. CASE ~ (c.status = "negotiating" /\ c.start + DEADLINE_TURNS <= now)
      <4>1. p = c
        BY <3>2 DEF PastDeadline
      <4>2. c.start \in Int
        BY PartiesAssumption DEF Rows, Turns, Never
      <4> QED BY <1>0, <1>2, <3>2, <4>1, <4>2, ClocksAssumption DEF GoodRow, OnTime
    <3> QED BY <3>1, <3>2
  <2>2. /\ c.rev > 0 /\ c.ballot.rev <= c.rev
        /\ c.ballot.rev # 0 => lead = "player"
        /\ c.ballot.rev = c.rev => c.by = "employer"
        /\ c.ballot.rev = c.rev => c.ballot.status \in {"open", "rejected"}
        /\ OpenBallot(c) => c.ballot.rev = c.rev
        /\ a.status = "none"
    BY <1>2 DEF GoodRow, GoodBallot, Agreed, Live
  <2>3. CASE OpenBallot(p) /\ p.ballot.closes <= now
    <3> DEFINE r == Closed(p, "ratified")
    <3>1. /\ r \in Rows /\ r.employer = c.employer /\ Live(r) /\ r.rev = c.rev /\ r.by = c.by
          /\ r.ballot.rev = c.ballot.rev /\ r.ballot.status = "ratified"
          /\ r.scope = c.scope /\ r.terms = c.terms
      BY <2>1 DEF Closed, Rows, Live
    <3>2. q = Settled(r, now)
      BY <2>1, <2>3 DEF DueBallot
    <3>3. AgreementOf(r, now) = AgreementOf(c, now)
      BY <3>1 DEF AgreementOf
    <3> HIDE DEF r, p, q, now
    <3>4. /\ q \in Rows /\ AgreementOf(r, now) \in Agreements
          /\ GoodRow(q, AgreementOf(r, now), now, lead)
          /\ q.employer = c.employer /\ ~ Live(q)
      <4>1. ~ OpenBallot(r) /\ r.rev > 0 /\ r.ballot.rev <= r.rev
        BY <2>2, <3>1 DEF OpenBallot
      <4>2. /\ r.ballot.rev # 0 => lead = "player"
            /\ r.ballot.rev = r.rev => r.by = "employer" /\ r.ballot.status = "ratified"
        BY <2>2, <3>1
      <4> QED BY <1>0, <3>1, <3>2, <4>1, <4>2, SettledRow
    <3>5. q.status = "settled"
      BY <3>1, <3>2 DEF Settled, Rows
    <3>6. d = q
      BY <3>5 DEF Clocked, Stale, p, q, now
    <3> QED BY <1>2, <3>3, <3>4, <3>5, <3>6 DEF now
  <2>4. CASE ~ (OpenBallot(p) /\ p.ballot.closes <= now)
    <3>1. q = p
      BY <2>4 DEF DueBallot
    <3>2. d = Stale(p, now)
      BY <3>1 DEF Clocked
    <3> HIDE DEF p
    <3>3. CASE p.status = "dispute" /\ now >= p.disputeAt + DISPUTE_MAX_TURNS
      <4>1. d = Lapsed(p, now)
        BY <3>2, <3>3 DEF Stale
      <4>2. /\ d \in Rows /\ GoodRow(d, a, now, lead)
            /\ d.employer = p.employer /\ d.status \in {"withdrawn", "lapsed"}
        BY <1>0, <2>1, <2>2, <4>1, EndedRow
      <4> QED BY <1>2, <2>1, <4>2
    <3>4. CASE ~ (p.status = "dispute" /\ now >= p.disputeAt + DISPUTE_MAX_TURNS)
      <4>1. d = p
        BY <3>2, <3>4 DEF Stale
      <4>2. p.disputeAt \in Int /\ p.ballot.closes \in Int
        BY <2>1, ClocksAssumption, PartiesAssumption DEF Rows, Turns, Never
      <4>3. OnTime(p, now)
        BY <1>0, <2>1, <3>4, <4>2, ClocksAssumption DEF OnTime
      <4>4. GoodBallot(p, now, lead)
        BY <1>0, <1>2, <2>1, <2>2, <2>4, <4>2 DEF GoodRow, GoodBallot, OpenBallot, Live
      <4>5. Agreed(p, a, now)
        BY <2>1, <2>2 DEF Agreed, Live
      <4> QED BY <1>2, <2>1, <4>1, <4>3, <4>4, <4>5 DEF GoodRow, Live
    <3> QED BY <3>3, <3>4
  <2> QED BY <2>3, <2>4
<1> QED BY <1>1, <1>2

-----------------------------------------------------------------------------
\* What a move makes of the state

\* One campaign moves on, and does not come to life by it.
LEMMA OneMoves ==
    ASSUME IInv, NEW i \in Ids, NEW d \in Rows, camps' = [camps EXCEPT ![i] = d],
           UNCHANGED <<agreements, turn, leader>>,
           GoodRow(d, agreements[i], turn, leader),
           d.employer = camps[i].employer, Live(d) => Live(camps[i])
    PROVE  RowsGood' /\ OneDealPerPair' /\ camps' \in [Ids -> Rows]
<1>1. camps' \in [Ids -> Rows] /\ camps'[i] = d /\ \A j \in Ids : j # i => camps'[j] = camps[j]
  BY DEF IInv, TypeOK
<1>2. RowsGood'
  BY <1>1 DEF IInv, RowsGood
<1>3. OneDealPerPair'
  BY <1>1 DEF IInv, OneDealPerPair
<1> QED BY <1>1, <1>2, <1>3

\* One campaign settles: its employer goes from the running campaign to the
\* agreement, and nothing else holds it.
LEMMA OneSettles ==
    ASSUME IInv, NEW i \in Ids, NEW d \in Rows, NEW b \in Agreements,
           camps' = [camps EXCEPT ![i] = d], agreements' = [agreements EXCEPT ![i] = b],
           UNCHANGED <<turn, leader>>,
           GoodRow(d, b, turn, leader), Live(camps[i]), ~ Live(d),
           d.employer = camps[i].employer, b.employer = camps[i].employer
    PROVE  /\ RowsGood' /\ OneDealPerPair'
           /\ camps' \in [Ids -> Rows] /\ agreements' \in [Ids -> Agreements]
<1>1. /\ camps' \in [Ids -> Rows] /\ camps'[i] = d
      /\ \A j \in Ids : j # i => camps'[j] = camps[j]
  BY DEF IInv, TypeOK
<1>2. /\ agreements' \in [Ids -> Agreements] /\ agreements'[i] = b
      /\ \A j \in Ids : j # i => agreements'[j] = agreements[j]
  BY DEF IInv, TypeOK
<1>3. RowsGood'
  BY <1>1, <1>2 DEF IInv, RowsGood
<1>4. OneDealPerPair'
  BY <1>1, <1>2 DEF IInv, OneDealPerPair
<1> QED BY <1>1, <1>2, <1>3, <1>4

LEMMA RestoredGaps ==
    ASSUME TypeOK, NEW c \in Rows
    PROVE  Restored(c, gap) \in [Locals -> Gaps]
<1>1. \A l \in DOMAIN c.records : c.records[l] \in Gaps
  BY DEF Rows
<1> QED BY <1>1 DEF TypeOK, Restored

\* A campaign settles on an offer whose ballot, if there is one, is not in the way.
LEMMA SettleStep ==
    ASSUME IInv, NEW i \in Ids, NEW c \in Rows, Settle(i, c), UNCHANGED <<turn, leader>>,
           Live(camps[i]), c.employer = camps[i].employer, c.status = camps[i].status,
           c.rev = camps[i].rev, c.by = camps[i].by, c.ballot.rev = camps[i].ballot.rev,
           ~ OpenBallot(c), c.ballot.rev = c.rev => c.ballot.status = "ratified"
    PROVE  /\ RowsGood' /\ OneDealPerPair'
           /\ camps' \in [Ids -> Rows] /\ agreements' \in [Ids -> Agreements]
           /\ gap' \in [Locals -> Gaps]
           /\ \A j \in Ids : j # i => camps'[j] = camps[j]
<1>1. GoodRow(camps[i], agreements[i], turn, leader) /\ turn \in Turns /\ leader \in Leaders
  BY DEF IInv, RowsGood, TypeOK, Leaders
<1>2. Live(c) /\ c.rev > 0 /\ c.ballot.rev <= c.rev
  BY <1>1 DEF GoodRow, GoodBallot, Live
<1>3. /\ c.ballot.rev # 0 => leader = "player"
      /\ c.ballot.rev = c.rev => c.by = "employer" /\ c.ballot.status = "ratified"
  BY <1>1, <1>2 DEF GoodRow, GoodBallot, Live
<1>4. /\ Settled(c, turn) \in Rows /\ AgreementOf(c, turn) \in Agreements
      /\ GoodRow(Settled(c, turn), AgreementOf(c, turn), turn, leader)
      /\ Settled(c, turn).employer = c.employer /\ ~ Live(Settled(c, turn))
  BY <1>1, <1>2, <1>3, SettledRow
<1>5. AgreementOf(c, turn).employer = c.employer
  BY DEF AgreementOf
<1>6. /\ RowsGood' /\ OneDealPerPair'
      /\ camps' \in [Ids -> Rows] /\ agreements' \in [Ids -> Agreements]
  BY <1>4, <1>5, OneSettles DEF Settle
<1>7. gap' \in [Locals -> Gaps]
  BY RestoredGaps DEF Settle, IInv
<1>8. \A j \in Ids : j # i => camps'[j] = camps[j]
  BY DEF Settle, IInv, TypeOK
<1> QED BY <1>6, <1>7, <1>8

\* An opening takes a row that was never used, for an employer nothing holds.
LEMMA OpenStep ==
    ASSUME IInv, NEW e \in Employers, NEW t \in Terms, MayOpen(e), Open(e, t),
           UNCHANGED <<agreements, turn, leader>>
    PROVE  /\ RowsGood' /\ OneDealPerPair' /\ camps' \in [Ids -> Rows]
           /\ \A j \in Ids : Live(camps[j]) => camps'[j] = camps[j]
<1>1. PICK i \in Ids : camps[i].status = "none" /\ camps' = [camps EXCEPT ![i] = Opened(e, t, turn)]
  BY DEF Open
<1> DEFINE d == Opened(e, t, turn)
<1>2. turn \in Turns /\ leader \in Leaders /\ agreements[i].status = "none"
  BY <1>1 DEF IInv, TypeOK, RowsGood, GoodRow, Agreed, Leaders
<1>3. d \in Rows /\ GoodRow(d, agreements[i], turn, leader) /\ d.employer = e
  BY <1>2, OpenedRow DEF IInv, TypeOK
<1> HIDE DEF d
<1>4. /\ camps' \in [Ids -> Rows] /\ camps'[i] = d
      /\ \A j \in Ids : j # i => camps'[j] = camps[j]
  BY <1>1, <1>3 DEF IInv, TypeOK, d
<1>5. RowsGood'
  BY <1>3, <1>4 DEF IInv, RowsGood
<1>6. OneDealPerPair'
  <2>1. \A j \in Ids : /\ ~ (camps[j].employer = e /\ Live(camps[j]))
                       /\ ~ (agreements[j].employer = e /\ Active(agreements[j], turn))
    BY DEF MayOpen, Blocked
  <2> QED BY <1>3, <1>4, <2>1 DEF IInv, OneDealPerPair
<1>7. \A j \in Ids : Live(camps[j]) => camps'[j] = camps[j]
  BY <1>1, <1>4 DEF Live
<1> QED BY <1>4, <1>5, <1>6, <1>7

\* Escalation is paid for out of the fund and touches no offer.
LEMMA EscalateStep ==
    ASSUME IInv, NEW i \in Ids, Escalate(i), UNCHANGED <<turn, leader>>
    PROVE  /\ RowsGood' /\ OneDealPerPair' /\ camps' \in [Ids -> Rows]
           /\ strike' \in [Locals -> {Never} \cup Turns] /\ gap' \in [Locals -> Gaps]
           /\ fund' \in 0 .. MaxFund /\ lastCall' \in {Never} \cup Turns
           /\ \A j \in Ids : j # i => camps'[j] = camps[j]
<1> DEFINE c == camps[i]
           level == NextLevel[c.level]
           raised(new) == [c EXCEPT !.level = level, !.last = turn,
                                    !.records = [l \in DOMAIN c.records \cup new |->
                                       IF l \in DOMAIN c.records THEN c.records[l] ELSE gap[l]]]
<1>1. c \in Rows /\ turn \in Turns /\ leader \in Leaders /\ c.level # "industry_strike"
  BY DEF IInv, TypeOK, Leaders, Escalate
<1>2. level \in {"overtime_ban", "selective_strike", "industry_strike"}
  BY <1>1 DEF Rows, Levels, NextLevel
<1>3. PICK dense \in SUBSET c.scope : \E new \in Targets(c, level, dense) :
         LET cost == STRIKE_CALL_COST * Cardinality(new) IN
         /\ cost <= fund /\ fund' = fund - cost
         /\ lastCall' = IF cost > 0 THEN turn ELSE lastCall
         /\ strike' = [l \in Locals |-> IF l \in new THEN turn ELSE strike[l]]
         /\ gap' = [l \in Locals |-> IF l \in new THEN FORCED_GAP ELSE gap[l]]
         /\ camps' = [camps EXCEPT ![i] = raised(new)]
  BY DEF Escalate
<1>4. PICK new \in Targets(c, level, dense) :
         LET cost == STRIKE_CALL_COST * Cardinality(new) IN
         /\ cost <= fund /\ fund' = fund - cost
         /\ lastCall' = IF cost > 0 THEN turn ELSE lastCall
         /\ strike' = [l \in Locals |-> IF l \in new THEN turn ELSE strike[l]]
         /\ gap' = [l \in Locals |-> IF l \in new THEN FORCED_GAP ELSE gap[l]]
         /\ camps' = [camps EXCEPT ![i] = raised(new)]
  BY <1>3
<1>5. new \subseteq Locals
  BY <1>1, <1>2, <1>4 DEF Targets, Strikable, Rows
<1>6. fund' \in 0 .. MaxFund
  <2>1. Cardinality(new) \in Nat
    BY <1>5, PartiesAssumption, FS_Subset, FS_CardinalityType
  <2>2. STRIKE_CALL_COST * Cardinality(new) \in Nat
    BY <2>1, FundAssumption
  <2> QED BY <1>4, <2>2, FundAssumption DEF IInv, TypeOK
<1>7. /\ lastCall' \in {Never} \cup Turns /\ strike' \in [Locals -> {Never} \cup Turns]
      /\ gap' \in [Locals -> Gaps]
  BY <1>1, <1>4, GapsAssumption DEF IInv, TypeOK, Gaps
<1> DEFINE d == raised(new)
<1>8. d \in Rows
  <2>1. DOMAIN c.records \in SUBSET Locals /\ c.records \in [DOMAIN c.records -> Gaps]
    BY <1>1 DEF Rows
  <2> DEFINE f == [l \in DOMAIN c.records \cup new |->
                     IF l \in DOMAIN c.records THEN c.records[l] ELSE gap[l]]
  <2>2. f \in [DOMAIN c.records \cup new -> Gaps]
    BY <1>5, <2>1 DEF IInv, TypeOK
  <2>3. DOMAIN c.records \cup new \in SUBSET Locals
    BY <1>5, <2>1
  <2>4. d = [c EXCEPT !.level = level, !.last = turn, !.records = f]
    OBVIOUS
  <2> HIDE DEF f, d, level
  <2>5. f \in UNION {[S -> Gaps] : S \in SUBSET Locals}
    BY <2>2, <2>3
  <2> QED BY <1>1, <1>2, <2>4, <2>5 DEF Rows, Levels
<1>9. /\ d.status = c.status /\ d.rev = c.rev /\ d.by = c.by /\ d.employer = c.employer
      /\ d.start = c.start /\ d.disputeAt = c.disputeAt /\ d.ballot = c.ballot
      /\ d.endedAt = c.endedAt /\ d.scope = c.scope /\ d.terms = c.terms
  BY <1>1 DEF Rows
<1>10. UNCHANGED agreements /\ camps' = [camps EXCEPT ![i] = d]
  BY <1>4 DEF Escalate
<1> HIDE DEF d, c, level, raised
<1>11. GoodRow(d, agreements[i], turn, leader)
  BY <1>1, <1>8, <1>9, PressedRow DEF IInv, RowsGood, c
<1>12. RowsGood' /\ OneDealPerPair' /\ camps' \in [Ids -> Rows]
  BY <1>8, <1>9, <1>10, <1>11, OneMoves DEF Live, c
<1>13. \A j \in Ids : j # i => camps'[j] = camps[j]
  BY <1>10 DEF IInv, TypeOK
<1> QED BY <1>6, <1>7, <1>12, <1>13

-----------------------------------------------------------------------------
\* The player

LEMMA InitIInv == Init => IInv
<1> SUFFICES ASSUME Init PROVE IInv
  OBVIOUS
<1>1. NoRow \in Rows /\ NoAgreement \in Agreements
  <2>1. NoRow.records \in UNION {[S -> Gaps] : S \in SUBSET Locals}
    <3>1. [l \in {} |-> Unknown] \in [{} -> Gaps]
      OBVIOUS
    <3> QED BY <3>1 DEF NoRow
  <2> QED BY <2>1, ClocksAssumption
          DEF NoRow, NoBallot, NoAgreement, Rows, Agreements, Statuses, Levels
<1>2. TypeOK
  <2> USE DEF Init
  <2>1. turn \in Turns /\ phase \in {"play", "ban", "answer"} /\ upheavals \in 0 .. MaxUpheavals
    BY PartiesAssumption DEF Turns
  <2>2. employerOf \in [Locals -> Employers \cup {Gone}]
    BY PartiesAssumption
  <2>3. /\ strike \in [Locals -> {Never} \cup Turns]
        /\ cooldown \in [Locals -> {Never} \cup 0 .. MaxTurn + STRIKE_COOLDOWN_TURNS]
        /\ gap \in [Locals -> Gaps]
    BY DEF Gaps
  <2>4. fund \in 0 .. MaxFund /\ lastCall \in {Never} \cup Turns
    BY FundAssumption
  <2>5. camps \in [Ids -> Rows] /\ agreements \in [Ids -> Agreements]
    BY <1>1
  <2> QED BY <2>1, <2>2, <2>3, <2>4, <2>5 DEF TypeOK
<1>3. RowsGood
  BY DEF Init, RowsGood, GoodRow, GoodBallot, OnTime, Agreed, NoRow, NoBallot, NoAgreement,
     OpenBallot, Live
<1>4. TodoLive /\ OneDealPerPair
  BY DEF Init, TodoLive, OneDealPerPair, NoRow, NoAgreement, Live, Active
<1> QED BY <1>2, <1>3, <1>4 DEF IInv

LEMMA CallBargainingInv ==
    ASSUME IInv, NEW e \in Employers, NEW t \in Terms, CallBargaining(e, t) PROVE IInv'
<1>1. /\ RowsGood' /\ OneDealPerPair' /\ camps' \in [Ids -> Rows]
  BY OpenStep DEF CallBargaining, unionVars
<1>2. TypeOK' /\ TodoLive'
  BY <1>1 DEF CallBargaining, Led, Playing, IInv, TypeOK, TodoLive, locVars, unionVars
<1> QED BY <1>1, <1>2 DEF IInv

LEMMA AcceptOfferInv ==
    ASSUME IInv, NEW i \in Ids, AcceptOffer(i) PROVE IInv'
<1> DEFINE c == camps[i]
           d == AskedOf(c, turn)
<1>1. /\ c \in Rows /\ GoodRow(c, agreements[i], turn, leader) /\ turn \in Turns
      /\ Live(c) /\ c.by = "employer" /\ ~ Asked(c) /\ leader = "player" /\ phase = "play"
      /\ UNCHANGED <<turn, phase, upheavals, todo, employers, employerOf, strike, cooldown,
                     unionVars>>
  BY DEF AcceptOffer, Led, Playing, IInv, TypeOK, RowsGood
<1>2. CASE camps' = [camps EXCEPT ![i] = d] /\ UNCHANGED <<gap, agreements>>
  <2>1. d \in Rows /\ GoodRow(d, agreements[i], turn, "player") /\ d.employer = c.employer
    BY <1>1, AskedRow
  <2> HIDE DEF d
  <2>2. RowsGood' /\ OneDealPerPair' /\ camps' \in [Ids -> Rows]
    BY <1>1, <1>2, <2>1, OneMoves DEF unionVars
  <2>3. TypeOK' /\ TodoLive'
    BY <1>1, <1>2, <2>2 DEF IInv, TypeOK, TodoLive, unionVars
  <2> QED BY <2>2, <2>3 DEF IInv
<1>3. CASE Settle(i, c)
  <2>1. ~ OpenBallot(c) /\ c.ballot.rev # c.rev
    BY <1>1 DEF Asked, GoodRow, GoodBallot, OpenBallot
  <2>2. /\ RowsGood' /\ OneDealPerPair' /\ camps' \in [Ids -> Rows]
        /\ agreements' \in [Ids -> Agreements] /\ gap' \in [Locals -> Gaps]
    BY <1>1, <1>3, <2>1, SettleStep DEF unionVars
  <2>3. TypeOK' /\ TodoLive'
    BY <1>1, <2>2 DEF IInv, TypeOK, TodoLive, unionVars
  <2> QED BY <2>2, <2>3 DEF IInv
<1> QED BY <1>2, <1>3 DEF AcceptOffer, AskedOf

LEMMA CounterOfferInv ==
    ASSUME IInv, NEW i \in Ids, NEW t \in Terms, CounterOffer(i, t) PROVE IInv'
<1> DEFINE c == camps[i]
           d == Countered(c, "union", t, turn)
<1>1. /\ c \in Rows /\ GoodRow(c, agreements[i], turn, leader) /\ turn \in Turns
      /\ leader \in Leaders /\ MayCounter(c, "union")
  BY DEF CounterOffer, IInv, TypeOK, RowsGood, Leaders
<1>2. d \in Rows /\ GoodRow(d, agreements[i], turn, leader) /\ d.employer = c.employer
  BY <1>1, CounteredRow
<1>3. Live(c) /\ camps' = [camps EXCEPT ![i] = d]
  BY DEF CounterOffer, MayCounter
<1> HIDE DEF d
<1>4. RowsGood' /\ OneDealPerPair' /\ camps' \in [Ids -> Rows]
  BY <1>2, <1>3, OneMoves DEF CounterOffer, unionVars
<1>5. TypeOK' /\ TodoLive'
  BY <1>4 DEF CounterOffer, Led, Playing, IInv, TypeOK, TodoLive, locVars, unionVars
<1> QED BY <1>4, <1>5 DEF IInv

LEMMA WithdrawInv ==
    ASSUME IInv, NEW i \in Ids, Withdraw(i) PROVE IInv'
<1> DEFINE c == camps[i]
           d == Withdrawn(c, turn)
<1>1. /\ c \in Rows /\ GoodRow(c, agreements[i], turn, leader) /\ turn \in Turns
      /\ leader \in Leaders /\ Live(c)
  BY DEF Withdraw, IInv, TypeOK, RowsGood, Leaders
<1>2. /\ c.rev > 0 /\ c.ballot.rev <= c.rev /\ agreements[i].status = "none"
      /\ (c.ballot.rev # 0 => leader = "player")
      /\ (c.ballot.rev = c.rev => c.by = "employer")
  BY <1>1 DEF GoodRow, GoodBallot, Agreed, Live
<1>3. d \in Rows /\ GoodRow(d, agreements[i], turn, leader) /\ d.employer = c.employer
  BY <1>1, <1>2, EndedRow
<1> HIDE DEF d
<1>4. RowsGood' /\ OneDealPerPair' /\ camps' \in [Ids -> Rows]
  BY <1>1, <1>3, OneMoves DEF Withdraw, unionVars, d
<1>5. gap' \in [Locals -> Gaps]
  BY <1>1, RestoredGaps DEF Withdraw, IInv
<1>6. TypeOK' /\ TodoLive'
  BY <1>4, <1>5 DEF Withdraw, Led, Playing, IInv, TypeOK, TodoLive, unionVars
<1> QED BY <1>4, <1>6 DEF IInv

LEMMA CallActionInv ==
    ASSUME IInv, NEW i \in Ids, CallAction(i) PROVE IInv'
<1>1. /\ Escalate(i) /\ phase = "play"
      /\ UNCHANGED <<turn, phase, upheavals, todo, employers, leader, organizer>>
  BY DEF CallAction, Led, Playing
<1>2. /\ RowsGood' /\ OneDealPerPair' /\ camps' \in [Ids -> Rows]
      /\ strike' \in [Locals -> {Never} \cup Turns] /\ gap' \in [Locals -> Gaps]
      /\ fund' \in 0 .. MaxFund /\ lastCall' \in {Never} \cup Turns
  BY <1>1, EscalateStep
<1>3. UNCHANGED <<employerOf, cooldown, agreements>>
  BY <1>1 DEF Escalate
<1>4. TypeOK' /\ TodoLive'
  BY <1>1, <1>2, <1>3 DEF IInv, TypeOK, TodoLive
<1> QED BY <1>2, <1>4 DEF IInv

LEMMA CastBallotInv ==
    ASSUME IInv, NEW i \in Ids, NEW verdict \in {"ratified", "rejected"}, CastBallot(i, verdict)
    PROVE  IInv'
<1> DEFINE c == camps[i]
           d == RejectedOf(c, turn)
<1>1. /\ c \in Rows /\ GoodRow(c, agreements[i], turn, leader) /\ turn \in Turns
      /\ leader \in Leaders /\ Live(c) /\ OpenBallot(c) /\ phase = "play"
      /\ UNCHANGED <<turn, phase, upheavals, todo, employers, employerOf, strike, cooldown,
                     unionVars>>
  BY DEF CastBallot, Led, Playing, IInv, TypeOK, RowsGood, Leaders
<1>2. CASE camps' = [camps EXCEPT ![i] = d] /\ UNCHANGED <<gap, agreements>>
  <2>1. d \in Rows /\ GoodRow(d, agreements[i], turn, leader) /\ d.employer = c.employer
    BY <1>1, RejectedRow
  <2> HIDE DEF d
  <2>2. RowsGood' /\ OneDealPerPair' /\ camps' \in [Ids -> Rows]
    BY <1>1, <1>2, <2>1, OneMoves DEF unionVars
  <2>3. TypeOK' /\ TodoLive'
    BY <1>1, <1>2, <2>2 DEF IInv, TypeOK, TodoLive, unionVars
  <2> QED BY <2>2, <2>3 DEF IInv
<1>3. CASE Settle(i, Closed(c, "ratified"))
  <2> DEFINE r == Closed(c, "ratified")
  <2>1. /\ r \in Rows /\ r.employer = c.employer /\ r.status = c.status
        /\ r.rev = c.rev /\ r.by = c.by /\ r.ballot.rev = c.ballot.rev
        /\ r.ballot.status = "ratified"
    BY <1>1 DEF Closed, Rows
  <2> HIDE DEF r
  <2>2. ~ OpenBallot(r)
    BY <2>1 DEF OpenBallot
  <2>3. /\ RowsGood' /\ OneDealPerPair' /\ camps' \in [Ids -> Rows]
        /\ agreements' \in [Ids -> Agreements] /\ gap' \in [Locals -> Gaps]
    BY <1>1, <1>3, <2>1, <2>2, SettleStep DEF unionVars, r
  <2>4. TypeOK' /\ TodoLive'
    BY <1>1, <2>3 DEF IInv, TypeOK, TodoLive, unionVars
  <2> QED BY <2>3, <2>4 DEF IInv
<1>4. verdict = "ratified" \/ verdict = "rejected"
  OBVIOUS
<1> QED BY <1>2, <1>3, <1>4 DEF CastBallot, RejectedOf

\* What leaves campaigns, agreements, turn and phase alone, and leaves a player
\* who leads in the lead, keeps all but the types.
LEMMA Untouched ==
    ASSUME IInv, UNCHANGED <<turn, phase, todo, camps, agreements>>,
           leader = "player" => leader' = "player"
    PROVE  RowsGood' /\ TodoLive' /\ OneDealPerPair'
BY DEF IInv, RowsGood, TodoLive, OneDealPerPair, GoodRow, GoodBallot

LEMMA PeopleInv ==
    ASSUME IInv, Organize \/ TakeLead PROVE IInv'
<1>1. RowsGood' /\ TodoLive' /\ OneDealPerPair'
  BY Untouched DEF Organize, TakeLead
<1>2. TypeOK'
  BY DEF IInv, TypeOK, Organize, TakeLead, locVars
<1> QED BY <1>1, <1>2 DEF IInv

LEMMA UpheavalInv ==
    ASSUME IInv,
           \/ \E l \in Locals, e \in Employers : Sell(l, e)
           \/ \E l, m \in Locals : Merge(l, m)
           \/ \E e \in Employers : Dissolve(e)
    PROVE  IInv'
<1>1. RowsGood' /\ TodoLive' /\ OneDealPerPair'
  BY Untouched DEF Sell, Merge, Dissolve, unionVars
<1>2. Upheaval => upheavals' \in 0 .. MaxUpheavals
  BY PartiesAssumption DEF IInv, TypeOK, Upheaval
<1>3. ASSUME NEW l \in Locals, NEW e \in Employers, Sell(l, e) PROVE TypeOK'
  BY <1>2, <1>3 DEF IInv, TypeOK, Sell, unionVars
<1>4. ASSUME NEW l \in Locals, NEW m \in Locals, Merge(l, m) PROVE TypeOK'
  BY <1>2, <1>4 DEF IInv, TypeOK, Merge, unionVars, Gaps
<1>5. ASSUME NEW e \in Employers, Dissolve(e) PROVE TypeOK'
  <2>1. PICK heir \in employers \cup {Gone}, lost \in SUBSET {l \in Locals : employerOf[l] = e} :
          LET held == {l \in Locals : employerOf[l] = e} \ lost IN
          /\ employerOf' = [l \in Locals |-> IF l \in held THEN heir
                                            ELSE IF l \in lost THEN Gone ELSE employerOf[l]]
          /\ strike' = [l \in Locals |-> IF l \in lost THEN Never ELSE strike[l]]
          /\ cooldown' = [l \in Locals |-> IF l \in lost THEN Never ELSE cooldown[l]]
          /\ gap' = [l \in Locals |-> IF l \in lost THEN Unknown ELSE gap[l]]
    BY <1>5 DEF Dissolve
  <2>2. heir \in Employers \cup {Gone}
    BY DEF IInv, TypeOK
  <2>3. /\ employerOf' \in [Locals -> Employers \cup {Gone}]
        /\ strike' \in [Locals -> {Never} \cup Turns]
        /\ cooldown' \in [Locals -> {Never} \cup 0 .. MaxTurn + STRIKE_COOLDOWN_TURNS]
        /\ gap' \in [Locals -> Gaps]
    BY <2>1, <2>2 DEF IInv, TypeOK, Gaps
  <2> QED BY <1>2, <1>5, <2>3 DEF IInv, TypeOK, Dissolve, unionVars
<1> QED BY <1>1, <1>3, <1>4, <1>5 DEF IInv

-----------------------------------------------------------------------------
\* The turn

\* After the clocks every row is good again, with the agreement it has now.
LEMMA ClockedRows ==
    ASSUME IInv, StrikesAndClocks, NEW i \in Ids
    PROVE  /\ camps'[i] \in Rows /\ agreements'[i] \in Agreements
           /\ GoodRow(camps'[i], agreements'[i], turn', leader)
           /\ camps'[i].employer = camps[i].employer
           /\ Live(camps'[i]) => Live(camps[i])
           /\ \/ agreements'[i] = agreements[i]
              \/ agreements'[i].status = "expired"
              \/ /\ Live(camps[i]) /\ ~ Live(camps'[i])
                 /\ agreements'[i].employer = camps[i].employer
<1> DEFINE c == camps[i]
           a == agreements[i]
           d == camps'[i]
           now == turn + 1
<1>1. /\ c \in Rows /\ a \in Agreements /\ GoodRow(c, a, turn, leader)
      /\ turn \in Turns /\ leader \in Leaders
  BY DEF IInv, TypeOK, RowsGood, Leaders
<1>2. turn' = now /\ now \in Turns /\ turn \in Int
  BY <1>1, PartiesAssumption DEF StrikesAndClocks, Turns
<1>3. d = Clocked(c, now)
  BY DEF StrikesAndClocks
<1>4. agreements'[i] = CASE i \in Ending(now) /\ d.status = "settled" -> AgreementOf(c, now)
                         [] a.status = "active" /\ Expires(a) <= now -> [a EXCEPT !.status = "expired"]
                         [] OTHER -> a
  BY DEF StrikesAndClocks
<1>5. i \in Ending(now) <=> Live(c) /\ ~ Live(d)
  BY <1>3 DEF Ending
<1>6. /\ d \in Rows /\ d.employer = c.employer
      /\ ~ Live(c) => d = c
      /\ d.status = "settled" /\ Live(c)
           => /\ AgreementOf(c, now) \in Agreements
              /\ GoodRow(d, AgreementOf(c, now), now, leader)
      /\ Live(c) /\ d.status # "settled" => GoodRow(d, a, now, leader)
  BY <1>1, <1>2, <1>3, ClockedRow
<1> HIDE DEF c, a, d, now
<1>7. CASE ~ Live(c)
  <2>1. /\ agreements'[i] = a \/ agreements'[i] = [a EXCEPT !.status = "expired"]
        /\ agreements'[i] # a => a.status = "active"
    BY <1>4, <1>5, <1>7
  <2>2. /\ agreements'[i] \in Agreements /\ (agreements'[i].status = "none" <=> a.status = "none")
        /\ agreements'[i].employer = a.employer /\ agreements'[i].scope = a.scope
        /\ agreements'[i].terms = a.terms /\ agreements'[i].start = a.start
        /\ agreements'[i] = a \/ agreements'[i].status = "expired"
    BY <1>1, <2>1 DEF Agreements
  <2>3. a.start \in Int
    BY <1>1, PartiesAssumption DEF Agreements, Turns, Never
  <2>4. GoodRow(d, agreements'[i], now, leader)
    BY <1>1, <1>2, <1>6, <1>7, <2>2, <2>3 DEF GoodRow, GoodBallot, OnTime, Agreed, Live, now
  <2> QED BY <1>2, <1>6, <1>7, <2>2, <2>4 DEF c, a, d
<1>8. CASE Live(c) /\ d.status = "settled"
  <2>1. ~ Live(d)
    BY <1>8 DEF Live
  <2>2. agreements'[i] = AgreementOf(c, now)
    <3>1. a.status = "none"
      BY <1>1, <1>8 DEF GoodRow, Agreed, Live
    <3> QED BY <1>4, <1>5, <1>8, <2>1, <3>1
  <2> QED BY <1>2, <1>6, <1>8, <2>1, <2>2 DEF AgreementOf, c, a, d
<1>9. CASE Live(c) /\ d.status # "settled"
  <2>1. a.status = "none"
    BY <1>1, <1>9 DEF GoodRow, Agreed, Live
  <2>2. agreements'[i] = a
    BY <1>4, <1>9, <2>1
  <2> QED BY <1>1, <1>2, <1>6, <1>9, <2>2 DEF c, a, d
<1> QED BY <1>7, <1>8, <1>9

\* Whoever holds an employer after the clocks held it before.
LEMMA ClockedPairs ==
    ASSUME IInv, StrikesAndClocks
    PROVE  OneDealPerPair'
<1> DEFINE Held(i, e) == \/ Live(camps[i]) /\ camps[i].employer = e
                         \/ Active(agreements[i], turn) /\ agreements[i].employer = e
<1>1. \A i \in Ids : /\ Live(camps'[i]) => Live(camps[i])
                     /\ camps'[i].employer = camps[i].employer
  BY ClockedRows
<1>2. ASSUME NEW i \in Ids, Active(agreements'[i], turn')
      PROVE  \/ /\ Live(camps[i]) /\ ~ Live(camps'[i])
                /\ agreements'[i].employer = camps[i].employer
             \/ Active(agreements[i], turn) /\ agreements'[i].employer = agreements[i].employer
  <2>1. CASE agreements'[i] = agreements[i]
    <3>1. GoodRow(camps[i], agreements[i], turn, leader) /\ agreements[i] \in Agreements
      BY DEF IInv, TypeOK, RowsGood
    <3>2. agreements[i].status = "active" /\ turn' < Expires(agreements[i])
      BY <1>2, <2>1 DEF Active
    <3>3. agreements[i].start <= turn /\ turn' = turn + 1 /\ turn \in Int
      BY <3>1, <3>2, PartiesAssumption DEF GoodRow, Agreed, StrikesAndClocks, IInv, TypeOK, Turns
    <3>4. Expires(agreements[i]) \in Int
      BY <3>1, ClocksAssumption, PartiesAssumption
         DEF Expires, Agreements, Turns, Never, NoTerms
    <3> QED BY <2>1, <3>2, <3>3, <3>4 DEF Active
  <2>2. CASE agreements'[i] # agreements[i]
    BY <1>2, <2>2, ClockedRows DEF Active
  <2> QED BY <2>1, <2>2
<1>3. ASSUME NEW i \in Ids, NEW j \in Ids, NEW e, Held(i, e), Held(j, e) PROVE i = j
  BY <1>3 DEF IInv, OneDealPerPair
<1>4. ASSUME NEW i \in Ids
      PROVE  /\ Live(camps'[i]) => Held(i, camps'[i].employer)
             /\ Active(agreements'[i], turn') => Held(i, agreements'[i].employer)
             /\ ~ (Live(camps'[i]) /\ Active(agreements'[i], turn')
                   /\ camps'[i].employer = agreements'[i].employer)
  BY <1>1, <1>2 DEF IInv, OneDealPerPair
<1> HIDE DEF Held
<1> QED BY <1>3, <1>4 DEF OneDealPerPair

LEMMA StrikesAndClocksInv ==
    ASSUME IInv, StrikesAndClocks PROVE IInv'
<1>1. /\ camps' \in [Ids -> Rows] /\ agreements' \in [Ids -> Agreements]
  <2>1. /\ camps' = [i \in Ids |-> camps'[i]] /\ agreements' = [i \in Ids |-> agreements'[i]]
    BY DEF StrikesAndClocks
  <2> QED BY <2>1, ClockedRows
<1>2. leader' = leader
  BY DEF StrikesAndClocks, unionVars
<1>3. RowsGood'
  BY <1>2, ClockedRows DEF RowsGood
<1>4. turn' = turn + 1 /\ turn' \in Turns
  BY PartiesAssumption DEF StrikesAndClocks, IInv, TypeOK, Turns
<1>5. gap' \in [Locals -> Gaps]
  <2> DEFINE holding(l) == {i \in Ending(turn + 1) : l \in DOMAIN camps[i].records}
             forced(l) == CHOOSE i \in holding(l) : TRUE
  <2>1. gap' = [l \in Locals |-> IF employerOf[l] # Gone /\ holding(l) # {}
                                 THEN camps[forced(l)].records[l] ELSE Trended(l)]
    BY DEF StrikesAndClocks
  <2>2. ASSUME NEW l \in Locals PROVE Trended(l) \in Gaps
    BY GapsAssumption DEF IInv, TypeOK, Trended, Gaps, Unknown
  <2>3. ASSUME NEW l \in Locals, holding(l) # {} PROVE camps[forced(l)].records[l] \in Gaps
    <3>1. forced(l) \in Ids /\ l \in DOMAIN camps[forced(l)].records
      BY <2>3 DEF Ending
    <3> HIDE DEF forced, holding
    <3>2. camps[forced(l)] \in Rows
      BY <3>1 DEF IInv, TypeOK
    <3> QED BY <3>1, <3>2 DEF Rows
  <2> HIDE DEF holding, forced
  <2> QED BY <2>1, <2>2, <2>3
<1>6. /\ strike' \in [Locals -> {Never} \cup Turns]
      /\ cooldown' \in [Locals -> {Never} \cup 0 .. MaxTurn + STRIKE_COOLDOWN_TURNS]
  <2>1. turn' + STRIKE_COOLDOWN_TURNS \in 0 .. MaxTurn + STRIKE_COOLDOWN_TURNS
    BY <1>4, ClocksAssumption, PartiesAssumption DEF Turns
  <2>2. PICK soft \in Softenings :
          /\ strike' = [l \in Locals |-> IF StrikeEnds(l, soft, turn') THEN Never ELSE strike[l]]
          /\ cooldown' = [l \in Locals |-> IF StrikeEnds(l, soft, turn')
                                           THEN turn' + STRIKE_COOLDOWN_TURNS ELSE cooldown[l]]
    BY DEF StrikesAndClocks
  <2> QED BY <2>1, <2>2 DEF IInv, TypeOK
<1>7. TypeOK' /\ TodoLive'
  BY <1>1, <1>4, <1>5, <1>6 DEF IInv, TypeOK, TodoLive, StrikesAndClocks, unionVars
<1> QED BY <1>3, <1>7, ClockedPairs DEF IInv

LEMMA FundBanInv ==
    ASSUME IInv, NEW i \in Ids, FundBan(i) PROVE IInv'
<1> DEFINE c == camps[i]
           d == [c EXCEPT !.level = "none"]
           scoped == c.scope \cap Existing
           upkeep == BAN_UPKEEP * Cardinality(scoped)
<1>1. /\ c \in Rows /\ GoodRow(c, agreements[i], turn, leader) /\ turn \in Turns
      /\ leader \in Leaders
  BY DEF IInv, TypeOK, RowsGood, Leaders
<1>2. /\ phase' = "ban" /\ todo' \subseteq todo
      /\ UNCHANGED <<turn, phase, upheavals, employers, locVars, leader, organizer, lastCall,
                     agreements>>
      /\ camps' = camps \/ camps' = [camps EXCEPT ![i] = d]
      /\ fund' = fund \/ (upkeep <= fund /\ fund' = fund - upkeep)
  BY DEF FundBan
<1>3. fund' \in 0 .. MaxFund
  <2>1. Cardinality(scoped) \in Nat
    BY <1>1, PartiesAssumption, FS_Subset, FS_CardinalityType DEF Existing
  <2>2. upkeep \in Nat
    BY <2>1, FundAssumption
  <2> HIDE DEF upkeep
  <2> QED BY <1>2, <2>2, FundAssumption DEF IInv, TypeOK
<1>4. RowsGood' /\ OneDealPerPair' /\ camps' \in [Ids -> Rows]
  <2>1. CASE camps' = camps
    BY <1>2, <2>1 DEF IInv, TypeOK, RowsGood, OneDealPerPair
  <2>2. CASE camps' = [camps EXCEPT ![i] = d]
    <3>1. d \in Rows
      BY <1>1 DEF Rows, Levels
    <3>2. /\ d.status = c.status /\ d.rev = c.rev /\ d.by = c.by /\ d.employer = c.employer
          /\ d.start = c.start /\ d.disputeAt = c.disputeAt /\ d.ballot = c.ballot
          /\ d.endedAt = c.endedAt /\ d.scope = c.scope /\ d.terms = c.terms
      BY <1>1 DEF Rows
    <3> HIDE DEF d
    <3>3. GoodRow(d, agreements[i], turn, leader)
      BY <1>1, <3>1, <3>2, PressedRow
    <3> QED BY <1>2, <2>2, <3>1, <3>2, <3>3, OneMoves DEF Live
  <2> QED BY <1>2, <2>1, <2>2
<1>5. TypeOK' /\ TodoLive'
  BY <1>2, <1>3, <1>4 DEF IInv, TypeOK, TodoLive, locVars
<1> QED BY <1>4, <1>5 DEF IInv

LEMMA OpenAutonomouslyInv ==
    ASSUME IInv, OpenAutonomously PROVE IInv'
<1>1. /\ UNCHANGED <<turn, upheavals, employers, locVars, unionVars, agreements>>
      /\ phase' = "answer" /\ todo' \subseteq {i \in Ids : Live(camps[i])}
  BY DEF OpenAutonomously
<1>2. /\ RowsGood' /\ OneDealPerPair' /\ camps' \in [Ids -> Rows]
      /\ \A j \in Ids : Live(camps[j]) => camps'[j] = camps[j]
  <2>1. CASE UNCHANGED camps
    BY <1>1, <2>1 DEF IInv, TypeOK, RowsGood, OneDealPerPair, unionVars
  <2>2. CASE \E e \in Employers, t \in Terms : MayOpen(e) /\ Open(e, t)
    BY <1>1, <2>2, OpenStep DEF unionVars
  <2> QED BY <2>1, <2>2 DEF OpenAutonomously
<1>3. TodoLive'
  BY <1>1, <1>2 DEF TodoLive
<1>4. TypeOK'
  BY <1>1, <1>2 DEF IInv, TypeOK, locVars, unionVars
<1> QED BY <1>2, <1>3, <1>4 DEF IInv

\* An answer settles only what the answering party was offered, and a union led
\* by an NPP never asked anybody.
LEMMA AnswerOfferInv ==
    ASSUME IInv, NEW i \in Ids, AnswerOffer(i) PROVE IInv'
<1> DEFINE c == camps[i]
<1>1. /\ c \in Rows /\ GoodRow(c, agreements[i], turn, leader) /\ turn \in Turns
      /\ leader \in Leaders
  BY DEF IInv, TypeOK, RowsGood, Leaders
<1>2. /\ phase = "answer" /\ i \in todo /\ todo' = todo \ {i}
      /\ UNCHANGED <<turn, phase, upheavals, employers>>
  BY DEF AnswerOffer
<1>3. Live(c)
  BY <1>2 DEF IInv, TodoLive
<1> DEFINE Done == /\ RowsGood' /\ OneDealPerPair' /\ camps' \in [Ids -> Rows]
                   /\ \A j \in Ids : j # i => camps'[j] = camps[j]
<1>4. ASSUME Done PROVE TodoLive'
  BY <1>2, <1>4 DEF IInv, TodoLive, TypeOK
<1>5. CASE /\ Responds(c) /\ Settle(i, c)
           /\ UNCHANGED <<employerOf, strike, cooldown, unionVars>>
  <2>1. c.ballot.rev # c.rev
    BY <1>1, <1>3, <1>5 DEF Responds, GoodRow, GoodBallot, Live, Rows
  <2>2. ~ OpenBallot(c)
    BY <1>1, <2>1 DEF GoodRow, GoodBallot
  <2>3. Done /\ agreements' \in [Ids -> Agreements] /\ gap' \in [Locals -> Gaps]
    BY <1>1, <1>2, <1>3, <1>5, <2>1, <2>2, SettleStep DEF unionVars
  <2>4. TypeOK'
    BY <1>2, <1>5, <2>3 DEF IInv, TypeOK, unionVars
  <2> QED BY <1>4, <2>3, <2>4 DEF IInv
<1>6. CASE /\ Responds(c) /\ MayCounter(c, Responder(c))
           /\ camps' = [camps EXCEPT ![i] = Countered(c, Responder(c), c.terms, turn)]
           /\ UNCHANGED <<locVars, unionVars, agreements>>
  <2> DEFINE d == Countered(c, Responder(c), c.terms, turn)
  <2>1. Responder(c) \in {"union", "employer"} /\ c.terms \in Terms \cup {NoTerms}
    BY <1>1 DEF Responder, Rows
  <2>2. d \in Rows /\ GoodRow(d, agreements[i], turn, leader) /\ d.employer = c.employer
    BY <1>1, <1>6, <2>1, CounteredRow
  <2> HIDE DEF d
  <2>3. RowsGood' /\ OneDealPerPair' /\ camps' \in [Ids -> Rows]
    BY <1>2, <1>3, <1>6, <2>2, OneMoves DEF unionVars, d
  <2>4. Done
    BY <1>6, <2>3 DEF IInv, TypeOK
  <2>5. TypeOK'
    BY <1>2, <1>6, <2>3 DEF IInv, TypeOK, locVars, unionVars
  <2> QED BY <1>4, <2>4, <2>5 DEF IInv
<1>7. CASE Escalate(i) /\ UNCHANGED <<leader, organizer>>
  <2>1. /\ Done
        /\ strike' \in [Locals -> {Never} \cup Turns] /\ gap' \in [Locals -> Gaps]
        /\ fund' \in 0 .. MaxFund /\ lastCall' \in {Never} \cup Turns
    BY <1>2, <1>7, EscalateStep
  <2>2. UNCHANGED <<employerOf, cooldown, agreements>>
    BY <1>7 DEF Escalate
  <2>3. TypeOK'
    BY <1>2, <1>7, <2>1, <2>2 DEF IInv, TypeOK
  <2> QED BY <1>4, <2>1, <2>3 DEF IInv
<1>8. CASE UNCHANGED <<locVars, unionVars, camps, agreements>>
  <2>1. Done
    BY <1>2, <1>8 DEF IInv, TypeOK, RowsGood, OneDealPerPair, unionVars
  <2>2. TypeOK'
    BY <1>2, <1>8 DEF IInv, TypeOK, locVars, unionVars
  <2> QED BY <1>4, <2>1, <2>2 DEF IInv
<1> QED BY <1>5, <1>6, <1>7, <1>8 DEF AnswerOffer

LEMMA CloseTurnInv ==
    ASSUME IInv, CloseTurn PROVE IInv'
<1>1. /\ RowsGood' /\ OneDealPerPair'
  BY DEF CloseTurn, IInv, RowsGood, OneDealPerPair, GoodRow, GoodBallot
<1>2. fund' \in 0 .. MaxFund
  BY FundAssumption DEF CloseTurn, IInv, TypeOK
<1>3. TypeOK' /\ TodoLive'
  BY <1>2 DEF CloseTurn, IInv, TypeOK, TodoLive, locVars
<1> QED BY <1>1, <1>3 DEF IInv

-----------------------------------------------------------------------------
LEMMA NextIInv == IInv /\ [Next]_vars => IInv'
<1> SUFFICES ASSUME IInv, [Next]_vars PROVE IInv'
  OBVIOUS
<1>1. CASE UNCHANGED vars
  BY <1>1 DEF vars, locVars, unionVars, IInv, TypeOK, RowsGood, TodoLive, OneDealPerPair
<1>2. CASE Next
  BY <1>2, CallBargainingInv, AcceptOfferInv, CounterOfferInv, WithdrawInv, CallActionInv,
     CastBallotInv, PeopleInv, UpheavalInv, StrikesAndClocksInv, FundBanInv,
     OpenAutonomouslyInv, AnswerOfferInv, CloseTurnInv DEF Next
<1> QED BY <1>1, <1>2

LEMMA SpecIInv == Spec => []IInv
BY InitIInv, NextIInv, PTL DEF Spec

\* The state keeps its shape and the fund is never overdrawn, whatever bans and
\* strikes draw on it in one turn.
THEOREM TypeCorrect == Spec => []TypeOK
BY SpecIInv, PTL DEF IInv

\* An employer never has two campaigns running, two agreements in force, or a
\* campaign beside an agreement, however they open, settle and expire.
THEOREM OneDeal == Spec => []OneDealPerPair
BY SpecIInv, PTL DEF IInv

\* Members only ever vote on the employer's standing offer, in time.
THEOREM BallotsStand == Spec => []BallotOnStandingOffer
<1>1. IInv => BallotOnStandingOffer
  BY DEF IInv, RowsGood, GoodRow, GoodBallot, BallotOnStandingOffer
<1> QED BY <1>1, SpecIInv, PTL

\* A campaign is settled exactly when it has its agreement, on the standing
\* offer, and never over its members' heads.
THEOREM SettledFaithfully == Spec => []SettledAsAgreed
<1>1. IInv => SettledAsAgreed
  BY DEF IInv, RowsGood, GoodRow, Agreed, SettledAsAgreed
<1> QED BY <1>1, SpecIInv, PTL

\* No campaign is past its deadline or its lapse, whoever refuses to move.
THEOREM CampaignsInTime == Spec => []NoCampaignHangs
<1>1. IInv => NoCampaignHangs
  BY DEF IInv, RowsGood, GoodRow, OnTime, NoCampaignHangs
<1> QED BY <1>1, SpecIInv, PTL
-----------------------------------------------------------------------------
\* Locals and what campaigns remember of them

\* Whatever a campaign puts back is not above the real wage.
RecordsLow ==
    \A i \in Ids : \A l \in DOMAIN camps[i].records : camps[i].records[l] <= 0
\* A local that was merged away neither strikes nor expects anything.
GoneIsQuiet ==
    \A l \in Locals : employerOf[l] = Gone => gap[l] = Unknown /\ strike[l] = Never
\* What a strike forced up has worn off by the turn the local may strike again,
\* so that no campaign takes a forced expectation for the one it found.
WearsOff ==
    \A l \in Locals :
        gap[l] > 0 /\ strike[l] = Never => gap[l] <= TREND_STEP * (cooldown[l] - turn)
LocalsGood == RecordsLow /\ GoneIsQuiet /\ WearsOff /\ NoLocalLeftForced

\* The types these proofs need.
LEMMA LocalTypes ==
    ASSUME TypeOK
    PROVE  /\ turn \in Nat /\ DOMAIN gap = Locals
           /\ \A l \in Locals : /\ gap[l] \in Int /\ gap[l] <= FORCED_GAP
                                /\ strike[l] \in Int /\ cooldown[l] \in Int
           /\ \A i \in Ids : \A l \in DOMAIN camps[i].records :
                 l \in Locals /\ camps[i].records[l] \in Int
<1>1. /\ turn \in Nat /\ DOMAIN gap = Locals
      /\ \A l \in Locals : strike[l] \in Int /\ cooldown[l] \in Int
  BY PartiesAssumption, ClocksAssumption DEF TypeOK, Turns, Never
<1>2. \A g \in Gaps : g \in Int /\ g <= FORCED_GAP
  BY GapsAssumption DEF Gaps, Unknown
<1>3. ASSUME NEW i \in Ids, NEW l \in DOMAIN camps[i].records
      PROVE  l \in Locals /\ camps[i].records[l] \in Gaps
  BY DEF TypeOK, Rows
<1> QED BY <1>1, <1>2, <1>3 DEF TypeOK

\* A move that keeps every campaign running and its records as they are.
LEMMA RecordsKept ==
    ASSUME LocalsGood, UNCHANGED <<turn, locVars>>,
           \A j \in Ids :
              /\ \A l \in DOMAIN camps'[j].records :
                    /\ l \in DOMAIN camps[j].records
                    /\ camps'[j].records[l] = camps[j].records[l]
              /\ Live(camps[j]) => /\ Live(camps'[j])
                                   /\ DOMAIN camps[j].records \subseteq DOMAIN camps'[j].records
    PROVE  LocalsGood'
<1>1. RecordsLow' /\ GoneIsQuiet' /\ WearsOff'
  BY DEF LocalsGood, RecordsLow, GoneIsQuiet, WearsOff, locVars
<1>2. NoLocalLeftForced'
  BY DEF LocalsGood, NoLocalLeftForced, ForcedBy, locVars
<1> QED BY <1>1, <1>2 DEF LocalsGood

\* One row changes, and neither stops running nor forgets what it remembers.
LEMMA RowKept ==
    ASSUME TypeOK, LocalsGood, UNCHANGED <<turn, locVars>>, NEW i \in Ids, NEW d,
           camps' = [camps EXCEPT ![i] = d], d.records = camps[i].records,
           Live(camps[i]) => Live(d)
    PROVE  LocalsGood'
<1>1. camps'[i] = d /\ \A j \in Ids : j # i => camps'[j] = camps[j]
  BY DEF TypeOK
<1> QED BY <1>1, RecordsKept

\* A campaign that ends puts back what it forced up.  What stays above the real
\* wage was forced by another.
LEMMA EndingRestores ==
    ASSUME TypeOK, LocalsGood, UNCHANGED <<turn, employerOf, strike, cooldown>>,
           NEW i \in Ids, NEW c, NEW d,
           camps' = [camps EXCEPT ![i] = d], gap' = Restored(c, gap),
           c.records = camps[i].records, d.records = camps[i].records
    PROVE  LocalsGood'
<1>1. camps'[i] = d /\ \A j \in Ids : j # i => camps'[j] = camps[j]
  BY DEF TypeOK
<1>2. RecordsLow'
  BY <1>1 DEF LocalsGood, RecordsLow
<1>3. ASSUME NEW l \in Locals
      PROVE  /\ employerOf[l] = Gone => gap'[l] = gap[l]
             /\ gap'[l] > 0 => gap'[l] = gap[l] /\ l \notin DOMAIN camps[i].records
  <2>1. gap'[l] = IF l \in DOMAIN c.records /\ employerOf[l] # Gone
                  THEN c.records[l] ELSE gap[l]
    BY DEF Restored
  <2>2. l \in DOMAIN c.records => c.records[l] <= 0 /\ c.records[l] \in Int
    BY LocalTypes DEF LocalsGood, RecordsLow
  <2>3. employerOf[l] = Gone => gap[l] = Unknown
    BY DEF LocalsGood, GoneIsQuiet
  <2> QED BY <2>1, <2>2, <2>3 DEF Unknown
<1>4. GoneIsQuiet' /\ WearsOff'
  BY <1>3 DEF LocalsGood, GoneIsQuiet, WearsOff
<1>5. NoLocalLeftForced'
  <2> SUFFICES ASSUME NEW l \in Locals, gap'[l] > 0 PROVE ForcedBy(l)' # {}
    BY DEF NoLocalLeftForced
  <2>1. PICK j \in Ids : Live(camps[j]) /\ l \in DOMAIN camps[j].records
    BY <1>3 DEF LocalsGood, NoLocalLeftForced, ForcedBy
  <2>2. camps'[j] = camps[j]
    BY <1>1, <1>3, <2>1
  <2> QED BY <2>1, <2>2 DEF ForcedBy
<1> QED BY <1>2, <1>4, <1>5 DEF LocalsGood

\* A strike is only called where what the last one forced up has worn off.
LEMMA EscalateLocals ==
    ASSUME TypeOK, LocalsGood, NEW i \in Ids, Escalate(i), turn' = turn
    PROVE  LocalsGood'
<1> DEFINE c == camps[i]
           level == NextLevel[c.level]
           kept(new) == [l \in DOMAIN c.records \cup new |->
                           IF l \in DOMAIN c.records THEN c.records[l] ELSE gap[l]]
           Called(new) ==
               /\ strike' = [l \in Locals |-> IF l \in new THEN turn ELSE strike[l]]
               /\ gap' = [l \in Locals |-> IF l \in new THEN FORCED_GAP ELSE gap[l]]
               /\ camps' = [camps EXCEPT ![i] =
                     [c EXCEPT !.level = level, !.last = turn, !.records = kept(new)]]
<1>1. /\ c \in Rows /\ c.level # "industry_strike" /\ c.status = "dispute"
      /\ UNCHANGED <<employerOf, cooldown>>
  BY DEF Escalate, TypeOK
<1>2. level \in {"overtime_ban", "selective_strike", "industry_strike"}
  BY <1>1 DEF Rows, Levels, NextLevel
<1>3. \E dense \in SUBSET c.scope : \E new \in Targets(c, level, dense) : Called(new)
  BY DEF Escalate
<1>4. PICK dense \in SUBSET c.scope : \E new \in Targets(c, level, dense) : Called(new)
  BY <1>3
<1>5. PICK new \in Targets(c, level, dense) : Called(new)
  BY <1>4
<1>6. ASSUME NEW l \in new
      PROVE  /\ l \in Locals /\ employerOf[l] # Gone
             /\ strike[l] = Never /\ cooldown[l] <= turn
  BY <1>1, <1>2, <1>5 DEF Targets, Strikable, Rows
<1>7. ASSUME NEW l \in new PROVE gap[l] <= 0
  <2>1. cooldown[l] - turn <= 0 /\ gap[l] \in Int /\ cooldown[l] - turn \in Int
    BY <1>6, LocalTypes
  <2>2. TREND_STEP * (cooldown[l] - turn) <= 0
    <3>1. \A n \in Int : n <= 0 => TREND_STEP * n <= 0
      BY GapsAssumption
    <3> QED BY <2>1, <3>1
  <2>3. gap[l] > 0 => gap[l] <= TREND_STEP * (cooldown[l] - turn)
    BY <1>6 DEF LocalsGood, WearsOff
  <2>4. TREND_STEP * (cooldown[l] - turn) \in Int
    BY <2>1, GapsAssumption
  <2> QED BY <2>1, <2>2, <2>3, <2>4
<1>8. /\ camps'[i].records = kept(new) /\ Live(camps'[i])
      /\ \A j \in Ids : j # i => camps'[j] = camps[j]
  BY <1>1, <1>5 DEF TypeOK, Rows, Live
<1>9. RecordsLow'
  <2> SUFFICES ASSUME NEW j \in Ids, NEW l \in DOMAIN camps'[j].records
               PROVE  camps'[j].records[l] <= 0
    BY DEF RecordsLow
  <2>1. CASE j = i
    BY <1>7, <1>8, <2>1 DEF LocalsGood, RecordsLow
  <2>2. CASE j # i
    BY <1>8, <2>2 DEF LocalsGood, RecordsLow
  <2> QED BY <2>1, <2>2
<1>10. GoneIsQuiet'
  BY <1>1, <1>5, <1>6 DEF LocalsGood, GoneIsQuiet
<1>11. WearsOff'
  <2>1. turn # Never
    BY LocalTypes DEF Never
  <2> QED BY <1>1, <1>5, <2>1 DEF LocalsGood, WearsOff
<1>12. NoLocalLeftForced'
  <2> SUFFICES ASSUME NEW l \in Locals, gap'[l] > 0 PROVE ForcedBy(l)' # {}
    BY DEF NoLocalLeftForced
  <2>1. CASE l \in new
    BY <1>8, <2>1 DEF ForcedBy
  <2>2. CASE l \notin new
    <3>1. PICK j \in Ids : Live(camps[j]) /\ l \in DOMAIN camps[j].records
      BY <1>5, <2>2 DEF LocalsGood, NoLocalLeftForced, ForcedBy
    <3> QED BY <1>8, <3>1 DEF ForcedBy
  <2> QED BY <2>1, <2>2
<1> QED BY <1>9, <1>10, <1>11, <1>12 DEF LocalsGood

\* Sales, mergers and dissolutions: a local that is gone leaves nothing behind,
\* and one that takes over a strike takes the later cooldown.
LEMMA UpheavalLocals ==
    ASSUME TypeOK, LocalsGood, UNCHANGED <<turn, camps>>,
           NEW gone \in SUBSET Locals,
           \A l \in Locals :
              /\ employerOf'[l] = Gone => l \in gone \/ employerOf[l] = Gone
              /\ l \in gone => gap'[l] = Unknown /\ strike'[l] = Never
              /\ l \notin gone => /\ gap'[l] = gap[l] /\ cooldown'[l] >= cooldown[l]
                                  /\ strike'[l] = Never => strike[l] = Never
                                  /\ employerOf[l] = Gone => strike'[l] = Never,
           TypeOK'
    PROVE  LocalsGood'
<1>1. RecordsLow' /\ GoneIsQuiet'
  BY DEF LocalsGood, RecordsLow, GoneIsQuiet
<1>2. WearsOff'
  <2> SUFFICES ASSUME NEW l \in Locals, gap'[l] > 0, strike'[l] = Never
               PROVE  gap'[l] <= TREND_STEP * (cooldown'[l] - turn)
    BY DEF WearsOff
  <2>1. gap'[l] = gap[l] /\ strike[l] = Never /\ cooldown'[l] >= cooldown[l]
    BY DEF Unknown
  <2>2. gap[l] <= TREND_STEP * (cooldown[l] - turn)
    BY <2>1 DEF LocalsGood, WearsOff
  <2>3. /\ cooldown[l] \in Int /\ cooldown'[l] \in Int /\ turn \in Int /\ gap[l] \in Int
    <3>1. cooldown'[l] \in Int
      BY ClocksAssumption, PartiesAssumption DEF TypeOK, Never
    <3> QED BY <3>1, LocalTypes
  <2>4. TREND_STEP * (cooldown[l] - turn) <= TREND_STEP * (cooldown'[l] - turn)
    <3>1. \A m, n \in Int : m <= n => TREND_STEP * m <= TREND_STEP * n
      BY GapsAssumption
    <3> QED BY <2>1, <2>3, <3>1
  <2>5. /\ TREND_STEP * (cooldown[l] - turn) \in Int
        /\ TREND_STEP * (cooldown'[l] - turn) \in Int
    BY <2>3, GapsAssumption
  <2> QED BY <2>1, <2>2, <2>3, <2>4, <2>5
<1>3. NoLocalLeftForced'
  BY DEF LocalsGood, NoLocalLeftForced, ForcedBy, Unknown
<1> QED BY <1>1, <1>2, <1>3 DEF LocalsGood

\* The clocks leave a campaign's record alone.
LEMMA ClockedRecords ==
    ASSUME NEW c \in Rows, NEW now
    PROVE  Clocked(c, now).records = c.records
<1> DEFINE p == PastDeadline(c, now)
           q == DueBallot(p, now)
<1>2. DOMAIN p = DOMAIN c /\ p.records = c.records
  BY DEF PastDeadline, Rows
<1>3. DOMAIN q = DOMAIN c /\ q.records = p.records
  BY <1>2 DEF DueBallot, Settled, Closed, Rows
<1>4. Clocked(c, now) = Stale(q, now)
  BY DEF Clocked
<1> HIDE DEF p, q
<1>5. Stale(q, now).records = q.records
  BY <1>3 DEF Stale, Lapsed, Rows
<1> QED BY <1>2, <1>3, <1>4, <1>5

\* A turn on, a wage expectation is as far from its end as the turn before.
LEMMA OneTurnOn ==
    ASSUME NEW g \in Int, NEW c \in Int, NEW t \in Int, g <= TREND_STEP * (c - t)
    PROVE  g - TREND_STEP <= TREND_STEP * (c - (t + 1))
<1>1. \A n \in Int : TREND_STEP * (n - 1) = TREND_STEP * n - TREND_STEP
  BY GapsAssumption
<1>2. TREND_STEP * (c - (t + 1)) = TREND_STEP * (c - t) - TREND_STEP
  <2>1. (c - t) \in Int /\ c - (t + 1) = (c - t) - 1
    OBVIOUS
  <2> QED BY <1>1, <2>1
<1>3. TREND_STEP * (c - t) \in Int /\ TREND_STEP \in Int
  BY GapsAssumption
<1> QED BY <1>2, <1>3

\* The turn: expectations wear off, and a campaign that ends puts its own back.
LEMMA StrikesAndClocksLocals ==
    ASSUME IInv, LocalsGood, StrikesAndClocks
    PROVE  LocalsGood'
<1> DEFINE now == turn + 1
           holding(l) == {i \in Ending(now) : l \in DOMAIN camps[i].records}
           forced(l) == CHOOSE i \in holding(l) : TRUE
<1>0. TypeOK
  BY DEF IInv
<1>1. turn' = now /\ turn \in Nat /\ employerOf' = employerOf
  BY <1>0, LocalTypes DEF StrikesAndClocks
<1>2. ASSUME NEW i \in Ids
      PROVE  /\ camps'[i].records = camps[i].records
             /\ i \in Ending(now) <=> Live(camps[i]) /\ ~ Live(camps'[i])
  <2>1. camps'[i] = Clocked(camps[i], now)
    BY DEF StrikesAndClocks
  <2> QED BY <1>0, <2>1, ClockedRecords DEF TypeOK, Ending
<1>3. ASSUME NEW l \in Locals
      PROVE  gap'[l] = IF employerOf[l] # Gone /\ holding(l) # {}
                       THEN camps[forced(l)].records[l] ELSE Trended(l)
  BY DEF StrikesAndClocks
<1>4. PICK soft \in Softenings :
         /\ strike' = [l \in Locals |-> IF StrikeEnds(l, soft, now) THEN Never ELSE strike[l]]
         /\ cooldown' = [l \in Locals |-> IF StrikeEnds(l, soft, now)
                                          THEN now + STRIKE_COOLDOWN_TURNS ELSE cooldown[l]]
  BY DEF StrikesAndClocks
<1>5. ASSUME NEW l \in Locals, holding(l) # {} PROVE camps[forced(l)].records[l] <= 0
  <2>1. forced(l) \in Ids /\ l \in DOMAIN camps[forced(l)].records
    BY <1>5 DEF Ending
  <2> HIDE DEF forced, holding
  <2> QED BY <2>1 DEF LocalsGood, RecordsLow
<1>6. ASSUME NEW l \in Locals, gap'[l] > 0
      PROVE  /\ gap[l] > 0 /\ gap'[l] = gap[l] - TREND_STEP
             /\ employerOf[l] # Gone /\ holding(l) = {}
  <2>1. ~ (employerOf[l] # Gone /\ holding(l) # {})
    <3> HIDE DEF holding, forced, now
    <3> SUFFICES ASSUME employerOf[l] # Gone, holding(l) # {} PROVE FALSE
      OBVIOUS
    <3>1. gap'[l] = camps[forced(l)].records[l]
      BY <1>3
    <3>2. gap'[l] <= 0 /\ gap'[l] \in Int
      <4>1. forced(l) \in Ids /\ l \in DOMAIN camps[forced(l)].records
        BY DEF Ending, forced, holding
      <4> QED BY <1>0, <1>5, <3>1, <4>1, LocalTypes
    <3> QED BY <1>6, <3>2
  <2> HIDE DEF holding, forced, now
  <2>2. gap'[l] = Trended(l)
    BY <1>3, <2>1
  <2>3. gap[l] > 0 /\ gap'[l] = gap[l] - TREND_STEP
    BY <1>0, <1>6, <2>2, LocalTypes, GapsAssumption DEF Trended, Unknown
  <2>4. employerOf[l] # Gone
    BY <2>3 DEF LocalsGood, GoneIsQuiet, Unknown
  <2> QED BY <2>1, <2>3, <2>4
<1> HIDE DEF forced
<1>7. RecordsLow'
  BY <1>2 DEF LocalsGood, RecordsLow
<1>8. GoneIsQuiet'
  <2> SUFFICES ASSUME NEW l \in Locals, employerOf[l] = Gone
               PROVE  gap'[l] = Unknown /\ strike'[l] = Never
    BY <1>1 DEF GoneIsQuiet
  <2>1. gap[l] = Unknown /\ strike[l] = Never
    BY DEF LocalsGood, GoneIsQuiet
  <2>2. strike'[l] = Never
    BY <1>4, <2>1
  <2>3. gap'[l] = Trended(l)
    BY <1>3
  <2> QED BY <2>1, <2>2, <2>3 DEF Trended
<1>9. WearsOff'
  <2> SUFFICES ASSUME NEW l \in Locals, gap'[l] > 0, strike'[l] = Never
               PROVE  gap'[l] <= TREND_STEP * (cooldown'[l] - now)
    BY <1>1 DEF WearsOff
  <2> HIDE DEF holding
  <2>1. /\ gap[l] > 0 /\ gap'[l] = gap[l] - TREND_STEP
        /\ gap[l] \in Int /\ gap[l] <= FORCED_GAP /\ cooldown[l] \in Int
    BY <1>0, <1>6, LocalTypes
  <2>2. CASE StrikeEnds(l, soft, now)
    <3>1. cooldown'[l] = now + STRIKE_COOLDOWN_TURNS
      BY <1>4, <2>2
    <3>2. cooldown'[l] - now = STRIKE_COOLDOWN_TURNS
      BY <1>1, <3>1, ClocksAssumption
    <3> QED BY <2>1, <3>2, GapsAssumption, ClocksAssumption
  <2>3. CASE ~ StrikeEnds(l, soft, now)
    <3>1. strike[l] = Never /\ cooldown'[l] = cooldown[l]
      BY <1>4, <2>3
    <3>2. gap[l] <= TREND_STEP * (cooldown[l] - turn)
      BY <2>1, <3>1 DEF LocalsGood, WearsOff
    <3> QED BY <1>1, <2>1, <3>1, <3>2, OneTurnOn
  <2> QED BY <2>2, <2>3
<1>10. NoLocalLeftForced'
  <2> SUFFICES ASSUME NEW l \in Locals, gap'[l] > 0 PROVE ForcedBy(l)' # {}
    BY DEF NoLocalLeftForced
  <2>1. gap[l] > 0 /\ holding(l) = {}
    BY <1>6
  <2>2. PICK j \in Ids : Live(camps[j]) /\ l \in DOMAIN camps[j].records
    BY <2>1 DEF LocalsGood, NoLocalLeftForced, ForcedBy
  <2>3. Live(camps'[j]) /\ camps'[j].records = camps[j].records
    BY <1>2, <2>1, <2>2
  <2> QED BY <2>2, <2>3 DEF ForcedBy
<1> QED BY <1>7, <1>8, <1>9, <1>10 DEF LocalsGood

LEMMA NextLocals ==
    ASSUME IInv, IInv', LocalsGood, Next PROVE LocalsGood'
<1>0. TypeOK /\ TypeOK'
  BY DEF IInv
<1> DEFINE Still == UNCHANGED <<turn, locVars>>
<1>1. ASSUME NEW e \in Employers, NEW t \in Terms, Open(e, t), Still PROVE LocalsGood'
  <2>1. PICK i \in Ids : /\ camps[i].status = "none"
                         /\ camps' = [camps EXCEPT ![i] = Opened(e, t, turn)]
    BY <1>1 DEF Open
  <2>2. ~ Live(camps[i]) /\ camps'[i].records = [l \in {} |-> Unknown]
    BY <1>0, <2>1 DEF Live, Opened, NoRow, TypeOK
  <2>3. \A j \in Ids : j # i => camps'[j] = camps[j]
    BY <1>0, <2>1 DEF TypeOK
  <2> QED BY <1>1, <2>2, <2>3, RecordsKept
<1>2. ASSUME NEW i \in Ids, NEW c \in Rows, c.records = camps[i].records, Settle(i, c),
             UNCHANGED <<turn, employerOf, strike, cooldown>>
      PROVE  LocalsGood'
  <2>1. Settled(c, turn).records = c.records
    BY DEF Settled, Rows
  <2> QED BY <1>0, <1>2, <2>1, EndingRestores DEF Settle
<1>3. ASSUME NEW i \in Ids, NEW party, NEW t, NEW now,
             camps' = [camps EXCEPT ![i] = Countered(camps[i], party, t, now)], Still
      PROVE  LocalsGood'
  <2>1. /\ Countered(camps[i], party, t, now).records = camps[i].records
        /\ Live(camps[i]) => Live(Countered(camps[i], party, t, now))
    BY <1>0 DEF Countered, TypeOK, Rows, Live
  <2> QED BY <1>0, <1>3, <2>1, RowKept
<1>4. ASSUME NEW e \in Employers, NEW t \in Terms, CallBargaining(e, t) PROVE LocalsGood'
  BY <1>1, <1>4 DEF CallBargaining
<1>5. ASSUME NEW i \in Ids, AcceptOffer(i) PROVE LocalsGood'
  <2>1. CASE camps' = [camps EXCEPT ![i] = AskedOf(camps[i], turn)] /\ UNCHANGED gap
    <3>1. /\ AskedOf(camps[i], turn).records = camps[i].records
          /\ Live(camps[i]) => Live(AskedOf(camps[i], turn))
      BY <1>0 DEF AskedOf, TypeOK, Rows, Live
    <3> QED BY <1>0, <1>5, <2>1, <3>1, RowKept DEF AcceptOffer, locVars
  <2>2. CASE Settle(i, camps[i])
    BY <1>0, <1>2, <1>5, <2>2 DEF AcceptOffer, TypeOK
  <2> QED BY <1>5, <2>1, <2>2 DEF AcceptOffer, AskedOf
<1>6. ASSUME NEW i \in Ids, NEW t \in Terms, CounterOffer(i, t) PROVE LocalsGood'
  BY <1>3, <1>6 DEF CounterOffer
<1>7. ASSUME NEW i \in Ids, Withdraw(i) PROVE LocalsGood'
  <2>1. Withdrawn(camps[i], turn).records = camps[i].records
    BY <1>0 DEF Withdrawn, TypeOK, Rows
  <2> QED BY <1>0, <1>7, <2>1, EndingRestores DEF Withdraw
<1>8. ASSUME NEW i \in Ids, CallAction(i) PROVE LocalsGood'
  BY <1>0, <1>8, EscalateLocals DEF CallAction
<1>9. ASSUME NEW i \in Ids, NEW verdict \in {"ratified", "rejected"}, CastBallot(i, verdict)
      PROVE  LocalsGood'
  <2>1. CASE Settle(i, Closed(camps[i], "ratified"))
    <3> DEFINE c == Closed(camps[i], "ratified")
    <3>1. c \in Rows /\ c.records = camps[i].records
      <4>1. camps[i] \in Rows
        BY <1>0 DEF TypeOK
      <4> QED BY <4>1 DEF Closed, Rows
    <3>2. Settle(i, c) /\ UNCHANGED <<turn, employerOf, strike, cooldown>>
      BY <1>9, <2>1 DEF CastBallot
    <3> HIDE DEF c
    <3> QED BY <1>2, <3>1, <3>2
  <2>2. CASE camps' = [camps EXCEPT ![i] = RejectedOf(camps[i], turn)] /\ UNCHANGED gap
    <3>1. /\ RejectedOf(camps[i], turn).records = camps[i].records
          /\ Live(camps[i]) => Live(RejectedOf(camps[i], turn))
      BY <1>0 DEF RejectedOf, Closed, TypeOK, Rows, Live
    <3> QED BY <1>0, <1>9, <2>2, <3>1, RowKept DEF CastBallot, locVars
  <2> QED BY <1>9, <2>1, <2>2 DEF CastBallot, RejectedOf
<1>10. CASE Organize \/ TakeLead
  BY <1>10, RecordsKept DEF Organize, TakeLead
<1>11. ASSUME NEW l \in Locals, NEW e \in Employers, Sell(l, e) PROVE LocalsGood'
  <2>1. e # Gone
    BY <1>0, <1>11, PartiesAssumption DEF Sell, TypeOK
  <2>2. \A k \in Locals : /\ employerOf'[k] = Gone => employerOf[k] = Gone
                          /\ gap'[k] = gap[k] /\ cooldown'[k] >= cooldown[k]
                          /\ strike'[k] = strike[k]
    BY <1>0, <1>11, <2>1, LocalTypes DEF Sell, TypeOK
  <2>3. \A k \in Locals : employerOf[k] = Gone => strike[k] = Never
    BY DEF LocalsGood, GoneIsQuiet
  <2>4. UNCHANGED <<turn, camps>> /\ {} \in SUBSET Locals
    BY <1>11 DEF Sell
  <2> QED BY <1>0, <2>2, <2>3, <2>4, UpheavalLocals
<1>12. ASSUME NEW l \in Locals, NEW m \in Locals, Merge(l, m) PROVE LocalsGood'
  <2>1. l # m /\ employerOf[m] # Gone
    BY <1>0, <1>12, PartiesAssumption DEF Merge, TypeOK
  <2>2. /\ gap'[l] = Unknown /\ strike'[l] = Never
        /\ \A k \in Locals : k # l =>
              /\ employerOf'[k] = employerOf[k] /\ gap'[k] = gap[k]
              /\ cooldown'[k] >= cooldown[k]
              /\ strike'[k] = Never => strike[k] = Never
              /\ k # m => strike'[k] = strike[k]
    BY <1>0, <1>12, <2>1, LocalTypes DEF Merge, TypeOK
  <2>3. \A k \in Locals : employerOf[k] = Gone => strike[k] = Never
    BY DEF LocalsGood, GoneIsQuiet
  <2>4. UNCHANGED <<turn, camps>> /\ {l} \in SUBSET Locals
    BY <1>12 DEF Merge
  <2>5. \A k \in Locals :
           /\ employerOf'[k] = Gone => k \in {l} \/ employerOf[k] = Gone
           /\ k \in {l} => gap'[k] = Unknown /\ strike'[k] = Never
           /\ k \notin {l} => /\ gap'[k] = gap[k] /\ cooldown'[k] >= cooldown[k]
                              /\ strike'[k] = Never => strike[k] = Never
                              /\ employerOf[k] = Gone => strike'[k] = Never
    BY <2>1, <2>2, <2>3
  <2> QED BY <1>0, <2>4, <2>5, UpheavalLocals
<1>13. ASSUME NEW e \in Employers, Dissolve(e) PROVE LocalsGood'
  <2>1. PICK heir \in employers \cup {Gone}, lost \in SUBSET {l \in Locals : employerOf[l] = e} :
          LET held == {l \in Locals : employerOf[l] = e} \ lost IN
          /\ heir = Gone => held = {}
          /\ employerOf' = [l \in Locals |-> IF l \in held THEN heir
                                            ELSE IF l \in lost THEN Gone ELSE employerOf[l]]
          /\ strike' = [l \in Locals |-> IF l \in lost THEN Never ELSE strike[l]]
          /\ cooldown' = [l \in Locals |-> IF l \in lost THEN Never ELSE cooldown[l]]
          /\ gap' = [l \in Locals |-> IF l \in lost THEN Unknown ELSE gap[l]]
    BY <1>13 DEF Dissolve
  <2>2. \A l \in Locals :
           /\ employerOf'[l] = Gone => l \in lost \/ employerOf[l] = Gone
           /\ l \in lost => gap'[l] = Unknown /\ strike'[l] = Never
           /\ l \notin lost => /\ gap'[l] = gap[l] /\ cooldown'[l] >= cooldown[l]
                               /\ strike'[l] = strike[l]
    BY <1>0, <2>1, LocalTypes
  <2> QED BY <1>0, <1>13, <2>2, UpheavalLocals DEF Dissolve, LocalsGood, GoneIsQuiet
<1>14. CASE StrikesAndClocks
  BY <1>14, StrikesAndClocksLocals
<1>15. ASSUME NEW i \in Ids, FundBan(i) PROVE LocalsGood'
  <2> DEFINE d == [camps[i] EXCEPT !.level = "none"]
  <2>1. d.records = camps[i].records /\ (Live(camps[i]) => Live(d))
    BY <1>0 DEF TypeOK, Rows, Live
  <2>2. Still /\ (UNCHANGED camps \/ camps' = [camps EXCEPT ![i] = d])
    BY <1>15 DEF FundBan
  <2> HIDE DEF d
  <2> QED BY <1>0, <2>1, <2>2, RowKept, RecordsKept
<1>16. ASSUME NEW i \in Ids, AnswerOffer(i) PROVE LocalsGood'
  <2>1. CASE Settle(i, camps[i]) /\ UNCHANGED <<employerOf, strike, cooldown>>
    BY <1>0, <1>2, <1>16, <2>1 DEF AnswerOffer, TypeOK
  <2>2. CASE /\ camps' = [camps EXCEPT ![i] =
                   Countered(camps[i], Responder(camps[i]), camps[i].terms, turn)]
             /\ UNCHANGED locVars
    BY <1>3, <1>16, <2>2 DEF AnswerOffer
  <2>3. CASE Escalate(i)
    BY <1>0, <1>16, <2>3, EscalateLocals DEF AnswerOffer
  <2>4. CASE UNCHANGED <<locVars, camps>>
    BY <1>16, <2>4, RecordsKept DEF AnswerOffer
  <2> QED BY <1>16, <2>1, <2>2, <2>3, <2>4 DEF AnswerOffer
<1>17. CASE OpenAutonomously
  BY <1>1, <1>17, RecordsKept DEF OpenAutonomously
<1>18. CASE CloseTurn
  BY <1>18, RecordsKept DEF CloseTurn
<1> QED BY <1>4, <1>5, <1>6, <1>7, <1>8, <1>9, <1>10, <1>11, <1>12, <1>13, <1>14, <1>15,
           <1>16, <1>17, <1>18 DEF Next

LEMMA SpecLocals == Spec => []LocalsGood
<1>1. Init => LocalsGood
  <2> SUFFICES ASSUME Init PROVE LocalsGood
    OBVIOUS
  <2>1. RecordsLow
    BY DEF Init, RecordsLow, NoRow
  <2> QED BY <2>1 DEF Init, LocalsGood, GoneIsQuiet, WearsOff, NoLocalLeftForced, Unknown
<1>2. IInv /\ IInv' /\ LocalsGood /\ [Next]_vars => LocalsGood'
  BY NextLocals, RecordsKept DEF vars, locVars
<1> QED BY <1>1, <1>2, SpecIInv, PTL DEF Spec

\* A local is above the real wage only where a running campaign forced it up,
\* through any sales, mergers and dissolutions of the locals it remembers.
THEOREM NobodyLeftForced == Spec => []NoLocalLeftForced
BY SpecLocals, PTL DEF LocalsGood

\* A strike does not outlive the campaign that called it, or its turns.
THEOREM StrikesComeToAnEnd == Spec => StrikesEnd
<1> DEFINE Ends == turn' # turn => \A l \in Locals : strike[l] # Never =>
                      /\ ForcedBy(l) = {} => strike'[l] = Never
                      /\ turn' >= strike[l] + STRIKE_DURATION_TURNS => strike'[l] = Never
<1>1. ASSUME IInv, LocalsGood, [Next]_vars PROVE Ends
  <2> SUFFICES ASSUME turn' # turn, NEW l \in Locals, strike[l] # Never,
                      \/ ForcedBy(l) = {}
                      \/ turn' >= strike[l] + STRIKE_DURATION_TURNS
               PROVE  strike'[l] = Never
    OBVIOUS
  <2>1. StrikesAndClocks
    BY <1>1 DEF Next, vars, CallBargaining, AcceptOffer, Withdraw, CallAction, CounterOffer,
       CastBallot, Organize, TakeLead, Sell, Merge, Dissolve, FundBan, AnswerOffer,
       OpenAutonomously, CloseTurn
  <2>2. PICK soft \in Softenings :
           strike' = [k \in Locals |-> IF StrikeEnds(k, soft, turn + 1) THEN Never ELSE strike[k]]
    BY <2>1 DEF StrikesAndClocks
  <2>3. turn' = turn + 1
    BY <2>1 DEF StrikesAndClocks
  <2>4. CASE ForcedBy(l) = {}
    <3>1. gap[l] <= 0 /\ gap[l] \in Int
      BY <1>1, <2>4, LocalTypes DEF IInv, LocalsGood, NoLocalLeftForced
    <3>2. Trended(l) = 0
      BY <3>1, GapsAssumption DEF Trended
    <3>3. Trended(l) * (100 - soft) <= CONCESSION_GAP * 100
      BY <3>2, GapsAssumption
    <3> QED BY <2>2, <3>3 DEF StrikeEnds
  <2>5. CASE turn' >= strike[l] + STRIKE_DURATION_TURNS
    BY <2>2, <2>3, <2>5 DEF StrikeEnds
  <2> QED BY <2>4, <2>5
<1>2. Spec => [][Ends]_vars
  BY <1>1, SpecIInv, SpecLocals, PTL DEF Spec
<1> QED BY <1>2 DEF StrikesEnd
-----------------------------------------------------------------------------
\* Bargaining is nothing but dealings with employers, one at a time

\* Rows that are the same to the two parties: on the table may be another offer.
Same(c, d) ==
    /\ d.status = c.status /\ d.employer = c.employer
    /\ d.start = c.start /\ d.endedAt = c.endedAt
    /\ d.terms = c.terms \/ d.terms \in Terms

\* What a step is to the parties, when it is not a turn.
Calm == /\ UNCHANGED <<turn, agreements>>
        /\ \A i \in Ids : Same(camps[i], camps'[i])
Others(i) == \A j \in Ids : j # i => camps'[j] = camps[j] /\ agreements'[j] = agreements[j]
Opens(i, e) ==
    /\ MayOpen(e) /\ camps[i].status = "none" /\ Others(i)
    /\ \E t \in Terms : camps'[i] = Opened(e, t, turn)
    /\ UNCHANGED <<turn, agreements>>
Settles(i) ==
    /\ Live(camps[i]) /\ Others(i) /\ UNCHANGED turn
    /\ camps'[i].status = "settled" /\ camps'[i].employer = camps[i].employer
    /\ agreements'[i].status = "active" /\ agreements'[i].start = turn
    /\ agreements'[i].terms = camps[i].terms
Withdraws(i) ==
    /\ Live(camps[i]) /\ Others(i) /\ UNCHANGED <<turn, agreements>>
    /\ camps'[i] = Withdrawn(camps[i], turn)
Unturned ==
    \/ Calm
    \/ \E i \in Ids : Settles(i) \/ Withdraws(i) \/ \E e \in Employers : Opens(i, e)

\* One row moves, and stays the same to the parties.
LEMMA OneCalm ==
    ASSUME TypeOK, NEW i \in Ids, NEW d, camps' = [camps EXCEPT ![i] = d],
           Same(camps[i], d), UNCHANGED <<turn, agreements>>
    PROVE  Calm
<1>1. camps'[i] = d /\ \A j \in Ids : j # i => camps'[j] = camps[j]
  BY DEF TypeOK
<1> QED BY <1>1 DEF Calm, Same

LEMMA OpenOpens ==
    ASSUME TypeOK, NEW e \in Employers, NEW t \in Terms, MayOpen(e), Open(e, t),
           UNCHANGED <<turn, agreements>>
    PROVE  \E i \in Ids : Opens(i, e)
<1>1. PICK i \in Ids : /\ camps[i].status = "none"
                       /\ camps' = [camps EXCEPT ![i] = Opened(e, t, turn)]
  BY DEF Open
<1> HIDE DEF MayOpen
<1>2. Opens(i, e)
  BY <1>1 DEF TypeOK, Opens, Others
<1> QED BY <1>2

LEMMA SettleSettles ==
    ASSUME TypeOK, NEW i \in Ids, NEW c \in Rows, Live(camps[i]), Settle(i, c), UNCHANGED turn,
           c.employer = camps[i].employer, c.terms = camps[i].terms
    PROVE  Settles(i)
<1>1. Settled(c, turn).status = "settled" /\ Settled(c, turn).employer = c.employer
  BY DEF Settled, Rows
<1>2. /\ camps'[i] = Settled(c, turn) /\ agreements'[i] = AgreementOf(c, turn)
      /\ Others(i)
  BY DEF Settle, TypeOK, Others
<1> QED BY <1>1, <1>2 DEF Settles, AgreementOf

LEMMA EscalateIsCalm ==
    ASSUME TypeOK, NEW i \in Ids, Escalate(i), turn' = turn
    PROVE  Calm
<1>1. camps[i] \in Rows /\ UNCHANGED agreements
  BY DEF TypeOK, Escalate
<1>2. \E level, records : camps' = [camps EXCEPT ![i] =
         [camps[i] EXCEPT !.level = level, !.last = turn, !.records = records]]
  BY DEF Escalate
<1>3. PICK level, records : camps' = [camps EXCEPT ![i] =
         [camps[i] EXCEPT !.level = level, !.last = turn, !.records = records]]
  BY <1>2
<1> DEFINE d == [camps[i] EXCEPT !.level = level, !.last = turn, !.records = records]
<1>4. Same(camps[i], d)
  BY <1>1 DEF Same, Rows
<1> HIDE DEF d
<1> QED BY <1>1, <1>3, <1>4, OneCalm DEF d

\* Every step but the turn itself.
LEMMA StepKinds ==
    ASSUME IInv, Next, ~ StrikesAndClocks
    PROVE  Unturned
<1>0. TypeOK /\ \A i \in Ids : camps[i] \in Rows
  BY DEF IInv, TypeOK
<1>1. ASSUME UNCHANGED <<turn, agreements, camps>> PROVE Unturned
  BY <1>1 DEF Unturned, Calm, Same
<1>2. ASSUME NEW i \in Ids, NEW party, NEW t \in Terms \cup {camps[i].terms}, NEW at,
             camps' = [camps EXCEPT ![i] = Countered(camps[i], party, t, at)],
             UNCHANGED <<turn, agreements>>
      PROVE  Unturned
  <2> DEFINE d == Countered(camps[i], party, t, at)
  <2>1. Same(camps[i], d)
    BY <1>0 DEF Countered, Same, Rows
  <2> HIDE DEF d
  <2> QED BY <1>0, <1>2, <2>1, OneCalm DEF Unturned, d
<1>3. ASSUME NEW e \in Employers, NEW t \in Terms, CallBargaining(e, t) PROVE Unturned
  BY <1>0, <1>3, OpenOpens DEF CallBargaining, Unturned
<1>4. ASSUME NEW i \in Ids, AcceptOffer(i) PROVE Unturned
  <2>1. CASE camps' = [camps EXCEPT ![i] = AskedOf(camps[i], turn)] /\ UNCHANGED agreements
    <3>1. Same(camps[i], AskedOf(camps[i], turn))
      BY <1>0 DEF AskedOf, Same, Rows
    <3> QED BY <1>0, <1>4, <2>1, <3>1, OneCalm DEF AcceptOffer, Unturned
  <2>2. CASE Settle(i, camps[i])
    BY <1>0, <1>4, <2>2, SettleSettles DEF AcceptOffer, Unturned
  <2> QED BY <1>4, <2>1, <2>2 DEF AcceptOffer, AskedOf
<1>5. ASSUME NEW i \in Ids, NEW t \in Terms, CounterOffer(i, t) PROVE Unturned
  BY <1>2, <1>5 DEF CounterOffer
<1>6. ASSUME NEW i \in Ids, Withdraw(i) PROVE Unturned
  <2>1. Withdraws(i)
    BY <1>0, <1>6 DEF Withdraw, Withdraws, Others, TypeOK
  <2> QED BY <2>1 DEF Unturned
<1>7. ASSUME NEW i \in Ids, CallAction(i) PROVE Unturned
  BY <1>0, <1>7, EscalateIsCalm DEF CallAction, Unturned
<1>8. ASSUME NEW i \in Ids, NEW verdict \in {"ratified", "rejected"}, CastBallot(i, verdict)
      PROVE  Unturned
  <2> DEFINE c == Closed(camps[i], "ratified")
             d == RejectedOf(camps[i], turn)
  <2>0. Live(camps[i]) /\ UNCHANGED turn /\ camps[i] \in Rows
    BY <1>0, <1>8 DEF CastBallot
  <2>1. /\ c \in Rows /\ c.employer = camps[i].employer /\ c.terms = camps[i].terms
        /\ Same(camps[i], d)
    BY <2>0 DEF RejectedOf, Closed, Same, Rows
  <2> HIDE DEF c, d
  <2>2. CASE Settle(i, c)
    BY <1>0, <2>0, <2>1, <2>2, SettleSettles DEF Unturned
  <2>3. CASE camps' = [camps EXCEPT ![i] = d] /\ UNCHANGED agreements
    BY <1>0, <2>0, <2>1, <2>3, OneCalm DEF Unturned
  <2> QED BY <1>8, <2>2, <2>3 DEF CastBallot, RejectedOf, c, d
<1>9. CASE Organize \/ TakeLead
  BY <1>1, <1>9 DEF Organize, TakeLead
<1>10. CASE \/ \E l \in Locals, e \in Employers : Sell(l, e)
            \/ \E l, m \in Locals : Merge(l, m)
            \/ \E e \in Employers : Dissolve(e)
  BY <1>1, <1>10 DEF Sell, Merge, Dissolve
<1>11. ASSUME NEW i \in Ids, FundBan(i) PROVE Unturned
  <2> DEFINE d == [camps[i] EXCEPT !.level = "none"]
  <2>1. Same(camps[i], d)
    BY <1>0 DEF Same, Rows
  <2>2. UNCHANGED <<turn, agreements>> /\ (UNCHANGED camps \/ camps' = [camps EXCEPT ![i] = d])
    BY <1>11 DEF FundBan
  <2> HIDE DEF d
  <2> QED BY <1>0, <1>1, <2>1, <2>2, OneCalm DEF Unturned
<1>12. ASSUME NEW i \in Ids, AnswerOffer(i) PROVE Unturned
  <2>0. Live(camps[i]) /\ UNCHANGED turn
    BY <1>12 DEF IInv, TodoLive, AnswerOffer
  <2>1. CASE Settle(i, camps[i])
    BY <1>0, <2>0, <2>1, SettleSettles DEF Unturned
  <2>2. CASE /\ camps' = [camps EXCEPT ![i] =
                   Countered(camps[i], Responder(camps[i]), camps[i].terms, turn)]
             /\ UNCHANGED agreements
    BY <1>2, <2>0, <2>2
  <2>3. CASE Escalate(i)
    BY <1>0, <2>0, <2>3, EscalateIsCalm DEF Unturned
  <2>4. CASE UNCHANGED <<camps, agreements>>
    BY <1>1, <2>0, <2>4
  <2> QED BY <1>12, <2>1, <2>2, <2>3, <2>4 DEF AnswerOffer
<1>13. CASE OpenAutonomously
  BY <1>0, <1>1, <1>13, OpenOpens DEF OpenAutonomously, Unturned
<1>14. CASE CloseTurn
  BY <1>1, <1>14 DEF CloseTurn
<1> QED BY <1>3, <1>4, <1>5, <1>6, <1>7, <1>8, <1>9, <1>10, <1>11, <1>12, <1>13, <1>14 DEF Next

-----------------------------------------------------------------------------
\* What is on the table while a campaign runs is one of the packages, and a row
\* that was never opened names nobody.
OfferGood ==
    \A i \in Ids : /\ Live(camps[i]) => camps[i].terms \in Terms
                   /\ camps[i].status = "none" => camps[i].employer = Gone

\* What the clocks of a turn make of a running campaign, to its parties.
LEMMA ClockedDealing ==
    ASSUME NEW c \in Rows, NEW t \in Turns, Live(c), NEW d, d = Clocked(c, t)
    PROVE  /\ d.employer = c.employer /\ d.terms = c.terms
           /\ \/ Live(d) /\ d.start = c.start
              \/ d.status = "settled"
              \/ d.status = "lapsed" /\ d.endedAt = t
<1> DEFINE p == PastDeadline(c, t)
           q == DueBallot(p, t)
<1>1. p \in Rows /\ Live(p) /\ p.employer = c.employer /\ p.terms = c.terms /\ p.start = c.start
  <2>1. CASE p = c
    BY <2>1
  <2>2. CASE p = [c EXCEPT !.status = "dispute", !.disputeAt = t]
    BY <2>2 DEF Rows, Statuses, Live
  <2> QED BY <2>1, <2>2 DEF PastDeadline
<1>2. d = Stale(q, t)
  BY DEF Clocked
<1>3. CASE OpenBallot(p) /\ p.ballot.closes <= t
  <2> DEFINE r == Closed(p, "ratified")
  <2>1. q = Settled(r, t)
    BY <1>1, <1>3 DEF DueBallot
  <2> HIDE DEF p, q
  <2>2. r \in Rows /\ r.employer = p.employer /\ r.terms = p.terms
    BY <1>1 DEF Closed, Rows
  <2> HIDE DEF r
  <2>3. q.status = "settled" /\ q.employer = p.employer /\ q.terms = p.terms
    BY <2>1, <2>2 DEF Settled, Rows
  <2>4. d = q
    BY <1>2, <2>3 DEF Stale
  <2> QED BY <1>1, <2>3, <2>4
<1>4. CASE ~ (OpenBallot(p) /\ p.ballot.closes <= t)
  <2>1. q = p
    BY <1>4 DEF DueBallot
  <2> HIDE DEF p, q
  <2>2. d = p \/ d = Lapsed(p, t)
    BY <1>2, <2>1 DEF Stale
  <2>3. /\ Lapsed(p, t).employer = p.employer /\ Lapsed(p, t).terms = p.terms
        /\ Lapsed(p, t).status = "lapsed" /\ Lapsed(p, t).endedAt = t
    BY <1>1 DEF Lapsed, Rows
  <2> QED BY <1>1, <2>2, <2>3
<1> QED BY <1>3, <1>4

LEMMA NextOffers ==
    ASSUME IInv, OfferGood, [Next]_vars PROVE OfferGood'
<1>1. CASE UNCHANGED vars
  BY <1>1 DEF vars, OfferGood
<1>2. CASE StrikesAndClocks
  <2> SUFFICES ASSUME NEW i \in Ids
               PROVE  /\ Live(camps'[i]) => camps'[i].terms \in Terms
                      /\ camps'[i].status = "none" => camps'[i].employer = Gone
    BY DEF OfferGood
  <2>1. /\ camps'[i] = Clocked(camps[i], turn + 1) /\ turn + 1 \in Turns
        /\ camps[i] \in Rows /\ GoodRow(camps[i], agreements[i], turn, leader)
        /\ turn \in Turns /\ leader \in Leaders
    BY <1>2, PartiesAssumption DEF StrikesAndClocks, IInv, TypeOK, RowsGood, Turns, Leaders
  <2>2. CASE Live(camps[i])
    BY <2>1, <2>2, ClockedDealing DEF OfferGood, Live
  <2>3. CASE ~ Live(camps[i])
    <3>1. camps'[i] = camps[i]
      BY <2>1, <2>3, ClockedRow
    <3> QED BY <2>3, <3>1 DEF OfferGood
  <2> QED BY <2>2, <2>3
<1>3. CASE Next /\ ~ StrikesAndClocks
  <2>1. Unturned
    BY <1>3, StepKinds
  <2>2. CASE Calm
    BY <2>2 DEF Calm, Same, OfferGood, Live
  <2>3. ASSUME NEW i \in Ids, Settles(i) PROVE OfferGood'
    <3>1. ~ Live(camps'[i]) /\ camps'[i].status # "none"
      BY <2>3 DEF Settles, Live
    <3> QED BY <2>3, <3>1 DEF Settles, Others, OfferGood
  <2>4. ASSUME NEW i \in Ids, Withdraws(i) PROVE OfferGood'
    <3>1. ~ Live(camps'[i]) /\ camps'[i].status # "none"
      <4>1. camps[i] \in Rows /\ camps'[i] = Withdrawn(camps[i], turn)
        BY <2>4 DEF Withdraws, IInv, TypeOK
      <4> QED BY <4>1 DEF Withdrawn, Rows, Live
    <3> QED BY <2>4, <3>1 DEF Withdraws, Others, OfferGood
  <2>5. ASSUME NEW i \in Ids, NEW e \in Employers, Opens(i, e) PROVE OfferGood'
    <3>1. camps'[i].terms \in Terms /\ camps'[i].status # "none"
      BY <2>5 DEF Opens, Opened, NoRow
    <3> QED BY <2>5, <3>1 DEF Opens, Others, OfferGood
  <2> QED BY <2>1, <2>2, <2>3, <2>4, <2>5 DEF Unturned
<1> QED BY <1>1, <1>2, <1>3

LEMMA SpecOffers == Spec => []OfferGood
<1>1. Init => OfferGood
  BY DEF Init, OfferGood, NoRow, Live
<1>2. IInv /\ OfferGood /\ [Next]_vars => OfferGood'
  BY NextOffers
<1> QED BY <1>1, <1>2, SpecIInv, PTL DEF Spec

-----------------------------------------------------------------------------
\* The mapping, row by row

Book == [i \in Ids |-> Dealing(i)]

\* Deadlines are in the future while talks go on.
LEMMA DealingCases ==
    ASSUME IInv, NEW i \in Ids
    PROVE  LET c == camps[i] a == agreements[i] IN
           /\ Dealing(i).with = c.employer
           /\ Dealing(i).kind = "new" <=> c.status = "none"
           /\ Dealing(i).kind = "talks" <=> Live(c)
           /\ Dealing(i).kind = "pact" <=> c.status = "settled" /\ Active(a, turn)
           /\ Dealing(i).kind = "cooling" <=>
                 /\ c.status \in {"withdrawn", "lapsed"}
                 /\ turn < c.endedAt + REOPEN_COOLDOWN_TURNS
           /\ Live(c) =>
                 /\ Dealing(i).until = c.start + DEADLINE_TURNS + DISPUTE_MAX_TURNS
                 /\ turn < c.start + DEADLINE_TURNS + DISPUTE_MAX_TURNS
<1> DEFINE c == camps[i]
           a == agreements[i]
<1>1. /\ c \in Rows /\ a \in Agreements /\ GoodRow(c, a, turn, leader)
  BY DEF IInv, TypeOK, RowsGood
<1>2. Active(a, turn) => c.status = "settled"
  BY <1>1 DEF GoodRow, Agreed, Active
<1>3. /\ turn \in Int /\ c.start \in Int /\ c.disputeAt \in Int
      /\ DEADLINE_TURNS \in Nat /\ DISPUTE_MAX_TURNS \in Nat \ {0}
  BY <1>1, PartiesAssumption, ClocksAssumption DEF IInv, TypeOK, Rows, Turns, Never
<1>4. Live(c) => turn < c.start + DEADLINE_TURNS + DISPUTE_MAX_TURNS
  BY <1>1, <1>3 DEF GoodRow, OnTime, Live
<1>5. c.status \in {"none", "negotiating", "dispute", "settled", "withdrawn", "lapsed"}
  BY <1>1 DEF Rows, Statuses
<1> HIDE DEF c, a
<1> QED BY <1>2, <1>4, <1>5 DEF Dealing, Live, c, a

\* A row that is the same to the parties is the same dealing.
LEMMA SameDealing ==
    ASSUME NEW i \in Ids, Same(camps[i], camps'[i]), agreements'[i] = agreements[i],
           turn' = turn
    PROVE  Dealing(i)' = Dealing(i)
BY DEF Same, Dealing, Live

LEMMA OtherDealings ==
    ASSUME NEW i \in Ids, Others(i), turn' = turn
    PROVE  \A j \in Ids : j # i => Dealing(j)' = Dealing(j)
<1> SUFFICES ASSUME NEW j \in Ids, j # i PROVE Dealing(j)' = Dealing(j)
  OBVIOUS
<1>1. Same(camps[j], camps'[j]) /\ agreements'[j] = agreements[j]
  BY DEF Others, Same
<1> QED BY <1>1, SameDealing

\* What becomes of an entry has the same employer.
LEMMA BecomesOf ==
    ASSUME NEW i \in Ids
    PROVE  \A k, u : Deals!Becomes(Dealing(i), k, u)
                      = [with |-> camps[i].employer, kind |-> k, until |-> u]
<1>1. Dealing(i).with = camps[i].employer
  BY DEF Dealing
<1> QED BY <1>1 DEF Deals!Becomes

LEMMA BookMoves ==
    ASSUME NEW i \in Ids, \A j \in Ids : j # i => Dealing(j)' = Dealing(j)
    PROVE  Book' = [Book EXCEPT ![i] = Dealing(i)']
BY DEF Book

\* An opening is a matter taken up with an employer that all is over with.
LEMMA OpensTakesUp ==
    ASSUME IInv, OfferGood, NEW i \in Ids, NEW e \in Employers, Opens(i, e)
    PROVE  Deals!TakeUp(i, e)
<1>1. PICK t \in Terms : camps'[i] = Opened(e, t, turn)
  BY DEF Opens
<1>2. /\ camps'[i].status = "negotiating" /\ camps'[i].start = turn
      /\ camps'[i].employer = e
  BY <1>1 DEF Opened, NoRow
<1>3. Dealing(i)' = [with |-> e, kind |-> "talks",
                     until |-> turn + (DEADLINE_TURNS + DISPUTE_MAX_TURNS)]
  <2>1. turn \in Int /\ DEADLINE_TURNS \in Int /\ DISPUTE_MAX_TURNS \in Int
    BY PartiesAssumption, ClocksAssumption DEF IInv, TypeOK, Turns
  <2>2. turn + DEADLINE_TURNS + DISPUTE_MAX_TURNS = turn + (DEADLINE_TURNS + DISPUTE_MAX_TURNS)
    BY <2>1
  <2> QED BY <1>2, <2>2 DEF Dealing, Live
<1>4. Book[i].kind = "new"
  BY DealingCases DEF Opens, Book
<1>5. ASSUME NEW k \in Ids, Book[k].with = e PROVE Book[k].kind = "over"
  <2>1. /\ camps[k].employer = e /\ camps[k] \in Rows
        /\ GoodRow(camps[k], agreements[k], turn, leader)
    BY <1>5, DealingCases DEF Book, IInv, TypeOK, RowsGood
  <2>2. /\ ~ Live(camps[k])
        /\ ~ (agreements[k].employer = e /\ Active(agreements[k], turn))
        /\ ~ (camps[k].status \in {"withdrawn", "lapsed"}
              /\ turn < camps[k].endedAt + REOPEN_COOLDOWN_TURNS)
    BY <2>1 DEF Opens, MayOpen, Blocked, CoolingOff
  <2>3. camps[k].status = "settled" => agreements[k].employer = e
    BY <2>1 DEF GoodRow, Agreed
  <2>4. camps[k].status # "none"
    BY <2>1, PartiesAssumption DEF OfferGood
  <2> QED BY <2>2, <2>3, <2>4, DealingCases DEF Dealing, Book
<1>6. Book' = [Book EXCEPT ![i] = Dealing(i)']
  BY OtherDealings, BookMoves DEF Opens
<1> QED BY <1>3, <1>4, <1>5, <1>6 DEF Deals!TakeUp, Deals!Talks, Book, Opens

\* A settlement is a pact for exactly the turns that were agreed on.
LEMMA SettlesConcludes ==
    ASSUME IInv, OfferGood, NEW i \in Ids, Settles(i)
    PROVE  Deals!Conclude(i)
<1>1. /\ Dealing(i).kind = "talks" /\ camps[i].terms \in Terms /\ turn \in Nat
      /\ Dealing(i).with = camps[i].employer
  BY DealingCases, PartiesAssumption DEF Settles, OfferGood, IInv, TypeOK, Turns
<1>2. Expires(agreements[i])' = turn + camps[i].terms.duration
  BY DEF Settles, Expires
<1>3. Active(agreements'[i], turn')
  <2>1. camps[i].terms.duration \in Nat \ {0}
    BY <1>1, ClocksAssumption
  <2> QED BY <1>1, <1>2, <2>1 DEF Settles, Active
<1>4. Dealing(i)' = [with |-> camps[i].employer, kind |-> "pact",
                     until |-> turn + camps[i].terms.duration]
  BY <1>2, <1>3 DEF Settles, Dealing, Live
<1>5. Dealing(i)' = Deals!Becomes(Dealing(i), "pact", turn + camps[i].terms.duration)
  BY <1>4, BecomesOf
<1>6. Book' = [Book EXCEPT ![i] = Dealing(i)'] /\ Book[i] = Dealing(i)
  BY OtherDealings, BookMoves DEF Settles, Book
<1>7. Dealing(i)' \in Deals!Ends(Dealing(i), turn)
  BY <1>1, <1>5 DEF Deals!Ends
<1> QED BY <1>1, <1>6, <1>7 DEF Deals!Conclude, Settles, Book

\* A withdrawal leaves the employer its turns of rest.
LEMMA WithdrawsConcludes ==
    ASSUME IInv, NEW i \in Ids, Withdraws(i)
    PROVE  Deals!Conclude(i)
<1>1. /\ Dealing(i).kind = "talks" /\ turn \in Nat
      /\ Dealing(i).with = camps[i].employer /\ camps[i] \in Rows
      /\ agreements[i].status = "none" /\ turn' = turn
  BY DealingCases, PartiesAssumption
     DEF Withdraws, IInv, TypeOK, Turns, RowsGood, GoodRow, Agreed, Live
<1>2. /\ camps'[i].status = "withdrawn" /\ camps'[i].endedAt = turn
      /\ camps'[i].employer = camps[i].employer
  BY <1>1 DEF Withdraws, Withdrawn, Rows
<1>3. turn < turn + REOPEN_COOLDOWN_TURNS
  BY <1>1, ClocksAssumption
<1>4. Dealing(i)' = [with |-> camps[i].employer, kind |-> "cooling",
                     until |-> turn + REOPEN_COOLDOWN_TURNS]
  BY <1>1, <1>2, <1>3 DEF Withdraws, Dealing, Live, Active
<1>5. Dealing(i)' = Deals!Becomes(Dealing(i), "cooling", turn + REOPEN_COOLDOWN_TURNS)
  BY <1>4, BecomesOf
<1>6. Book' = [Book EXCEPT ![i] = Dealing(i)'] /\ Book[i] = Dealing(i)
  BY OtherDealings, BookMoves DEF Withdraws, Book
<1>7. Dealing(i)' \in Deals!Ends(Dealing(i), turn)
  BY <1>5 DEF Deals!Ends
<1> QED BY <1>1, <1>6, <1>7 DEF Deals!Conclude, Book

\* An entry has the type of the book.
LEMMA DealingType ==
    ASSUME IInv, NEW i \in Ids
    PROVE  Dealing(i) \in Deals!Entry
<1> DEFINE c == camps[i]
           a == agreements[i]
<1>1. /\ c \in Rows /\ a \in Agreements /\ turn \in Nat
  BY PartiesAssumption DEF IInv, TypeOK, Turns
<1>2. c.employer \in Employers \cup {Gone}
  BY <1>1 DEF Rows
<1>3. Live(c) => c.start + DEADLINE_TURNS + DISPUTE_MAX_TURNS \in Nat
  <2>1. c.start \in Int
    BY <1>1, PartiesAssumption DEF Rows, Turns, Never
  <2> QED BY <1>1, <2>1, DealingCases, ClocksAssumption
<1>4. Active(a, turn) => Expires(a) \in Nat
  <2>1. Expires(a) \in Int
    BY <1>1, ClocksAssumption, PartiesAssumption DEF Expires, Agreements, Turns, Never, NoTerms
  <2> QED BY <1>1, <2>1 DEF Active
<1>5. turn < c.endedAt + REOPEN_COOLDOWN_TURNS => c.endedAt + REOPEN_COOLDOWN_TURNS \in Nat
  <2>1. c.endedAt \in Int
    BY <1>1, PartiesAssumption DEF Rows, Turns, Never
  <2> QED BY <1>1, <2>1, ClocksAssumption
<1> HIDE DEF c, a
<1> QED BY <1>2, <1>3, <1>4, <1>5 DEF Dealing, Deals!Entry, Deals!Kinds, c, a

BookGood == Book \in [Ids -> Deals!Entry]
LEMMA SpecBook == Spec => []BookGood
<1>1. IInv => BookGood
  BY DealingType DEF BookGood, Book
<1> QED BY <1>1, SpecIInv, PTL

\* A turn: what was talked about may be settled or given up, what has run out
\* is over, and everything else stays.
LEMMA TurnTurns ==
    ASSUME IInv, IInv', OfferGood, BookGood', StrikesAndClocks
    PROVE  Deals!Turn
<1>1. turn' = turn + 1 /\ turn' \in Turns /\ turn \in Nat
  BY PartiesAssumption DEF StrikesAndClocks, IInv, TypeOK, Turns
<1>2. Book' \in [Ids -> Deals!Entry]
  BY DEF BookGood
<1>3. ASSUME NEW i \in Ids PROVE Dealing(i)' \in Deals!After(Dealing(i), turn')
  <2> DEFINE c == camps[i]
             d == camps'[i]
             a == agreements[i]
             b == agreements'[i]
  <2>1. /\ c \in Rows /\ a \in Agreements /\ GoodRow(c, a, turn, leader) /\ leader \in Leaders
        /\ d \in Rows /\ b \in Agreements /\ GoodRow(d, b, turn', leader)
        /\ d = Clocked(c, turn')
    BY <1>1, ClockedRows DEF IInv, TypeOK, RowsGood, Leaders, StrikesAndClocks
  <2>2. CASE Live(c)
    <3>1. /\ d.employer = c.employer /\ d.terms = c.terms /\ c.terms \in Terms
          /\ \/ Live(d) /\ d.start = c.start
             \/ d.status = "settled"
             \/ d.status = "lapsed" /\ d.endedAt = turn'
      BY <1>1, <2>1, <2>2, ClockedDealing DEF OfferGood
    <3>2. Dealing(i).kind = "talks" /\ Dealing(i).with = c.employer
      BY <2>2, DealingCases
    <3>3. CASE Live(d)
      <4>1. Dealing(i)' = Dealing(i) /\ turn' < Dealing(i).until
        <5>1. d.start = c.start
          BY <3>1, <3>3 DEF Live
        <5>2. turn' < c.start + DEADLINE_TURNS + DISPUTE_MAX_TURNS
          <6>1. c.start \in Int /\ d.disputeAt \in Int
            BY <2>1, PartiesAssumption DEF Rows, Turns, Never
          <6> QED BY <1>1, <2>1, <3>3, <5>1, <6>1, ClocksAssumption DEF GoodRow, OnTime, Live
        <5> QED BY <2>2, <3>1, <3>3, <5>1, <5>2 DEF Dealing, Live
      <4> QED BY <3>2, <4>1 DEF Deals!After
    <3>4. CASE d.status = "settled"
      <4>1. b.status = "active" /\ b.start = turn' /\ b.terms = c.terms
        <5>1. ~ Live(d) /\ i \in Ending(turn + 1) /\ a.status = "none"
          BY <1>1, <2>1, <2>2, <3>4 DEF Ending, Live, GoodRow, Agreed
        <5>2. b = AgreementOf(c, turn + 1)
          BY <3>4, <5>1 DEF StrikesAndClocks
        <5> QED BY <1>1, <5>2 DEF AgreementOf
      <4>2. c.terms.duration \in Nat \ {0}
        BY <3>1, ClocksAssumption
      <4>3. Active(b, turn') /\ Expires(b) = turn' + c.terms.duration
        BY <1>1, <4>1, <4>2 DEF Active, Expires
      <4>4. Dealing(i)' = Deals!Becomes(Dealing(i), "pact", turn' + c.terms.duration)
        <5>1. Dealing(i)' = [with |-> c.employer, kind |-> "pact",
                             until |-> turn' + c.terms.duration]
          BY <3>1, <3>4, <4>3 DEF Dealing, Live
        <5> QED BY <5>1, BecomesOf
      <4> QED BY <3>1, <3>2, <4>4 DEF Deals!After, Deals!Ends
    <3>5. CASE d.status = "lapsed"
      <4>1. b.status = "none" /\ d.endedAt = turn'
        BY <2>1, <3>1, <3>5 DEF GoodRow, Agreed, Live
      <4>2. turn' < turn' + REOPEN_COOLDOWN_TURNS
        BY <1>1, ClocksAssumption
      <4>3. Dealing(i)' = Deals!Becomes(Dealing(i), "cooling", turn' + REOPEN_COOLDOWN_TURNS)
        <5>1. Dealing(i)' = [with |-> c.employer, kind |-> "cooling",
                             until |-> turn' + REOPEN_COOLDOWN_TURNS]
          BY <3>1, <3>5, <4>1, <4>2 DEF Dealing, Live, Active
        <5> QED BY <5>1, BecomesOf
      <4> QED BY <3>2, <4>3 DEF Deals!After, Deals!Ends
    <3> QED BY <3>1, <3>3, <3>4, <3>5
  <2>3. CASE ~ Live(c)
    <3>1. d = c
      <4>1. turn \in Turns /\ turn + 1 \in Turns /\ d = Clocked(c, turn + 1)
        BY <1>1, <2>1 DEF IInv, TypeOK
      <4> QED BY <2>1, <2>3, <4>1, ClockedRow
    <3>2. b = IF a.status = "active" /\ Expires(a) <= turn'
              THEN [a EXCEPT !.status = "expired"] ELSE a
      <4>1. i \notin Ending(turn + 1)
        BY <2>3 DEF Ending
      <4> QED BY <1>1, <4>1 DEF StrikesAndClocks
    <3>3. \/ b.start = a.start /\ b.terms = a.terms /\ a.start <= turn
          \/ a.status = "none"
      BY <2>1, <3>2 DEF Agreements, GoodRow, Agreed
    <3>4. a.start \in Int /\ Expires(a) \in Int
      BY <2>1, ClocksAssumption, PartiesAssumption
         DEF Expires, Agreements, Turns, Never, NoTerms
    <3>5. Active(b, turn') <=> Active(a, turn) /\ turn' < Expires(a)
      BY <1>1, <2>1, <3>2, <3>3, <3>4 DEF Active, Agreements, Expires
    <3>6. Active(b, turn') => Expires(b) = Expires(a)
      BY <3>2, <3>3 DEF Expires, Active
    <3>7. c.endedAt + REOPEN_COOLDOWN_TURNS \in Int
      BY <2>1, PartiesAssumption, ClocksAssumption DEF Rows, Turns, Never
    <3>8. CASE c.status = "none"
      BY <3>1, <3>8 DEF Dealing, Deals!After
    <3>9. CASE Active(a, turn)
      <4>1. /\ Dealing(i) = [with |-> c.employer, kind |-> "pact", until |-> Expires(a)]
            /\ c.status = "settled"
        BY <2>1, <2>3, <3>9 DEF Dealing, Active, GoodRow, Agreed
      <4>2. CASE turn' < Expires(a)
        <5>1. Dealing(i)' = Dealing(i)
          BY <2>3, <3>1, <3>5, <3>6, <3>9, <4>1, <4>2 DEF Dealing, Live
        <5> QED BY <1>1, <3>4, <4>1, <4>2, <5>1 DEF Deals!After
      <4>3. CASE ~ (turn' < Expires(a))
        <5>1. Dealing(i)' = [with |-> c.employer, kind |-> "over", until |-> 0]
          BY <2>3, <3>1, <3>5, <4>1, <4>3 DEF Dealing, Live
        <5>2. Dealing(i)' = Deals!Becomes(Dealing(i), "over", 0)
          BY <5>1, BecomesOf
        <5>3. /\ Dealing(i).kind \in {"pact", "cooling"} /\ Dealing(i).kind # "talks"
              /\ Dealing(i).until <= turn'
          BY <1>1, <3>4, <4>1, <4>3
        <5> QED BY <5>2, <5>3 DEF Deals!After
      <4> QED BY <4>2, <4>3
    <3>10. CASE ~ Active(a, turn) /\ c.status # "none"
      <4>1. ~ Active(b, turn')
        BY <3>5, <3>10
      <4>2. CASE c.status # "settled" /\ turn < c.endedAt + REOPEN_COOLDOWN_TURNS
        <5>1. Dealing(i) = [with |-> c.employer, kind |-> "cooling",
                            until |-> c.endedAt + REOPEN_COOLDOWN_TURNS]
          BY <2>3, <3>10, <4>2 DEF Dealing
        <5>2. CASE turn' < c.endedAt + REOPEN_COOLDOWN_TURNS
          <6>1. Dealing(i)' = Dealing(i)
            BY <2>3, <3>1, <3>10, <4>1, <4>2, <5>1, <5>2 DEF Dealing, Live
          <6> QED BY <1>1, <3>7, <5>1, <5>2, <6>1 DEF Deals!After
        <5>3. CASE ~ (turn' < c.endedAt + REOPEN_COOLDOWN_TURNS)
          <6>1. Dealing(i)' = [with |-> c.employer, kind |-> "over", until |-> 0]
            BY <2>3, <3>1, <3>10, <4>1, <5>3 DEF Dealing, Live
          <6>2. Dealing(i)' = Deals!Becomes(Dealing(i), "over", 0)
            BY <6>1, BecomesOf
          <6>3. /\ Dealing(i).kind \in {"pact", "cooling"} /\ Dealing(i).kind # "talks"
                /\ Dealing(i).until <= turn'
            BY <1>1, <3>7, <5>1, <5>3
          <6> QED BY <6>2, <6>3 DEF Deals!After
        <5> QED BY <5>2, <5>3
      <4>3. CASE ~ (c.status # "settled" /\ turn < c.endedAt + REOPEN_COOLDOWN_TURNS)
        <5>1. Dealing(i) = [with |-> c.employer, kind |-> "over", until |-> 0]
          BY <2>3, <3>10, <4>3 DEF Dealing
        <5>2. Dealing(i)' = Dealing(i)
          BY <1>1, <2>3, <3>1, <3>7, <3>10, <4>1, <4>3, <5>1 DEF Dealing, Live
        <5> QED BY <5>1, <5>2 DEF Deals!After
      <4> QED BY <4>2, <4>3
    <3> QED BY <3>8, <3>9, <3>10
  <2> QED BY <2>2, <2>3
<1> QED BY <1>1, <1>2, <1>3 DEF Deals!Turn, Book

-----------------------------------------------------------------------------
LEMMA DealsInit == Init => Deals!Init
BY DEF Init, Deals!Init, Deals!New, Dealing, NoRow

LEMMA DealsNext ==
    IInv /\ IInv' /\ BookGood' /\ OfferGood /\ [Next]_vars => [Deals!Next]_(Deals!vars)
<1> SUFFICES ASSUME IInv, IInv', BookGood', OfferGood, [Next]_vars
             PROVE  Deals!Next \/ UNCHANGED <<turn, Book>>
  BY DEF Deals!vars, Book
<1>1. CASE UNCHANGED vars
  BY <1>1 DEF vars, Book, Dealing
<1>2. CASE StrikesAndClocks
  BY <1>2, TurnTurns DEF Deals!Next
<1>3. CASE Next /\ ~ StrikesAndClocks
  <2>1. CASE Calm
    <3>1. \A i \in Ids : Dealing(i)' = Dealing(i)
      BY <2>1, SameDealing DEF Calm
    <3> QED BY <2>1, <3>1 DEF Calm, Book
  <2>2. CASE \E i \in Ids : Settles(i) \/ Withdraws(i)
    BY <2>2, SettlesConcludes, WithdrawsConcludes DEF Deals!Next
  <2>3. CASE \E i \in Ids, e \in Employers : Opens(i, e)
    BY <2>3, OpensTakesUp DEF Deals!Next
  <2> QED BY <1>3, <2>1, <2>2, <2>3, StepKinds DEF Unturned
<1> QED BY <1>1, <1>2, <1>3

\* Bargaining keeps its dealings: an employer has one matter open at a time, a
\* pact binds for exactly its term, talks end in time, and talks that failed
\* give the employer its turns of rest, whatever happens to locals and employers.
THEOREM BargainingDeals == Spec => DealingsKept
BY DealsInit, DealsNext, SpecIInv, SpecBook, SpecOffers, PTL DEF Spec, DealingsKept, Deals!Spec
=============================================================================
