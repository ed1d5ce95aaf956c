----------------------------- MODULE Bargaining -----------------------------
(***************************************************************************)
(* One union's bargaining with the employers of its industry: campaigns,   *)
(* member ballots, agreements, overtime bans and strikes                   *)
(* (packages/engine/src/unions/{bargaining,actions,labourRelationsTurn}.ts *)
(* and corporation/corporationLabour.ts), with what happens to locals when *)
(* they are sold or merged and to employers when they are dissolved.       *)
(*                                                                         *)
(* phase is "play" while the player acts.  A turn is StrikesAndClocks      *)
(* (corporationTurn, then clocks, ballots and lapses), FundBan for every   *)
(* running overtime ban, OpenAutonomously, AnswerOffer for every open      *)
(* campaign and CloseTurn.  The code walks campaigns in id order; here any *)
(* order is allowed, which only decides who gets the last of the fund.     *)
(*                                                                         *)
(* Abstracted: member support, density and margins, which only refuse a    *)
(* move (a move that is not refused is taken or not); wages, which do not  *)
(* change, so a local's expectation is its gap to the real wage; dues, less *)
(* services, contributions and organizing drives, as a nondeterministic    *)
(* income.  The player is the only organizer there is, and no union is     *)
(* suspended (nothing in the source suspends one).                         *)
(***************************************************************************)
EXTENDS Integers, FiniteSets

CONSTANTS
    Employers,         \* corporations that may have locals of the industry
    Locals,            \* corporate-sector assets of the union's industry
    Gone,              \* the employer of a local that was merged away
    FirstEmployer,     \* [Locals -> Employers] at the start
    Terms,             \* packages on offer: [duration, noStrike]
    MaxCampaigns,      \* bound: campaigns ever opened
    MaxTurn,           \* bound: turns played
    MaxUpheavals,      \* bound: sales, mergers and dissolutions
    MaxFund,           \* bound: the strike fund is cut here
    StartFund,         \* the fund at the start
    Dues,              \* what a turn may bring in, or cost
    Softenings,        \* percentages by which services soften a gap
    \* The source's values, in the order declared there (bargaining.ts:52-116):
    DEADLINE_TURNS, MAX_OFFERS, DISPUTE_MAX_TURNS, REOPEN_COOLDOWN_TURNS,
    BAN_UPKEEP, STRIKE_CALL_COST, STRIKE_CALL_COOLDOWN_TURNS,
    CONCESSION_GAP, FORCED_GAP, TREND_STEP,
    STRIKE_DURATION_TURNS, STRIKE_COOLDOWN_TURNS, RATIFICATION_TURNS

Ids == 1 .. MaxCampaigns
Never == -1                            \* an absent turn number
Unknown == -1                          \* an absent workerExpectationIndex
Gaps == {Unknown} \cup 0 .. FORCED_GAP
Turns == 0 .. MaxTurn
Statuses == {"none", "negotiating", "dispute", "settled", "withdrawn", "lapsed"}
Levels == {"none", "overtime_ban", "selective_strike", "industry_strike"}

ASSUME PartiesAssumption ==
    /\ Gone \notin Employers
    /\ FirstEmployer \in [Locals -> Employers]
    /\ IsFiniteSet(Locals)
    /\ MaxCampaigns \in Nat /\ MaxTurn \in Nat /\ MaxUpheavals \in Nat

\* What the source's figures have in common with any that are put here: an
\* agreement and a cooling-off last at least a turn, a ballot too.
ASSUME ClocksAssumption ==
    /\ \A t \in Terms : /\ t.duration \in Nat \ {0}
                        /\ t.noStrike \in 0 .. t.duration
    /\ DEADLINE_TURNS \in Nat \ {0} /\ DISPUTE_MAX_TURNS \in Nat \ {0}
    /\ REOPEN_COOLDOWN_TURNS \in Nat \ {0} /\ RATIFICATION_TURNS \in Nat \ {0}
    /\ STRIKE_DURATION_TURNS \in Nat \ {0} /\ STRIKE_COOLDOWN_TURNS \in Nat \ {0}
    /\ STRIKE_CALL_COOLDOWN_TURNS \in Nat /\ MAX_OFFERS \in Nat \ {0}

\* A forced expectation has worn off before the local can be struck again
\* (0.17 at 0.02 a turn against a cooldown of 12 turns).
ASSUME GapsAssumption ==
    /\ CONCESSION_GAP \in 0 .. FORCED_GAP - 1
    /\ FORCED_GAP \in Nat /\ TREND_STEP \in Nat \ {0}
    /\ FORCED_GAP <= TREND_STEP * STRIKE_COOLDOWN_TURNS
    /\ Softenings \subseteq 0 .. 100

ASSUME FundAssumption ==
    /\ BAN_UPKEEP \in Nat /\ STRIKE_CALL_COST \in Nat
    /\ MaxFund \in Nat /\ StartFund \in 0 .. MaxFund /\ Dues \subseteq Int

VARIABLES
    turn,       \* meta.turn
    phase,      \* "play", "ban" or "answer"
    upheavals,  \* sales, mergers and dissolutions so far
    todo,       \* campaigns the running phase has still to visit
    employers,  \* world.corporations
    employerOf, \* asset.corporationId
    strike,     \* asset.strikeStartedAtTurn
    cooldown,   \* asset.strikeCooldownUntilTurn
    gap,        \* asset.workerExpectationIndex, over the real wage
    leader,     \* union.ownerType: "none", "npp" or "player"
    organizer,  \* the player has organizing strength
    fund,       \* union.treasury
    lastCall,   \* union.lastCalledStrikeTurn
    camps,      \* world.bargainingCampaigns
    agreements  \* world.collectiveAgreements, by campaign

locVars == <<employerOf, strike, cooldown, gap>>
unionVars == <<leader, organizer, fund, lastCall>>
vars == <<turn, phase, upheavals, todo, employers, locVars, unionVars, camps, agreements>>

-----------------------------------------------------------------------------
\* Rows

NoTerms == [duration |-> 0, noStrike |-> 0]
NoBallot == [rev |-> 0, status |-> "none", closes |-> Never]
NoRow == [employer |-> Gone, scope |-> {}, status |-> "none", level |-> "none",
          by |-> "union", terms |-> NoTerms, rev |-> 0, start |-> Never,
          disputeAt |-> Never, records |-> [l \in {} |-> Unknown],
          ballot |-> NoBallot, endedAt |-> Never, last |-> Never]
NoAgreement == [status |-> "none", employer |-> Gone, scope |-> {},
                terms |-> NoTerms, start |-> Never]

Live(c) == c.status \in {"negotiating", "dispute"}
Expires(a) == a.start + a.terms.duration
Active(a, now) == a.status = "active" /\ a.start <= now /\ now < Expires(a)
Protected(l, now) == \E i \in Ids : /\ Active(agreements[i], now)
                                    /\ l \in agreements[i].scope
                                    /\ now < agreements[i].start + agreements[i].terms.noStrike

Existing == {l \in Locals : employerOf[l] # Gone}
\* Every access to the rows validates all of them first: one campaign whose
\* employer is gone makes each of them throw, and nothing is written.
RowsResolve == \A i \in Ids : camps[i].status # "none" => camps[i].employer \in employers

OpenBallot(c) == c.ballot.status = "open"
VoidBallot(c) == IF OpenBallot(c) THEN [c.ballot EXCEPT !.status = "void"] ELSE c.ballot

-----------------------------------------------------------------------------
\* Campaign moves: what becomes of one row

Opened(e, t, now) ==
    [NoRow EXCEPT !.employer = e, !.scope = {l \in Existing : employerOf[l] = e},
                  !.status = "negotiating", !.by = "union", !.terms = t, !.rev = 1,
                  !.start = now, !.last = now]

\* Mutant: the members go on voting on the offer that was replaced.
CounteredUnderVote(c, party, t, now) ==
    [c EXCEPT !.by = party, !.terms = t, !.rev = c.rev + 1, !.last = now]
\* A new revision voids the ballot on the one it replaces.
Countered(c, party, t, now) ==
    [c EXCEPT !.by = party, !.terms = t, !.rev = c.rev + 1,
              !.ballot = VoidBallot(c), !.last = now]
MayCounter(c, party) == Live(c) /\ c.by # party /\ c.rev < MAX_OFFERS

Settled(c, now) == [c EXCEPT !.status = "settled", !.endedAt = now, !.last = now]
AgreementOf(c, now) == [status |-> "active", employer |-> c.employer, scope |-> c.scope,
                        terms |-> c.terms, start |-> now]

Withdrawn(c, now) ==
    [c EXCEPT !.status = "withdrawn", !.level = "none", !.endedAt = now,
              !.last = now, !.ballot = VoidBallot(c)]

Lapsed(c, now) ==
    [c EXCEPT !.status = "lapsed", !.level = "none", !.endedAt = now,
              !.last = now, !.ballot = VoidBallot(c)]

Closed(c, verdict) == [c EXCEPT !.ballot.status = verdict]

\* Mutant: what the strikes forced up stays up.
RestoredNever(c, g) == g
\* Expectations go back to what they were before the campaign forced them up;
\* a local that no longer exists is passed over.
Restored(c, g) == [l \in Locals |-> IF l \in DOMAIN c.records /\ employerOf[l] # Gone
                                    THEN c.records[l] ELSE g[l]]

-----------------------------------------------------------------------------
\* Opening and settling

\* Mutant: only a campaign still running stands in the way.
BlockedByCampaign(e, now) == \E i \in Ids : camps[i].employer = e /\ Live(camps[i])
Blocked(e, now) ==
    \/ \E i \in Ids : camps[i].employer = e /\ Live(camps[i])
    \/ \E i \in Ids : agreements[i].employer = e /\ Active(agreements[i], now)
CoolingOff(e, now) ==
    \E i \in Ids : /\ camps[i].employer = e /\ camps[i].status \in {"withdrawn", "lapsed"}
                   /\ now < camps[i].endedAt + REOPEN_COOLDOWN_TURNS
MayOpen(e) == /\ e \in employers
              /\ \E l \in Locals : employerOf[l] = e
              /\ ~ Blocked(e, turn) /\ ~ CoolingOff(e, turn)

\* MaxCampaigns bounds this.
Open(e, t) ==
    \E i \in Ids : /\ camps[i].status = "none"
                   /\ \A k \in 1 .. i - 1 : camps[k].status # "none"
                   /\ camps' = [camps EXCEPT ![i] = Opened(e, t, turn)]

\* persistSettlement: the row, the agreement and the expectations together.
Settle(i, c) ==
    /\ agreements[i] = NoAgreement
    /\ camps' = [camps EXCEPT ![i] = Settled(c, turn)]
    /\ agreements' = [agreements EXCEPT ![i] = AgreementOf(c, turn)]
    /\ gap' = Restored(c, gap)

-----------------------------------------------------------------------------
\* Escalation

NextLevel == [none |-> "overtime_ban", overtime_ban |-> "selective_strike",
              selective_strike |-> "industry_strike"]
Half(n) == (n + 1) \div 2

\* buildBargainingEscalationPlan over the locals that still resolve: dense is
\* the set of those whose density reaches the floor.
Strikable(c, dense) ==
    {l \in c.scope \cap dense : /\ employerOf[l] # Gone /\ strike[l] = Never
                                /\ cooldown[l] <= turn}
Targets(c, level, dense) ==
    CASE level = "overtime_ban"     -> {{}}
      [] level = "selective_strike" -> {S \in SUBSET Strikable(c, dense) :
                                          Cardinality(S) = Half(Cardinality(Strikable(c, dense)))}
      [] level = "industry_strike"  -> {Strikable(c, dense)}
Striking(c) == {l \in c.scope : employerOf[l] # Gone /\ strike[l] # Never}

Escalate(i) ==
    LET c == camps[i] level == NextLevel[c.level] IN
    /\ c.status = "dispute" /\ c.level # "industry_strike" /\ c.last < turn
    /\ \E l \in c.scope : employerOf[l] # Gone
    /\ \E dense \in SUBSET c.scope : \E new \in Targets(c, level, dense) :
          LET cost == STRIKE_CALL_COST * Cardinality(new) IN
          /\ level # "overtime_ban" => new \cup Striking(c) # {}
          /\ new # {} /\ lastCall # Never => turn >= lastCall + STRIKE_CALL_COOLDOWN_TURNS
          /\ cost <= fund
          /\ fund' = fund - cost
          /\ lastCall' = IF cost > 0 THEN turn ELSE lastCall
          /\ strike' = [l \in Locals |-> IF l \in new THEN turn ELSE strike[l]]
          /\ gap' = [l \in Locals |-> IF l \in new THEN FORCED_GAP ELSE gap[l]]
          /\ camps' = [camps EXCEPT ![i] =
                [c EXCEPT !.level = level, !.last = turn,
                          !.records = [l \in DOMAIN c.records \cup new |->
                             IF l \in DOMAIN c.records THEN c.records[l] ELSE gap[l]]]]
    /\ UNCHANGED <<employerOf, cooldown, agreements>>

-----------------------------------------------------------------------------
\* The player, between turns

Playing == phase = "play" /\ RowsResolve
Led == Playing /\ leader = "player"

CallBargaining(e, t) ==
    /\ Led /\ MayOpen(e)
    /\ Open(e, t)
    /\ UNCHANGED <<turn, phase, upheavals, todo, employers, locVars, unionVars, agreements>>

\* Mutant: an offer the members turned down may be accepted again.
AskedOpen(c) == c.ballot.rev = c.rev /\ OpenBallot(c) /\ turn < c.ballot.closes
\* ratificationBlockReason
Asked(c) == /\ c.ballot.rev = c.rev
            /\ \/ OpenBallot(c) /\ turn < c.ballot.closes
               \/ c.ballot.status = "rejected"

\* With organizers the offer goes to the members, without it is settled.
AcceptOffer(i) ==
    LET c == camps[i] IN
    /\ Led /\ Live(c) /\ c.last < turn /\ c.by = "employer" /\ ~ Asked(c)
    /\ \/ /\ organizer
          /\ camps' = [camps EXCEPT ![i] =
                [c EXCEPT !.ballot = [rev |-> c.rev, status |-> "open",
                                      closes |-> turn + RATIFICATION_TURNS],
                          !.last = turn]]
          /\ UNCHANGED <<gap, agreements>>
       \/ ~ organizer /\ Settle(i, c)
    /\ UNCHANGED <<turn, phase, upheavals, todo, employers, employerOf, strike, cooldown, unionVars>>

CounterOffer(i, t) ==
    LET c == camps[i] IN
    /\ Led /\ MayCounter(c, "union") /\ c.last < turn
    /\ camps' = [camps EXCEPT ![i] = Countered(c, "union", t, turn)]
    /\ UNCHANGED <<turn, phase, upheavals, todo, employers, locVars, unionVars, agreements>>

Withdraw(i) ==
    LET c == camps[i] IN
    /\ Led /\ Live(c)
    /\ camps' = [camps EXCEPT ![i] = Withdrawn(c, turn)]
    /\ gap' = Restored(c, gap)
    /\ UNCHANGED <<turn, phase, upheavals, todo, employers, employerOf, strike, cooldown,
                   unionVars, agreements>>

CallAction(i) ==
    /\ Led /\ Escalate(i)
    /\ UNCHANGED <<turn, phase, upheavals, todo, employers, leader, organizer>>

\* The player's is the only ballot, so its vote is a majority at once.
CastBallot(i, verdict) ==
    LET c == camps[i] IN
    /\ Led /\ organizer
    /\ OpenBallot(c) /\ Live(c) /\ turn < c.ballot.closes
    /\ IF verdict = "ratified"
       THEN Settle(i, Closed(c, verdict))
       ELSE /\ camps' = [camps EXCEPT ![i] = [Closed(c, verdict) EXCEPT !.last = turn]]
            /\ UNCHANGED <<gap, agreements>>
    /\ UNCHANGED <<turn, phase, upheavals, todo, employers, employerOf, strike, cooldown, unionVars>>

\* An organizing drive, and the presidency the player is then elected to.
Organize ==
    /\ phase = "play" /\ ~ organizer /\ organizer' = TRUE
    /\ UNCHANGED <<turn, phase, upheavals, todo, employers, locVars, leader, fund, lastCall,
                   camps, agreements>>
TakeLead ==
    /\ phase = "play" /\ organizer /\ leader # "player" /\ leader' = "player"
    /\ UNCHANGED <<turn, phase, upheavals, todo, employers, locVars, organizer, fund, lastCall,
                   camps, agreements>>

Upheaval == upheavals < MaxUpheavals /\ upheavals' = upheavals + 1

\* A local is sold.  Where the buyer has one of its own it takes over the
\* sold one's strike and the later of the two cooldowns.
Sell(l, e) ==
    /\ phase = "play" /\ Upheaval /\ e \in employers /\ employerOf[l] \notin {e, Gone}
    /\ employerOf' = [employerOf EXCEPT ![l] = e]
    /\ UNCHANGED <<turn, phase, todo, employers, strike, cooldown, gap, unionVars,
                   camps, agreements>>
Merge(l, m) ==
    /\ phase = "play" /\ Upheaval /\ employerOf[m] \in employers
    /\ employerOf[l] \notin {employerOf[m], Gone}
    /\ employerOf' = [employerOf EXCEPT ![l] = Gone]
    /\ strike' = [strike EXCEPT ![l] = Never,
                                ![m] = IF @ # Never THEN @ ELSE strike[l]]
    /\ cooldown' = [cooldown EXCEPT ![l] = Never,
                                    ![m] = IF @ > cooldown[l] THEN @ ELSE cooldown[l]]
    /\ gap' = [gap EXCEPT ![l] = Unknown]
    /\ UNCHANGED <<turn, phase, todo, employers, unionVars, camps, agreements>>

\* Nationalization, or the settlement of a defaulted bond, deletes a
\* corporation; its locals pass to another, those apart that are absorbed by
\* a local of the heir, or are deleted too.
Dissolve(e) ==
    /\ phase = "play" /\ Upheaval /\ e \in employers
    /\ \E heir \in employers \cup {Gone} : \E lost \in SUBSET {l \in Locals : employerOf[l] = e} :
          LET held == {l \in Locals : employerOf[l] = e} \ lost IN
          /\ heir # e /\ (heir = Gone => held = {})
          /\ lost # {} /\ heir # Gone => \E l \in Locals : employerOf[l] = heir
          /\ employerOf' = [l \in Locals |-> IF l \in held THEN heir
                                            ELSE IF l \in lost THEN Gone ELSE employerOf[l]]
          /\ strike' = [l \in Locals |-> IF l \in lost THEN Never ELSE strike[l]]
          /\ cooldown' = [l \in Locals |-> IF l \in lost THEN Never ELSE cooldown[l]]
          /\ gap' = [l \in Locals |-> IF l \in lost THEN Unknown ELSE gap[l]]
    /\ employers' = employers \ {e}
    /\ UNCHANGED <<turn, phase, todo, unionVars, camps, agreements>>

-----------------------------------------------------------------------------
\* The turn

\* stepCorporateSectorStrikes: a local with neither a strike nor an expectation
\* is left alone, any other's expectation moves towards the real wage.
\* Mutant: the trend does not stop at the real wage.
TrendedPastWage(l) == IF strike[l] = Never /\ gap[l] = Unknown THEN Unknown
                      ELSE gap[l] - TREND_STEP
Trended(l) == IF strike[l] = Never /\ gap[l] = Unknown THEN Unknown
              ELSE IF gap[l] <= TREND_STEP THEN 0 ELSE gap[l] - TREND_STEP
\* Mutant: a turn too late.
StrikeEndsLate(l, soft, now) ==
    /\ strike[l] # Never
    /\ \/ Protected(l, now)
       \/ Trended(l) * (100 - soft) <= CONCESSION_GAP * 100
       \/ now > strike[l] + STRIKE_DURATION_TURNS
StrikeEnds(l, soft, now) ==
    /\ strike[l] # Never
    /\ \/ Protected(l, now)
       \/ Trended(l) * (100 - soft) <= CONCESSION_GAP * 100
       \/ now >= strike[l] + STRIKE_DURATION_TURNS

\* One campaign through the clocks of processLabourRelationsTurn.
PastDeadline(c, now) ==
    IF c.status = "negotiating" /\ c.start + DEADLINE_TURNS <= now
    THEN [c EXCEPT !.status = "dispute", !.disputeAt = now] ELSE c
\* Silence leaves the president's acceptance standing.
DueBallot(c, now) ==
    IF OpenBallot(c) /\ c.ballot.closes <= now
    THEN IF Live(c) THEN Settled(Closed(c, "ratified"), now) ELSE Closed(c, "void")
    ELSE c
\* Mutant: every move puts the lapse off.
StaleSinceMove(c, now) ==
    IF c.status = "dispute" /\ now >= c.last + DISPUTE_MAX_TURNS THEN Lapsed(c, now) ELSE c
Stale(c, now) ==
    IF c.status = "dispute" /\ now >= c.disputeAt + DISPUTE_MAX_TURNS
    THEN Lapsed(c, now) ELSE c
Clocked(c, now) == Stale(DueBallot(PastDeadline(c, now), now), now)

Ending(now) == {i \in Ids : Live(camps[i]) /\ ~ Live(Clocked(camps[i], now))}

StrikesAndClocks ==
    LET now == turn + 1
        stepped == [l \in Locals |-> Trended(l)]
        holding(l) == {i \in Ending(now) : l \in DOMAIN camps[i].records}
    IN
    /\ phase = "play" /\ RowsResolve /\ turn < MaxTurn
    /\ turn' = now
    /\ \E soft \in Softenings :
          /\ strike' = [l \in Locals |-> IF StrikeEnds(l, soft, now) THEN Never ELSE strike[l]]
          /\ cooldown' = [l \in Locals |-> IF StrikeEnds(l, soft, now)
                                           THEN now + STRIKE_COOLDOWN_TURNS ELSE cooldown[l]]
    /\ camps' = [i \in Ids |-> Clocked(camps[i], now)]
    /\ agreements' = [i \in Ids |->
          CASE i \in Ending(now) /\ camps'[i].status = "settled" -> AgreementOf(camps[i], now)
            [] agreements[i].status = "active" /\ Expires(agreements[i]) <= now ->
                  [agreements[i] EXCEPT !.status = "expired"]
            [] OTHER -> agreements[i]]
    /\ gap' = [l \in Locals |->
          IF employerOf[l] # Gone /\ holding(l) # {}
          THEN camps[CHOOSE i \in holding(l) : TRUE].records[l] ELSE stepped[l]]
    /\ phase' = "ban"
    /\ todo' = {i \in Ids : camps'[i].status = "dispute" /\ camps'[i].level = "overtime_ban"}
    /\ UNCHANGED <<upheavals, employers, employerOf, unionVars>>

\* refreshOpenCampaigns: a ban is paid for, or ends when the fund is dry.
FundBan(i) ==
    LET scoped == camps[i].scope \cap Existing
        upkeep == BAN_UPKEEP * Cardinality(scoped)
    IN
    /\ phase = "ban" /\ i \in todo
    /\ \/ scoped = {} /\ UNCHANGED <<fund, camps>>
       \/ scoped # {} /\ upkeep <= fund /\ fund' = fund - upkeep /\ UNCHANGED camps
       \/ scoped # {} /\ upkeep > fund /\ UNCHANGED fund
          /\ camps' = [camps EXCEPT ![i].level = "none"]
    /\ todo' = todo \ {i}
    /\ UNCHANGED <<turn, phase, upheavals, employers, locVars, leader, organizer, lastCall, agreements>>

\* An NPP president may call one employer; then the answers are due of every
\* campaign that has not acted this turn, if any union of the world is led by
\* an NPP (runNppBargainingAutoplay returns at once otherwise).
OpenAutonomously ==
    /\ phase = "ban" /\ todo = {}
    /\ \/ UNCHANGED camps
       \/ leader = "npp" /\ \E e \in Employers, t \in Terms : MayOpen(e) /\ Open(e, t)
    /\ phase' = "answer"
    /\ \/ todo' = {i \in Ids : Live(camps[i]) /\ camps[i].last < turn
                              /\ camps[i].scope \cap Existing # {}}
       \/ leader # "npp" /\ todo' = {}
    /\ UNCHANGED <<turn, upheavals, employers, locVars, unionVars, agreements>>

Responder(c) == IF c.by = "union" THEN "employer" ELSE "union"
Responds(c) == c.by = "union" \/ leader = "npp"

\* decideNppBargainingAction: accept, counter, or nothing; after nothing an
\* NPP union may escalate.  An NPP's counteroffer moves the wage alone.
AnswerOffer(i) ==
    LET c == camps[i] IN
    /\ phase = "answer" /\ i \in todo
    /\ \/ /\ Responds(c) /\ Settle(i, c)
          /\ UNCHANGED <<employerOf, strike, cooldown, unionVars>>
       \/ /\ Responds(c) /\ MayCounter(c, Responder(c))
          /\ camps' = [camps EXCEPT ![i] = Countered(c, Responder(c), c.terms, turn)]
          /\ UNCHANGED <<locVars, unionVars, agreements>>
       \/ leader = "npp" /\ Escalate(i) /\ UNCHANGED <<leader, organizer>>
       \/ UNCHANGED <<locVars, unionVars, camps, agreements>>
    /\ todo' = todo \ {i}
    /\ UNCHANGED <<turn, phase, upheavals, employers>>

\* The rest of unionsTurn: organizing strength decays, dues move, a vacant
\* presidency is filled and one whose politician has gone is vacated.
CloseTurn ==
    /\ phase = "answer" /\ todo = {}
    /\ phase' = "play"
    /\ \E income \in Dues : fund' = CASE fund + income > MaxFund -> MaxFund
                                       [] fund + income < 0       -> 0
                                       [] OTHER                   -> fund + income
    /\ organizer' \in {organizer, FALSE}
    /\ leader' \in IF leader = "player" THEN {"player"} ELSE {"none", "npp"}
    /\ UNCHANGED <<turn, upheavals, todo, employers, locVars, lastCall, camps, agreements>>

-----------------------------------------------------------------------------
Init ==
    /\ turn = 0 /\ phase = "play" /\ upheavals = 0 /\ todo = {}
    /\ employers = Employers /\ employerOf = FirstEmployer
    /\ strike = [l \in Locals |-> Never] /\ cooldown = [l \in Locals |-> Never]
    /\ gap = [l \in Locals |-> Unknown]
    /\ leader = "none" /\ organizer = FALSE /\ fund = StartFund /\ lastCall = Never
    /\ camps = [i \in Ids |-> NoRow] /\ agreements = [i \in Ids |-> NoAgreement]

Next ==
    \/ \E e \in Employers, t \in Terms : CallBargaining(e, t)
    \/ \E i \in Ids : AcceptOffer(i) \/ Withdraw(i) \/ CallAction(i)
    \/ \E i \in Ids, t \in Terms : CounterOffer(i, t)
    \/ \E i \in Ids, verdict \in {"ratified", "rejected"} : CastBallot(i, verdict)
    \/ Organize \/ TakeLead
    \/ \E l \in Locals, e \in Employers : Sell(l, e)
    \/ \E l, m \in Locals : Merge(l, m)
    \/ \E e \in Employers : Dissolve(e)
    \/ StrikesAndClocks
    \/ \E i \in Ids : FundBan(i) \/ AnswerOffer(i)
    \/ OpenAutonomously \/ CloseTurn

Spec == Init /\ [][Next]_vars

-----------------------------------------------------------------------------
\* Properties

Rows == [employer : Employers \cup {Gone}, scope : SUBSET Locals, status : Statuses,
         level : Levels, by : {"union", "employer"}, terms : Terms \cup {NoTerms},
         rev : 0 .. MAX_OFFERS, start : {Never} \cup Turns, disputeAt : {Never} \cup Turns,
         records : UNION {[S -> Gaps] : S \in SUBSET Locals},
         ballot : [rev : 0 .. MAX_OFFERS,
                   status : {"none", "open", "void", "ratified", "rejected"},
                   closes : {Never} \cup 0 .. MaxTurn + RATIFICATION_TURNS],
         endedAt : {Never} \cup Turns, last : {Never} \cup Turns]
Agreements == [status : {"none", "active", "expired"}, employer : Employers \cup {Gone},
               scope : SUBSET Locals, terms : Terms \cup {NoTerms},
               start : {Never} \cup Turns]

\* The shape of the state, and a fund that is never overdrawn.
TypeOK ==
    /\ turn \in Turns /\ phase \in {"play", "ban", "answer"}
    /\ upheavals \in 0 .. MaxUpheavals /\ todo \subseteq Ids
    /\ employers \subseteq Employers
    /\ employerOf \in [Locals -> Employers \cup {Gone}]
    /\ strike \in [Locals -> {Never} \cup Turns]
    /\ cooldown \in [Locals -> {Never} \cup 0 .. MaxTurn + STRIKE_COOLDOWN_TURNS]
    /\ gap \in [Locals -> Gaps]
    /\ leader \in {"none", "npp", "player"} /\ organizer \in BOOLEAN
    /\ fund \in 0 .. MaxFund /\ lastCall \in {Never} \cup Turns
    /\ camps \in [Ids -> Rows] /\ agreements \in [Ids -> Agreements]

\* requireLivePair and requireNoActiveAgreement, over all the ways a campaign
\* opens, settles and expires: an employer never has two campaigns running,
\* two agreements in force, or a campaign beside an agreement in force.
OneDealPerPair ==
    \A i, j \in Ids :
       /\ Live(camps[i]) /\ Live(camps[j]) /\ camps[i].employer = camps[j].employer => i = j
       /\ Active(agreements[i], turn) /\ Active(agreements[j], turn)
             /\ agreements[i].employer = agreements[j].employer => i = j
       /\ ~ /\ Live(camps[i]) /\ Active(agreements[j], turn)
            /\ camps[i].employer = agreements[j].employer

\* "A member ballot authorizes exactly one revision" (bargaining.ts:387): while
\* members vote, the campaign runs and the employer's offer they vote on is
\* the standing one; between turns no ballot is past its closing turn.
BallotOnStandingOffer ==
    \A i \in Ids : LET c == camps[i] IN
       OpenBallot(c) => /\ Live(c) /\ c.by = "employer" /\ c.ballot.rev = c.rev
                        /\ turn < c.ballot.closes

\* A campaign is settled exactly when it has its agreement, with the employer,
\* locals and terms of the standing offer, and never over the members' heads:
\* if they were asked about this offer they ratified it.
SettledAsAgreed ==
    \A i \in Ids : LET c == camps[i] a == agreements[i] IN
       /\ c.status = "settled" <=> a.status # "none"
       /\ c.status = "settled" =>
             /\ a.employer = c.employer /\ a.scope = c.scope /\ a.terms = c.terms
             /\ a.start = c.endedAt
             /\ c.ballot.rev = c.rev => c.ballot.status = "ratified"

\* "Left in place, one payment would buy a local that re-strikes forever"
\* (actions.ts:504): an expectation is above the real wage only where a
\* campaign that is still running forced it up.
ForcedBy(l) == {i \in Ids : Live(camps[i]) /\ l \in DOMAIN camps[i].records}
NoLocalLeftForced == \A l \in Locals : gap[l] > 0 => ForcedBy(l) # {}

\* A strike does not outlive its campaign, or its four turns: the next turn
\* ends every strike that no running campaign called, and no strike is older
\* than it may be.
StrikesEnd ==
    [][turn' # turn => \A l \in Locals : strike[l] # Never =>
          /\ ForcedBy(l) = {} => strike'[l] = Never
          /\ turn' >= strike[l] + STRIKE_DURATION_TURNS => strike'[l] = Never]_vars

\* Deadline and lapse: between turns no campaign is past its time, whoever
\* refuses to move, and whatever counteroffers it went through.
NoCampaignHangs ==
    \A i \in Ids : LET c == camps[i] IN
       /\ c.status = "negotiating" => turn < c.start + DEADLINE_TURNS
       /\ c.status = "dispute" => /\ c.disputeAt <= c.start + DEADLINE_TURNS
                                  /\ turn < c.disputeAt + DISPUTE_MAX_TURNS

\* "union/employer pointers must resolve" (campaigns.ts:170): no campaign's
\* employer is deleted.  The code deletes them.
EmployersResolve == RowsResolve

-----------------------------------------------------------------------------
\* What a campaign is to its two parties (a refinement mapping).
Dealing(i) ==
    LET c == camps[i] a == agreements[i]
        Entry(kind, until) == [with |-> c.employer, kind |-> kind, until |-> until]
    IN IF c.status = "none" THEN Entry("new", 0)
       ELSE IF Live(c) THEN Entry("talks", c.start + DEADLINE_TURNS + DISPUTE_MAX_TURNS)
       ELSE IF Active(a, turn) THEN Entry("pact", Expires(a))
       ELSE IF c.status # "settled" /\ turn < c.endedAt + REOPEN_COOLDOWN_TURNS
       THEN Entry("cooling", c.endedAt + REOPEN_COOLDOWN_TURNS)
       ELSE Entry("over", 0)

Deals == INSTANCE Dealings WITH
    Matters <- Ids, NoOne <- Gone, Durations <- {t.duration : t \in Terms},
    TALK_TURNS <- DEADLINE_TURNS + DISPUTE_MAX_TURNS,
    COOL_TURNS <- REOPEN_COOLDOWN_TURNS,
    now <- turn, book <- [i \in Ids |-> Dealing(i)]

\* requireNoOpenCampaign, requireNoActiveAgreement, the cooldown of a failed
\* campaign and the clocks together: whoever opens, accepts, votes, withdraws or
\* stays silent, and whatever is sold or dissolved meanwhile, an employer has
\* one matter open at a time, a pact binds for exactly its term and a failed
\* campaign gives the employer its turns of rest.
DealingsKept == Deals!Spec
=============================================================================
