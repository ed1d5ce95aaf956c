---------------------------- MODULE BillLifecycle ----------------------------
(***************************************************************************)
(* One country's legislation, from a bill being filed to the law it leaves *)
(* behind: actions/execute.ts (sponsorBill, repealLaw, invokeFilibuster),  *)
(* npp/nppBillSponsorship.ts, phases/billLifecyclePhase.ts and             *)
(* legislation/billLifecycle.ts.                                           *)
(*                                                                         *)
(* The player acts between turns.  EndTurn is advanceTurn up to the        *)
(* closing of the votes: an NPP may file, then every bill takes the step   *)
(* its deadline calls for.  Bills whose executive window has run out are   *)
(* then signed one after the other, in bill order (PocketSign), and the    *)
(* turn ends with the elections (Elections).                               *)
(*                                                                         *)
(* Abstracted: who voted what is the tally a chamber reaches when its vote *)
(* closes; what a law does to budgets and metrics; action points and       *)
(* cooldowns, which only withhold filings.  No code writes the statuses    *)
(* vetoed, veto_override and active_both, so they have no action.          *)
(***************************************************************************)
EXTENDS Integers, Sequences, FiniteSets

CONSTANTS
    Laws,          \* legislation type ids a bill may carry
    Catalog,       \* the laws the catalogue describes (getLaw finds them)
    Tariff,        \* "trade.customs_tariff", which the catalogue does not have
    AllowedScope,  \* [Catalog -> {"national", "regional", "both"}]
    Baseline,      \* the laws in force before the game starts (baselineLevel > 0)
    Regions,       \* the country's regions
    National,      \* stands for an absent regionId
    Chambers,      \* the elected chambers, in the legislature's order
    Senate,        \* the chamber whose key is "senate"
    Vacant,        \* stands for an absent legislativeSeat
    Tallies,       \* the ballots a chamber may cast: [for, against, abstain]
    NoTally,       \* stands for an absent vote snapshot
    StartInfluence,\* the player's national influence at the start
    MaxTurn,       \* bound: turns played
    MaxBills       \* bound: bills ever filed

VOTING_TURNS == 2
EXEC_WINDOW_TURNS == 2
FIRST_PROVISION_NPI_COST == 5
ACTIVE_CAP == 3
COOLDOWN_TURNS == 12

Never == -1                              \* an absent turn number
Scopes == {"national", "regional"}
Places == Regions \cup {National}
Seats == {Chambers[n] : n \in DOMAIN Chambers}

ASSUME LawsAssumption ==
    /\ Laws = Catalog \cup {Tariff}
    /\ Tariff \notin Catalog
    /\ AllowedScope \in [Catalog -> {"national", "regional", "both"}]
    /\ Baseline \subseteq {l \in Catalog : AllowedScope[l] # "regional"}
    /\ National \notin Regions

ASSUME LegislatureAssumption ==
    /\ Chambers \in Seq(Seats) /\ Len(Chambers) \in 1 .. 2
    /\ Len(Chambers) = 2 => Chambers[1] # Chambers[2]
    /\ Vacant \notin Seats

ASSUME BoundsAssumption ==
    /\ Tallies \subseteq [for : Nat, against : Nat, abstain : Nat]
    /\ NoTally \notin Tallies
    /\ StartInfluence \in Nat
    /\ MaxTurn \in Nat /\ MaxBills \in Nat

VARIABLES
    turn,              \* world.meta.turn
    stage,             \* "player" between turns, "signing" inside the bill phase
    office,            \* the player's mode: career, head of state, or sovereign
    seat,              \* world.player.legislativeSeat
    nationalInfluence, \* world.player.nationalInfluence
    bills,             \* world.bills, never pruned
    policyLedger,      \* world.policyLedger: rows keyed by the bill that wrote them
    enactedLaws        \* world.enactedLaws, in order of enactment

vars == <<turn, stage, office, seat, nationalInfluence, bills,
          policyLedger, enactedLaws>>

-----------------------------------------------------------------------------
(* Bills and laws. *)

Unresolved(b) == b.status \notin {"failed", "signed"}

\* The chambers a bill passes through.
Route(b) ==
    IF Len(Chambers) = 2 /\ b.origin = Chambers[2]
    THEN <<Chambers[2], Chambers[1]>>
    ELSE Chambers

\* The scope a law has in the place a bill names.
ScopeOf(law, place) ==
    IF place # National \/ (law \in Catalog /\ AllowedScope[law] = "regional")
    THEN "regional" ELSE "national"

\* What a row of either store is about.
Key(r) == <<r.law, r.scope, r.region>>
BillKey(b) == <<b.law, ScopeOf(b.law, b.region), b.region>>

\* Three fifths of the votes cast once a filibuster was invoked, else a majority.
ClotureNeeds(cast) == (3 * cast + 4) \div 5
\* Mutant: the second chamber's vote ignores the filibuster.
PassedOnMajority(b, tally) == tally.for > tally.against
Passed(b, tally) ==
    LET cast == tally.for + tally.against + tally.abstain
    IN  IF b.filibuster
        THEN cast > 0 /\ tally.for >= ClotureNeeds(cast)
        ELSE tally.for > tally.against

\* A bill as it is filed.
Filed(law, region, repeals, sponsor, origin, cost) ==
    [law |-> law, region |-> region, repeals |-> repeals, sponsor |-> sponsor,
     npiCost |-> cost, origin |-> origin, chamber |-> origin,
     status |-> "proposed", filedAt |-> turn, deadline |-> Never,
     filibuster |-> FALSE, votes |-> NoTally, otherVotes |-> NoTally,
     signedAt |-> Never, refunded |-> FALSE]

\* applyBillEffects marks the charge of the player's bill returned; a repeal
\* of a catalogue law returns before it gets there, but was never charged.
Signed(b) ==
    [b EXCEPT !.status = "signed", !.signedAt = turn,
              !.refunded = b.sponsor = "player" /\ ~ b.repeals]

\* Mutant: the charge is returned whoever sponsored the bill.
RefundAnyone(b) == IF b.repeals THEN 0 ELSE FIRST_PROVISION_NPI_COST
Refund(b) == IF Signed(b).refunded THEN b.npiCost ELSE 0

-----------------------------------------------------------------------------
(* What a signed bill leaves behind (applyBillEffects). *)

Retired(r) == [r EXCEPT !.retiredAt = turn]
RetireSame(r, k) == IF Key(r) = k /\ r.retiredAt = Never THEN Retired(r) ELSE r

Row(b) ==
    [law |-> b.law, scope |-> ScopeOf(b.law, b.region), region |-> b.region,
     isRepeal |-> b.repeals, retiredAt |-> Never]
EnactedLaw(b, n) ==
    [billId |-> n, law |-> b.law, scope |-> ScopeOf(b.law, b.region),
     region |-> b.region, retiredAt |-> Never]

\* Mutant: the ledger keeps the old posture beside the new one.
LedgerPilingUp(b, n) ==
    IF b.law \notin Catalog THEN policyLedger
    ELSE [m \in DOMAIN policyLedger \cup {n} |->
            IF m = n THEN Row(b) ELSE policyLedger[m]]

\* Mutant: the new row takes the place of the one it replaces.
LedgerOverwritten(b, n) ==
    LET kept == {m \in DOMAIN policyLedger : Key(policyLedger[m]) # BillKey(b)}
    IN  [m \in kept \cup {n} |-> IF m = n THEN Row(b) ELSE policyLedger[m]]

\* A catalogue law has one row per scope and region: the old ones are retired
\* first.  A law the catalogue does not have writes no ledger row.
LedgerWith(b, n) ==
    IF b.law \notin Catalog THEN policyLedger
    ELSE [m \in DOMAIN policyLedger \cup {n} |->
            IF m = n THEN Row(b) ELSE RetireSame(policyLedger[m], BillKey(b))]

\* Mutant: a repeal retires the ledger's row and leaves the law in force.
EnactedForgettingRepeal(b, n) ==
    IF b.repeals /\ b.law \in Catalog THEN enactedLaws
    ELSE Append([m \in DOMAIN enactedLaws |->
                    IF b.law \in Catalog
                    THEN RetireSame(enactedLaws[m], BillKey(b))
                    ELSE enactedLaws[m]],
                EnactedLaw(b, n))

\* Every bill but the repeal of a catalogue law becomes a law of the land.
EnactedWith(b, n) ==
    LET kept == IF b.law \notin Catalog THEN enactedLaws
                ELSE [m \in DOMAIN enactedLaws |->
                        RetireSame(enactedLaws[m], BillKey(b))]
    IN  IF b.repeals /\ b.law \in Catalog THEN kept
        ELSE Append(kept, EnactedLaw(b, n))

\* Bill b, number n, takes effect.
Enact(b, n) ==
    /\ policyLedger' = LedgerWith(b, n)
    /\ enactedLaws' = EnactedWith(b, n)
NoLawChanges == UNCHANGED <<policyLedger, enactedLaws>>

-----------------------------------------------------------------------------
(* What the player does between turns. *)

TypesOfOffice == {"career", "hos", "sovereign"}

Init ==
    /\ turn = 0 /\ stage = "player"
    /\ office \in TypesOfOffice
    /\ seat \in Seats \cup {Vacant}
    /\ nationalInfluence = StartInfluence
    /\ bills = <<>>
    /\ policyLedger = <<>>
    /\ enactedLaws = <<>>

MayFile == stage = "player" /\ Len(bills) < MaxBills
MaySponsor == office # "career" \/ seat # Vacant

\* A new bill joins the list; a decree is signed in the same call.
File(b, byDecree) ==
    LET n == Len(bills) + 1
        charged == nationalInfluence - b.npiCost
    IN  /\ bills' = Append(bills, IF byDecree THEN Signed(b) ELSE b)
        /\ IF byDecree
           THEN Enact(b, n) /\ nationalInfluence' = charged + Refund(b)
           ELSE NoLawChanges /\ nationalInfluence' = charged
        /\ UNCHANGED <<turn, stage, office, seat>>

\* Mutant: the player may sponsor a bill without the influence it costs.
SponsorUnpaid(law, region, origin) ==
    /\ MayFile /\ MaySponsor
    /\ IF region = National THEN AllowedScope[law] # "regional"
                            ELSE AllowedScope[law] # "national"
    /\ File(Filed(law, region, FALSE, "player", origin,
                  FIRST_PROVISION_NPI_COST),
            office # "career")

\* sponsorBill: a catalogue law, for the country or for one region.
SponsorBill(law, region, origin) ==
    /\ MayFile /\ MaySponsor
    /\ IF region = National THEN AllowedScope[law] # "regional"
                            ELSE AllowedScope[law] # "national"
    /\ nationalInfluence >= FIRST_PROVISION_NPI_COST
    /\ File(Filed(law, region, FALSE, "player", origin,
                  FIRST_PROVISION_NPI_COST),
            office # "career")

\* sponsorBill for the customs tariff: one at a time, and straight to a vote.
TariffBill(origin) ==
    [Filed(Tariff, National, FALSE, "player", origin, 0) EXCEPT
        !.status = "active", !.deadline = turn + VOTING_TURNS]
ProposeTariff ==
    /\ MayFile /\ MaySponsor
    /\ office = "sovereign" \/ seat # Vacant
    /\ \A n \in DOMAIN bills :
        bills[n].law = Tariff => bills[n].repeals \/ ~ Unresolved(bills[n])
    /\ File(TariffBill(IF office = "sovereign" THEN Chambers[1] ELSE seat),
            office = "sovereign")

\* What repealLaw accepts as a law to repeal: naming no region, any will do.
InForce(law, region) ==
    \/ \E n \in DOMAIN enactedLaws :
        /\ enactedLaws[n].law = law /\ enactedLaws[n].retiredAt = Never
        /\ region \in {National, enactedLaws[n].region}
    \/ \E n \in DOMAIN policyLedger :
        /\ policyLedger[n].law = law /\ policyLedger[n].retiredAt = Never
        /\ ~ policyLedger[n].isRepeal
        /\ region \in {National, policyLedger[n].region}
    \/ region = National /\ law \in Baseline

RepealLaw(law, region) ==
    /\ MayFile /\ MaySponsor
    /\ InForce(law, region)
    /\ File(Filed(law, region, TRUE, "player", Chambers[1], 0),
            office # "career")

\* Mutant: a filibuster also keeps the vote open another two turns.
FilibusterHoldingOpen(n) ==
    /\ stage = "player"
    /\ seat = Senate /\ bills[n].chamber = Senate
    /\ bills[n].status \in {"active", "active_other"}
    /\ bills' = [bills EXCEPT ![n].filibuster = TRUE, ![n].deadline = turn + VOTING_TURNS]
    /\ NoLawChanges
    /\ UNCHANGED <<turn, stage, office, seat, nationalInfluence>>

InvokeFilibuster(n) ==
    /\ stage = "player"
    /\ seat = Senate /\ bills[n].chamber = Senate
    /\ bills[n].status \in {"active", "active_other"}
    /\ bills' = [bills EXCEPT ![n].filibuster = TRUE]
    /\ NoLawChanges
    /\ UNCHANGED <<turn, stage, office, seat, nationalInfluence>>

-----------------------------------------------------------------------------
(* The turn: nppBillSponsorshipPhase, billLifecyclePhase, then elections. *)

Active(b) == b.status \in {"active", "active_other"}
Closing(b, now) == Active(b) /\ b.deadline <= now

\* NPPs file no more than ACTIVE_CAP bills, and no law again within the cooldown.
NppBills == {n \in DOMAIN bills : bills[n].sponsor = "npp"}
NppMayFile(law, now) ==
    /\ Len(bills) < MaxBills
    /\ Cardinality({n \in NppBills : Unresolved(bills[n])}) < ACTIVE_CAP
    /\ \A n \in NppBills : bills[n].law = law => now - bills[n].filedAt >= COOLDOWN_TURNS
NppBill(law, origin, now) ==
    [Filed(law, National, FALSE, "npp", origin, 0) EXCEPT
        !.filedAt = now, !.deadline = now + VOTING_TURNS]

\* The step one bill takes in processBillLifecycle, given the ballot its
\* chamber reaches; deadlines lie ahead, so it never takes two in one turn.
Advanced(b, tally, now) ==
    IF b.status = "proposed"
    THEN [b EXCEPT !.status = "active", !.chamber = Route(b)[1],
                   !.deadline = now + VOTING_TURNS]
    ELSE IF ~ Closing(b, now) THEN b
    ELSE LET counted == IF b.status = "active" THEN [b EXCEPT !.votes = tally]
                        ELSE [b EXCEPT !.otherVotes = tally]
         IN  IF ~ Passed(b, tally) THEN [counted EXCEPT !.status = "failed"]
             ELSE IF b.status = "active" /\ Len(Route(b)) = 2
             THEN [counted EXCEPT !.status = "active_other",
                                  !.chamber = Route(b)[2],
                                  !.deadline = now + VOTING_TURNS]
             ELSE [counted EXCEPT !.status = "enrolled",
                                  !.deadline = now + EXEC_WINDOW_TURNS]

\* processBillLifecycle: each of these bills takes its step, on the ballots of
\* the chambers whose vote closes.
BillsMove(all, now) ==
    \E ballot \in [{n \in DOMAIN all : Closing(all[n], now)} -> Tallies] :
        bills' = [n \in DOMAIN all |->
                    Advanced(all[n],
                             IF n \in DOMAIN ballot THEN ballot[n] ELSE NoTally,
                             now)]

EndTurn ==
    /\ stage = "player" /\ turn < MaxTurn
    /\ turn' = turn + 1
    /\ \/ BillsMove(bills, turn + 1)
       \/ \E law \in Catalog, origin \in Seats :
            /\ NppMayFile(law, turn + 1)
            /\ BillsMove(Append(bills, NppBill(law, origin, turn + 1)), turn + 1)
    /\ stage' = "signing"
    /\ NoLawChanges
    /\ UNCHANGED <<office, seat, nationalInfluence>>

\* The bills the executive left unsigned for its whole window become law.
Expired(n) == bills[n].status = "enrolled" /\ bills[n].deadline <= turn
PocketSign(n) ==
    /\ stage = "signing"
    /\ Expired(n) /\ \A m \in 1 .. n - 1 : ~ Expired(m)
    /\ bills' = [bills EXCEPT ![n] = Signed(bills[n])]
    /\ Enact(bills[n], n)
    /\ nationalInfluence' = nationalInfluence + Refund(bills[n])
    /\ UNCHANGED <<turn, stage, office, seat>>

\* The turn ends with elections, which may give or take the player's seat.
Elections ==
    /\ stage = "signing"
    /\ \A n \in DOMAIN bills : ~ Expired(n)
    /\ stage' = "player"
    /\ seat' \in Seats \cup {Vacant}
    /\ NoLawChanges
    /\ UNCHANGED <<turn, office, nationalInfluence, bills>>

Next ==
    \/ \E law \in Catalog, region \in Places, origin \in Seats :
        SponsorBill(law, region, origin)
    \/ ProposeTariff
    \/ \E law \in Laws, region \in Places : RepealLaw(law, region)
    \/ \E n \in DOMAIN bills : InvokeFilibuster(n)
    \/ EndTurn
    \/ \E n \in DOMAIN bills : PocketSign(n)
    \/ Elections

Spec == Init /\ [][Next]_vars
-----------------------------------------------------------------------------
(* What the legislation promises. *)

Turns == 0 .. MaxTurn
Maybe(S) == S \cup {Never}
Statuses == {"proposed", "active", "active_other", "enrolled", "failed", "signed"}
BillType ==
    [law : Laws, region : Places, repeals : BOOLEAN, sponsor : {"player", "npp"},
     npiCost : {0, FIRST_PROVISION_NPI_COST}, origin : Seats, chamber : Seats,
     status : Statuses, filedAt : Turns,
     deadline : Maybe(0 .. MaxTurn + VOTING_TURNS), filibuster : BOOLEAN,
     votes : Tallies \cup {NoTally}, otherVotes : Tallies \cup {NoTally},
     signedAt : Maybe(Turns), refunded : BOOLEAN]

\* Every variable keeps its type, and every law row names the bill it came from.
TypeOK ==
    /\ turn \in Turns /\ stage \in {"player", "signing"}
    /\ office \in TypesOfOffice /\ seat \in Seats \cup {Vacant}
    /\ nationalInfluence \in Nat
    /\ bills \in Seq(BillType)
    /\ DOMAIN policyLedger \subseteq DOMAIN bills
    /\ \A n \in DOMAIN policyLedger :
        policyLedger[n] \in [law : Catalog, scope : Scopes, region : Places,
                             isRepeal : BOOLEAN, retiredAt : Maybe(Turns)]
    /\ enactedLaws \in Seq([billId : Nat, law : Laws, scope : Scopes,
                            region : Places, retiredAt : Maybe(Turns)])
    /\ \A m \in DOMAIN enactedLaws : enactedLaws[m].billId \in DOMAIN bills

IsSigned(n) == bills[n].status = "signed"
SignedAfter(m, n) ==
    \/ bills[m].signedAt > bills[n].signedAt
    \/ bills[m].signedAt = bills[n].signedAt /\ m > n

\* "A catalog law has one current posture per country and scope"
\* (billLifecycle.ts:426), and it is the one signed last: of the bills on the
\* same law in the same place, enacting or repealing, that the player and the
\* NPPs have in flight at once, exactly the last to be signed has a live row.
LastSignedRules ==
    \A n \in DOMAIN bills :
        bills[n].law \in Catalog /\ IsSigned(n) =>
            /\ n \in DOMAIN policyLedger
            /\ policyLedger[n].retiredAt = Never <=>
                ~ \E m \in DOMAIN bills :
                    IsSigned(m) /\ BillKey(bills[m]) = BillKey(bills[n])
                                /\ SignedAfter(m, n)

\* The two stores agree: the laws the player sees as in force (enactedLaws) are
\* the bills whose ledger row, the one policy effects read, is live and not the
\* mark of a repeal; and no law is in force twice over.
StoresAgree ==
    /\ \A n \in DOMAIN policyLedger :
        policyLedger[n].retiredAt = Never /\ ~ policyLedger[n].isRepeal <=>
            \E m \in DOMAIN enactedLaws :
                enactedLaws[m].billId = n /\ enactedLaws[m].retiredAt = Never
    /\ \A l, m \in DOMAIN enactedLaws :
        enactedLaws[l].billId = enactedLaws[m].billId => l = m

\* What the player's bills cost comes back once, when the bill is signed, and
\* never otherwise: influence held and influence sunk in bills not signed add
\* up to what the player began with.
ChargesComeBackOnce ==
    nationalInfluence + FIRST_PROVISION_NPI_COST
        * Cardinality({n \in DOMAIN bills : bills[n].npiCost > 0 /\ ~ IsSigned(n)})
      = StartInfluence

\* A law that is no decree was carried by every chamber of its route, each on a
\* vote of its own, and once a filibuster was invoked the Senate only lets a
\* bill go on three fifths of the votes cast.
Carried(tally) == tally # NoTally /\ tally.for > tally.against
OnCloture(tally) ==
    5 * tally.for >= 3 * (tally.for + tally.against + tally.abstain)
IsDecree(b) == office # "career" /\ b.sponsor = "player" /\ b.signedAt = b.filedAt
SignedThroughChambers ==
    \A n \in DOMAIN bills :
        LET b == bills[n]
        IN  IsSigned(n) /\ ~ IsDecree(b) =>
            /\ Carried(b.votes)
            /\ Len(Chambers) = 2 => Carried(b.otherVotes)
            /\ b.filibuster =>
                OnCloture(IF Route(b)[1] = Senate THEN b.votes ELSE b.otherVotes)

\* No bill is left hanging: two votes and the executive's window after the turn
\* it is taken up, whoever filed it and whatever was invoked, it is law or dead.
LifeSpan == 1 + Len(Chambers) * VOTING_TURNS + EXEC_WINDOW_TURNS
NoBillHangs ==
    \A n \in DOMAIN bills :
        Unresolved(bills[n]) =>
            \/ turn < bills[n].filedAt + LifeSpan
            \/ stage = "signing" /\ turn = bills[n].filedAt + LifeSpan

\* History stays written: no bill, row or law disappears, a retired row is never
\* live again nor its date moved, and a bill that failed or was signed is final.
HistoryStays ==
    [][/\ \A n \in DOMAIN policyLedger :
            /\ n \in DOMAIN policyLedger'
            /\ policyLedger[n].retiredAt # Never => policyLedger'[n] = policyLedger[n]
       /\ \A m \in DOMAIN enactedLaws :
            /\ m \in DOMAIN enactedLaws'
            /\ enactedLaws[m].retiredAt # Never => enactedLaws'[m] = enactedLaws[m]
       /\ \A n \in DOMAIN bills :
            /\ n \in DOMAIN bills'
            /\ ~ Unresolved(bills[n]) => bills'[n] = bills[n]]_vars

\* "repeal creates a bill that when enacted removes effect"
\* (legislation.sim.test.ts:459): of a law that only regions can have, nothing
\* enacted before the repeal the player was granted is left in force after it.
\* The code does not keep this: repealLaw without a region takes any region's
\* row as the law to repeal, and signing it retires only rows with no region.
RepealRemovesLaw ==
    \A n \in DOMAIN bills :
        LET b == bills[n]
        IN  IsSigned(n) /\ b.repeals /\ b.law \in Catalog
              /\ AllowedScope[b.law] = "regional" =>
            \A m \in DOMAIN enactedLaws :
                enactedLaws[m].law = b.law /\ SignedAfter(n, enactedLaws[m].billId)
                  /\ b.region \in {National, enactedLaws[m].region}
                => enactedLaws[m].retiredAt # Never

-----------------------------------------------------------------------------
(* What a bill is to those who live under it (a refinement mapping): its   *)
(* fate, and when its row in the ledger was retired.                       *)
Measure(n) ==
    LET b == bills[n]
    IN  [matter |-> BillKey(b), ends |-> b.repeals, filed |-> b.filedAt,
         fate |-> IF b.status = "signed" THEN "law"
                  ELSE IF b.status = "failed" THEN "dead" ELSE "filed",
         until |-> IF n \in DOMAIN policyLedger THEN policyLedger[n].retiredAt
                   ELSE Never]
Shown == {enactedLaws[m].billId :
            m \in {l \in DOMAIN enactedLaws : enactedLaws[l].retiredAt = Never}}

Statutes == INSTANCE StatuteBook WITH
    Numbers <- 1 .. MaxBills, SPAN <- LifeSpan,
    Matters <- Laws \X Scopes \X Places, Exclusive <- Catalog \X Scopes \X Places,
    now <- turn, measures <- [n \in DOMAIN bills |-> Measure(n)], inForce <- Shown

\* Signing is one step in both stores ("retire the previous posture", then the
\* new row, then enactedLaws: billLifecycle.ts:426-494): whoever filed, voted,
\* decreed or filibustered, a measure becomes law or dies in time and for good,
\* what it supersedes ends at that moment and keeps the date, and the laws shown
\* to the player follow in the same step.
StatutesKept == Statutes!Spec
=============================================================================
