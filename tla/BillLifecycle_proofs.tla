------------------------- MODULE BillLifecycle_proofs -------------------------
(***************************************************************************)
(* The legislation for any catalogue, regions, ballots, number of bills    *)
(* and length of the game.  GoodBill says of every bill what its status    *)
(* owes to the votes behind it and how far its deadline may lie ahead.     *)
(* LawInv ties the two stores of laws to the bills that wrote them; it is  *)
(* inductive only because bills are signed in order within a turn          *)
(* (InOrder), so that the bill just signed is the last one signed of all.  *)
(***************************************************************************)
EXTENDS BillLifecycle, FiniteSetTheorems, SequenceTheorems, TLAPS

-----------------------------------------------------------------------------
\* One bill

Voted(b) ==
    /\ b.filibuster => \/ Route(b)[1] = Senate
                       \/ Len(Chambers) = 2 /\ Route(b)[2] = Senate
    /\ b.status \in {"active_other", "enrolled"} \/ (b.status = "signed" /\ ~ IsDecree(b))
         => /\ Carried(b.votes)
            /\ b.filibuster /\ Route(b)[1] = Senate => OnCloture(b.votes)
    /\ b.status = "enrolled" \/ (b.status = "signed" /\ ~ IsDecree(b))
         => /\ Len(Chambers) = 2 => Carried(b.otherVotes)
            /\ b.filibuster /\ Route(b)[1] # Senate => OnCloture(b.otherVotes)

InTime(b, now, st) ==
    /\ b.status = "proposed" => st = "player" /\ now = b.filedAt
    /\ b.status = "active" => /\ b.chamber = Route(b)[1] /\ now < b.deadline
                              /\ b.deadline <= b.filedAt + 1 + VOTING_TURNS
    /\ b.status = "active_other" => /\ Len(Chambers) = 2 /\ b.chamber = Route(b)[2]
                                    /\ now < b.deadline
                                    /\ b.deadline <= b.filedAt + 1 + 2 * VOTING_TURNS
    /\ b.status = "enrolled" => /\ b.deadline <= b.filedAt + LifeSpan /\ now <= b.deadline
                                /\ st = "player" => now < b.deadline
    /\ b.status = "signed" => b.signedAt \in 0 .. now
    /\ b.filedAt <= now

Charged(b) == b.npiCost > 0 => b.npiCost = FIRST_PROVISION_NPI_COST
                               /\ b.sponsor = "player" /\ ~ b.repeals

GoodBill(b, now, st) == Voted(b) /\ InTime(b, now, st) /\ Charged(b)

\* What passes on a filibuster's threshold has a majority too.
LEMMA ClotureCarries ==
    ASSUME NEW b, NEW tally \in Tallies, Passed(b, tally)
    PROVE  /\ Carried(tally)
           /\ b.filibuster = TRUE => OnCloture(tally)
<1>1. /\ tally.for \in Nat /\ tally.against \in Nat /\ tally.abstain \in Nat
      /\ tally # NoTally
  BY BoundsAssumption
<1> DEFINE cast == tally.for + tally.against + tally.abstain
<1>2. ASSUME cast > 0, tally.for >= ClotureNeeds(cast)
      PROVE  5 * tally.for >= 3 * cast
  <2>1. 5 * ((3 * cast + 4) \div 5) >= 3 * cast
    BY <1>1
  <2> QED BY <1>1, <1>2, <2>1 DEF ClotureNeeds
<1>3. CASE cast > 0 /\ tally.for >= ClotureNeeds(cast)
  BY <1>1, <1>2, <1>3 DEF Carried, OnCloture
<1>4. CASE ~ (cast > 0 /\ tally.for >= ClotureNeeds(cast))
  BY <1>1, <1>4 DEF Passed, Carried
<1> QED BY <1>3, <1>4

LEMMA Routes ==
    ASSUME NEW b, b.origin \in Seats
    PROVE  /\ Route(b) \in Seq(Seats) /\ Len(Route(b)) = Len(Chambers)
           /\ Route(b)[1] = b.origin /\ Route(b)[1] \in Seats
           /\ Len(Chambers) = 2 => Route(b)[2] \in Seats /\ Route(b)[2] # Route(b)[1]
           /\ Len(Chambers) \in {1, 2}
<1>1. Len(Chambers) \in {1, 2} /\ Chambers \in Seq(Seats)
  BY LegislatureAssumption
<1>2. CASE Len(Chambers) = 1
  BY <1>1, <1>2 DEF Route, Seats
<1>3. CASE Len(Chambers) = 2
  <2>1. DOMAIN Chambers = {1, 2} /\ Chambers[1] # Chambers[2]
    BY <1>1, <1>3, LegislatureAssumption
  <2>2. b.origin = Chambers[1] \/ b.origin = Chambers[2]
    BY <2>1 DEF Seats
  <2>3. Chambers[1] \in Seats /\ Chambers[2] \in Seats
    BY <2>1 DEF Seats
  <2> QED BY <1>1, <1>3, <2>1, <2>2, <2>3 DEF Route
<1> QED BY <1>1, <1>2, <1>3

\* What a turn leaves of a bill b, whatever happens to it in its chamber.
SameLaw(b, c) ==
    /\ c.law = b.law /\ c.region = b.region /\ c.repeals = b.repeals
    /\ c.npiCost = b.npiCost /\ c.signedAt = b.signedAt
    /\ c.sponsor = b.sponsor /\ c.refunded = b.refunded
    /\ c.status = "signed" <=> b.status = "signed"
    /\ ~ Unresolved(b) => c = b

\* The step a bill takes in a turn.
LEMMA AdvancedBill ==
    ASSUME NEW b \in BillType, NEW t0 \in Turns, t0 + 1 \in Turns,
           \/ GoodBill(b, t0, "player")
           \/ b.status = "proposed" /\ b.filedAt = t0 + 1 /\ b.filibuster = FALSE /\ Charged(b),
           NEW tally \in Tallies \cup {NoTally},
           Closing(b, t0 + 1) => tally \in Tallies
    PROVE  /\ Advanced(b, tally, t0 + 1) \in BillType
           /\ GoodBill(Advanced(b, tally, t0 + 1), t0 + 1, "signing")
           /\ SameLaw(b, Advanced(b, tally, t0 + 1))
<1> DEFINE r == Advanced(b, tally, t0 + 1)
<1> HIDE DEF r
<1>0. /\ t0 \in Nat /\ MaxTurn \in Nat /\ t0 + 1 \in 0 .. MaxTurn
      /\ b.filedAt \in Nat /\ b.deadline \in Int /\ b.filibuster \in BOOLEAN
      /\ b.status \in Statuses
  BY BoundsAssumption DEF Turns, BillType, Maybe, Never, VOTING_TURNS
<1>1. /\ Route(b)[1] \in Seats /\ Len(Route(b)) = Len(Chambers)
      /\ Len(Chambers) = 2 => Route(b)[2] \in Seats /\ Route(b)[2] # Route(b)[1]
      /\ Len(Chambers) \in {1, 2}
  BY Routes DEF BillType
<1>9. /\ t0 + 3 \in Maybe(0 .. MaxTurn + VOTING_TURNS)
      /\ {"failed", "active", "active_other", "enrolled"} \subseteq Statuses
      /\ t0 + 1 + VOTING_TURNS = t0 + 3 /\ t0 + 1 + EXEC_WINDOW_TURNS = t0 + 3
  BY <1>0 DEF Maybe, VOTING_TURNS, EXEC_WINDOW_TURNS, Statuses
<1>2. CASE b.status = "proposed"
  <2>1. r = [b EXCEPT !.status = "active", !.chamber = Route(b)[1],
                      !.deadline = t0 + 3]
    BY <1>2, <1>9 DEF Advanced, r
  <2>2. r \in BillType
    BY <2>1, <1>1, <1>9 DEF BillType
  <2>3. /\ r.status = "active" /\ r.chamber = Route(r)[1] /\ r.deadline = t0 + 3
        /\ r.filedAt = b.filedAt /\ r.filibuster = b.filibuster /\ Route(r) = Route(b)
        /\ r.npiCost = b.npiCost /\ r.sponsor = b.sponsor /\ r.repeals = b.repeals
    BY <2>1, <1>0 DEF BillType, VOTING_TURNS, Route
  <2>4. b.filedAt \in {t0, t0 + 1}
    BY <1>2, <1>0 DEF GoodBill, InTime
  <2>5. Voted(r)
    BY <2>3, <1>0, <1>2 DEF Voted, GoodBill
  <2>6. InTime(r, t0 + 1, "signing")
    BY <2>3, <2>4, <1>0 DEF InTime, VOTING_TURNS
  <2>7. Charged(r)
    BY <2>3 DEF Charged, GoodBill
  <2>8. SameLaw(b, r)
    BY <2>1, <1>2 DEF SameLaw, Unresolved, BillType
  <2> QED BY <2>2, <2>5, <2>6, <2>7, <2>8 DEF GoodBill, r
<1>3. CASE b.status # "proposed" /\ ~ Closing(b, t0 + 1)
  <2>1. r = b
    BY <1>3 DEF Advanced, r
  <2>2. InTime(b, t0, "player") /\ Voted(b) /\ Charged(b)
    BY <1>3 DEF GoodBill
  <2>3. InTime(b, t0 + 1, "signing")
    BY <2>2, <1>0, <1>3 DEF InTime, Closing, Active
  <2> QED BY <2>1, <2>2, <2>3 DEF GoodBill, SameLaw, r
<1>4. CASE Closing(b, t0 + 1)
  <2>0. /\ InTime(b, t0, "player") /\ Voted(b) /\ Charged(b)
        /\ b.status \in {"active", "active_other"} /\ tally \in Tallies
    BY <1>4 DEF GoodBill, Closing, Active
  <2>1. /\ b.deadline = t0 + 1 /\ t0 \in Nat /\ b.filedAt \in Nat
        /\ b.status = "active" => b.deadline <= b.filedAt + 3
        /\ b.status = "active_other" => Len(Chambers) = 2 /\ b.deadline <= b.filedAt + 5
        /\ b.filedAt <= t0
    BY <2>0, <1>0, <1>4 DEF InTime, Closing, VOTING_TURNS
  <2> DEFINE counted == IF b.status = "active" THEN [b EXCEPT !.votes = tally]
                        ELSE [b EXCEPT !.otherVotes = tally]
  <2>2. r = IF ~ Passed(b, tally) THEN [counted EXCEPT !.status = "failed"]
            ELSE IF b.status = "active" /\ Len(Route(b)) = 2
            THEN [counted EXCEPT !.status = "active_other",
                                 !.chamber = Route(b)[2],
                                 !.deadline = t0 + 3]
            ELSE [counted EXCEPT !.status = "enrolled",
                                 !.deadline = t0 + 3]
    BY <2>0, <1>4, <1>9 DEF Advanced, r
  <2>3. counted \in BillType
    BY <2>0 DEF BillType
  <2>4. r \in BillType
    <3> HIDE DEF counted
    <3> QED BY <2>2, <2>3, <1>1, <1>9 DEF BillType
  <2>5. /\ r.filedAt = b.filedAt /\ r.filibuster = b.filibuster /\ Route(r) = Route(b)
        /\ r.npiCost = b.npiCost /\ r.sponsor = b.sponsor /\ r.repeals = b.repeals
        /\ r.status \in {"failed", "active_other", "enrolled"}
    BY <2>2 DEF BillType, Route
  <2>6. SameLaw(b, r)
    BY <2>2, <2>0 DEF SameLaw, BillType, Unresolved
  <2>7. Charged(r)
    BY <2>0, <2>5 DEF Charged
  <2>8. CASE ~ Passed(b, tally)
    <3>1. r.status = "failed"
      BY <2>2, <2>8 DEF BillType
    <3>2. Voted(r)
      BY <2>0, <2>5, <3>1 DEF Voted
    <3>3. InTime(r, t0 + 1, "signing")
      BY <2>1, <2>5, <3>1, <1>0 DEF InTime
    <3> QED BY <2>4, <2>6, <2>7, <3>2, <3>3 DEF GoodBill, r
  <2>9. CASE Passed(b, tally)
    <3>1. Carried(tally) /\ (b.filibuster => OnCloture(tally))
      BY <2>0, <2>9, <1>0, ClotureCarries
    <3>2. CASE b.status = "active" /\ Len(Chambers) = 2
      <4>1. /\ r.status = "active_other" /\ r.chamber = Route(b)[2]
            /\ r.deadline = t0 + 3 /\ r.votes = tally
        BY <2>2, <2>9, <3>2, <1>1, <1>0 DEF BillType, VOTING_TURNS
      <4>2. Voted(r)
        BY <2>0, <2>5, <3>1, <3>2, <4>1, <1>0 DEF Voted
      <4>3. InTime(r, t0 + 1, "signing")
        BY <2>1, <2>5, <3>2, <4>1, <1>0 DEF InTime, VOTING_TURNS
      <4> QED BY <2>4, <2>6, <2>7, <4>2, <4>3 DEF GoodBill, r
    <3>3. CASE b.status = "active" /\ Len(Chambers) = 1
      <4>1. r.status = "enrolled" /\ r.deadline = t0 + 3 /\ r.votes = tally
        BY <2>2, <2>9, <3>3, <1>1, <1>0 DEF BillType, EXEC_WINDOW_TURNS
      <4>2. Voted(r)
        BY <2>0, <2>5, <3>1, <3>3, <4>1, <1>0 DEF Voted
      <4>3. InTime(r, t0 + 1, "signing")
        BY <2>1, <2>5, <3>3, <4>1, <1>0 DEF InTime, LifeSpan, VOTING_TURNS, EXEC_WINDOW_TURNS
      <4> QED BY <2>4, <2>6, <2>7, <4>2, <4>3 DEF GoodBill, r
    <3>4. CASE b.status = "active_other"
      <4>1. /\ r.status = "enrolled" /\ r.deadline = t0 + 3
            /\ r.otherVotes = tally /\ r.votes = b.votes
        BY <2>2, <2>9, <3>4, <1>1, <1>0 DEF BillType, EXEC_WINDOW_TURNS
      <4>2. Voted(r)
        <5>1. /\ Carried(b.votes)
              /\ b.filibuster /\ Route(b)[1] = Senate => OnCloture(b.votes)
              /\ b.filibuster => \/ Route(b)[1] = Senate
                                 \/ Len(Chambers) = 2 /\ Route(b)[2] = Senate
          BY <2>0, <3>4 DEF Voted
        <5>2. /\ Carried(r.votes) /\ Carried(r.otherVotes)
              /\ r.filibuster /\ Route(r)[1] = Senate => OnCloture(r.votes)
              /\ r.filibuster => OnCloture(r.otherVotes)
              /\ r.filibuster => \/ Route(r)[1] = Senate
                                 \/ Len(Chambers) = 2 /\ Route(r)[2] = Senate
          BY <5>1, <2>5, <3>1, <4>1
        <5> QED BY <5>2 DEF Voted
      <4>3. InTime(r, t0 + 1, "signing")
        <5>1. LifeSpan = 7
          <6>1. Len(Chambers) = 2
            BY <2>1, <3>4
          <6> QED BY <6>1 DEF LifeSpan, VOTING_TURNS, EXEC_WINDOW_TURNS
        <5>2. r.filedAt \in Nat /\ r.deadline <= r.filedAt + 7
          BY <2>1, <2>5, <3>4, <4>1
        <5>3. t0 + 1 <= r.deadline /\ r.filedAt <= t0 + 1
          BY <2>1, <2>5, <4>1
        <5> QED BY <5>1, <5>2, <5>3, <4>1 DEF InTime
      <4> QED BY <2>4, <2>6, <2>7, <4>2, <4>3 DEF GoodBill, r
    <3> QED BY <2>0, <1>1, <3>2, <3>3, <3>4
  <2> QED BY <2>8, <2>9
<1> QED BY <1>2, <1>3, <1>4 DEF Closing, Active, r

-----------------------------------------------------------------------------
\* What a law leaves behind

RowType == [law : Catalog, scope : Scopes, region : Places,
            isRepeal : BOOLEAN, retiredAt : Maybe(Turns)]
LawType == [billId : Nat, law : Laws, scope : Scopes,
            region : Places, retiredAt : Maybe(Turns)]
Live(r) == r.retiredAt = Never

TypeLaws ==
    /\ \A n \in DOMAIN policyLedger : policyLedger[n] \in RowType
    /\ enactedLaws \in Seq(LawType)

RowsNameBills ==
    \A n \in DOMAIN policyLedger :
        /\ n \in DOMAIN bills /\ IsSigned(n)
        /\ Key(policyLedger[n]) = BillKey(bills[n])
        /\ policyLedger[n].isRepeal = bills[n].repeals
LawsNameBills ==
    \A m \in DOMAIN enactedLaws :
        /\ enactedLaws[m].billId \in DOMAIN bills /\ IsSigned(enactedLaws[m].billId)
        /\ Key(enactedLaws[m]) = BillKey(bills[enactedLaws[m].billId])

LawInv == TypeLaws /\ RowsNameBills /\ LawsNameBills /\ LastSignedRules /\ StoresAgree

LawsKept ==
    /\ \A n \in DOMAIN policyLedger :
        /\ n \in DOMAIN policyLedger'
        /\ policyLedger[n].retiredAt # Never => policyLedger'[n] = policyLedger[n]
    /\ \A m \in DOMAIN enactedLaws :
        /\ m \in DOMAIN enactedLaws'
        /\ enactedLaws[m].retiredAt # Never => enactedLaws'[m] = enactedLaws[m]

\* Retiring what has key k keeps what a row is about, and leaves it live
\* exactly if it was and its key is another one.
LEMMA RetireRow ==
    ASSUME turn \in Turns, NEW r \in RowType, NEW k
    PROVE  /\ RetireSame(r, k) \in RowType
           /\ Key(RetireSame(r, k)) = Key(r)
           /\ RetireSame(r, k).isRepeal = r.isRepeal
           /\ Live(RetireSame(r, k)) <=> Live(r) /\ Key(r) # k
           /\ ~ Live(r) => RetireSame(r, k) = r
<1>1. turn # Never /\ turn \in Maybe(Turns)
  BY BoundsAssumption DEF Turns, Never, Maybe
<1>2. CASE Key(r) = k /\ Live(r)
  <2>1. RetireSame(r, k) = [r EXCEPT !.retiredAt = turn]
    BY <1>2 DEF RetireSame, Retired, Live
  <2> QED BY <1>1, <1>2, <2>1 DEF RowType, Key, Live
<1>3. CASE ~ (Key(r) = k /\ Live(r))
  BY <1>3 DEF RetireSame, Live
<1> QED BY <1>2, <1>3

LEMMA RetireLaw ==
    ASSUME turn \in Turns, NEW r \in LawType, NEW k
    PROVE  /\ RetireSame(r, k) \in LawType
           /\ Key(RetireSame(r, k)) = Key(r)
           /\ RetireSame(r, k).billId = r.billId
           /\ Live(RetireSame(r, k)) <=> Live(r) /\ Key(r) # k
           /\ ~ Live(r) => RetireSame(r, k) = r
<1>1. turn # Never /\ turn \in Maybe(Turns)
  BY BoundsAssumption DEF Turns, Never, Maybe
<1>2. CASE Key(r) = k /\ Live(r)
  <2>1. RetireSame(r, k) = [r EXCEPT !.retiredAt = turn]
    BY <1>2 DEF RetireSame, Retired, Live
  <2> QED BY <1>1, <1>2, <2>1 DEF LawType, Key, Live
<1>3. CASE ~ (Key(r) = k /\ Live(r))
  BY <1>3 DEF RetireSame, Live
<1> QED BY <1>2, <1>3

\* The ledger once bill n took effect: its own row is live, and of the others
\* those with its key are retired.
LEMMA LedgerAfter ==
    ASSUME turn \in Turns, TypeLaws, NEW b \in BillType, NEW n,
           n \notin DOMAIN policyLedger, Enact(b, n)
    PROVE  /\ DOMAIN policyLedger'
                = DOMAIN policyLedger \cup {m \in {n} : b.law \in Catalog}
           /\ \A m \in DOMAIN policyLedger :
                /\ policyLedger'[m] \in RowType
                /\ Key(policyLedger'[m]) = Key(policyLedger[m])
                /\ policyLedger'[m].isRepeal = policyLedger[m].isRepeal
                /\ Live(policyLedger'[m])
                     <=> Live(policyLedger[m]) /\ Key(policyLedger[m]) # BillKey(b)
                /\ ~ Live(policyLedger[m]) => policyLedger'[m] = policyLedger[m]
           /\ b.law \in Catalog =>
                /\ policyLedger'[n] \in RowType
                /\ Key(policyLedger'[n]) = BillKey(b)
                /\ policyLedger'[n].isRepeal = b.repeals
                /\ Live(policyLedger'[n])
<1>1. policyLedger' = LedgerWith(b, n)
  BY DEF Enact
<1>2. CASE b.law \notin Catalog
  <2>1. policyLedger' = policyLedger
    BY <1>1, <1>2 DEF LedgerWith
  <2>2. \A m \in DOMAIN policyLedger : Key(policyLedger[m]) # BillKey(b)
    BY <1>2 DEF TypeLaws, RowType, Key, BillKey
  <2> QED BY <1>2, <2>1, <2>2 DEF TypeLaws
<1>3. CASE b.law \in Catalog
  <2>1. /\ DOMAIN policyLedger' = DOMAIN policyLedger \cup {n}
        /\ policyLedger'[n] = Row(b)
        /\ \A m \in DOMAIN policyLedger :
            policyLedger'[m] = RetireSame(policyLedger[m], BillKey(b))
    BY <1>1, <1>3 DEF LedgerWith
  <2>2. /\ Row(b) \in RowType /\ Key(Row(b)) = BillKey(b)
        /\ Row(b).isRepeal = b.repeals /\ Live(Row(b))
    BY <1>3 DEF Row, RowType, BillType, Key, BillKey, Live, ScopeOf, Scopes, Maybe
  <2>3. \A m \in DOMAIN policyLedger : policyLedger[m] \in RowType
    BY DEF TypeLaws
  <2> QED BY <1>3, <2>1, <2>2, <2>3, RetireRow
<1> QED BY <1>2, <1>3

\* The laws of the land once bill n took effect: a law of its own at the end,
\* unless it repeals one, and of the others those with its key retired.
LEMMA LawsAfter ==
    ASSUME turn \in Turns, TypeLaws, NEW b \in BillType, NEW n \in Nat, Enact(b, n)
    PROVE  LET new == Len(enactedLaws) + 1
               repeal == b.repeals /\ b.law \in Catalog
           IN /\ enactedLaws' \in Seq(LawType)
              /\ new \notin DOMAIN enactedLaws
              /\ DOMAIN enactedLaws' = DOMAIN enactedLaws \cup {m \in {new} : ~ repeal}
              /\ \A m \in DOMAIN enactedLaws :
                  /\ Key(enactedLaws'[m]) = Key(enactedLaws[m])
                  /\ enactedLaws'[m].billId = enactedLaws[m].billId
                  /\ enactedLaws[m].law \in Catalog =>
                        (Live(enactedLaws'[m])
                          <=> Live(enactedLaws[m]) /\ Key(enactedLaws[m]) # BillKey(b))
                  /\ ~ Live(enactedLaws[m]) => enactedLaws'[m] = enactedLaws[m]
              /\ ~ repeal =>
                  /\ enactedLaws'[new].billId = n
                  /\ Key(enactedLaws'[new]) = BillKey(b)
                  /\ Live(enactedLaws'[new])
<1> DEFINE new == Len(enactedLaws) + 1
           kept == IF b.law \notin Catalog THEN enactedLaws
                   ELSE [m \in DOMAIN enactedLaws |->
                           RetireSame(enactedLaws[m], BillKey(b))]
<1>1. /\ enactedLaws \in Seq(LawType) /\ Len(enactedLaws) \in Nat
      /\ DOMAIN enactedLaws = 1 .. Len(enactedLaws)
      /\ \A m \in DOMAIN enactedLaws : enactedLaws[m] \in LawType
      /\ new \notin DOMAIN enactedLaws
  BY DEF TypeLaws
<1>2. /\ DOMAIN kept = DOMAIN enactedLaws
      /\ \A m \in DOMAIN enactedLaws :
          /\ kept[m] \in LawType
          /\ Key(kept[m]) = Key(enactedLaws[m])
          /\ kept[m].billId = enactedLaws[m].billId
          /\ enactedLaws[m].law \in Catalog =>
               (Live(kept[m]) <=> Live(enactedLaws[m]) /\ Key(enactedLaws[m]) # BillKey(b))
          /\ ~ Live(enactedLaws[m]) => kept[m] = enactedLaws[m]
  <2>1. CASE b.law \notin Catalog
    BY <1>1, <2>1 DEF Key, BillKey
  <2>2. CASE b.law \in Catalog
    BY <1>1, <2>2, RetireLaw
  <2> QED BY <2>1, <2>2
<1>3. kept \in Seq(LawType) /\ Len(kept) = Len(enactedLaws)
  <2> HIDE DEF kept
  <2>1. kept \in [1 .. Len(enactedLaws) -> LawType]
    <3>1. kept = [m \in 1 .. Len(enactedLaws) |-> kept[m]]
      <4>1. kept = [m \in DOMAIN enactedLaws |-> kept[m]]
        <5>1. CASE b.law \notin Catalog
          BY <1>1, <5>1 DEF kept
        <5>2. CASE b.law \in Catalog
          BY <5>2 DEF kept
        <5> QED BY <5>1, <5>2
      <4> QED BY <4>1, <1>1
    <3> QED BY <3>1, <1>1, <1>2
  <2> QED BY <2>1, <1>1, SeqDef
<1>4. /\ EnactedLaw(b, n) \in LawType /\ Key(EnactedLaw(b, n)) = BillKey(b)
      /\ EnactedLaw(b, n).billId = n /\ Live(EnactedLaw(b, n))
  BY DEF EnactedLaw, LawType, BillType, Key, BillKey, Live, ScopeOf, Scopes, Maybe
<1>5. CASE b.repeals /\ b.law \in Catalog
  <2>1. enactedLaws' = kept
    BY <1>5 DEF Enact, EnactedWith
  <2> HIDE DEF kept
  <2> QED BY <1>1, <1>2, <1>3, <1>5, <2>1
<1>6. CASE ~ (b.repeals /\ b.law \in Catalog)
  <2>1. enactedLaws' = Append(kept, EnactedLaw(b, n))
    BY <1>6 DEF Enact, EnactedWith
  <2> HIDE DEF kept
  <2>2. /\ enactedLaws' \in Seq(LawType)
        /\ DOMAIN enactedLaws' = DOMAIN enactedLaws \cup {new}
        /\ enactedLaws'[new] = EnactedLaw(b, n)
        /\ \A m \in DOMAIN enactedLaws : enactedLaws'[m] = kept[m]
    BY <1>1, <1>2, <1>3, <1>4, <2>1
  <2> QED BY <1>1, <1>2, <1>4, <1>6, <2>2
<1> QED BY <1>5, <1>6

-----------------------------------------------------------------------------
\* The stores of laws in a step

\* When the bill that is signed last of all takes effect.
LEMMA EnactedLast ==
    ASSUME turn \in Turns, LawInv, NEW b \in BillType, NEW n \in DOMAIN bills',
           DOMAIN bills' \subseteq Nat, DOMAIN bills \subseteq DOMAIN bills',
           n \in DOMAIN bills => ~ IsSigned(n),
           bills'[n] = Signed(b),
           \A m \in DOMAIN bills' \ {n} : m \in DOMAIN bills /\ bills'[m] = bills[m],
           \A m \in DOMAIN bills : IsSigned(m) =>
                /\ bills[m].signedAt \in Nat
                /\ \/ bills[m].signedAt < turn
                   \/ bills[m].signedAt = turn /\ m < n,
           Enact(b, n)
    PROVE  LawInv' /\ LawsKept
<1> DEFINE new == Len(enactedLaws) + 1
           repeal == b.repeals /\ b.law \in Catalog
           k == BillKey(b)
<1>0. n \in Nat /\ turn \in Nat
  BY BoundsAssumption DEF Turns
<1>1. /\ bills'[n].status = "signed" /\ bills'[n].signedAt = turn
      /\ bills'[n].law = b.law /\ bills'[n].repeals = b.repeals
      /\ BillKey(bills'[n]) = k
  BY DEF Signed, BillType, BillKey
<1>2. \A m \in DOMAIN bills : IsSigned(m) => m # n /\ bills'[m] = bills[m]
  OBVIOUS
<1>3. \A m \in DOMAIN bills' :
        bills'[m].status = "signed" <=> m = n \/ (m \in DOMAIN bills /\ IsSigned(m))
  BY <1>1, <1>2 DEF IsSigned
<1>4. n \notin DOMAIN policyLedger
  BY DEF LawInv, RowsNameBills
<1> DEFINE Ledger ==
    /\ DOMAIN policyLedger' = DOMAIN policyLedger \cup {m \in {n} : b.law \in Catalog}
    /\ \A m \in DOMAIN policyLedger :
         /\ policyLedger'[m] \in RowType
         /\ Key(policyLedger'[m]) = Key(policyLedger[m])
         /\ policyLedger'[m].isRepeal = policyLedger[m].isRepeal
         /\ Live(policyLedger'[m]) <=> Live(policyLedger[m]) /\ Key(policyLedger[m]) # k
         /\ ~ Live(policyLedger[m]) => policyLedger'[m] = policyLedger[m]
    /\ b.law \in Catalog =>
         /\ policyLedger'[n] \in RowType
         /\ Key(policyLedger'[n]) = k
         /\ policyLedger'[n].isRepeal = b.repeals
         /\ Live(policyLedger'[n])
<1>5. Ledger
  BY <1>4, LedgerAfter DEF LawInv
<1> DEFINE LawsOf ==
    /\ enactedLaws' \in Seq(LawType) /\ new \notin DOMAIN enactedLaws
    /\ DOMAIN enactedLaws' = DOMAIN enactedLaws \cup {m \in {new} : ~ repeal}
    /\ \A m \in DOMAIN enactedLaws :
         /\ Key(enactedLaws'[m]) = Key(enactedLaws[m])
         /\ enactedLaws'[m].billId = enactedLaws[m].billId
         /\ enactedLaws[m].law \in Catalog =>
              (Live(enactedLaws'[m]) <=> Live(enactedLaws[m]) /\ Key(enactedLaws[m]) # k)
         /\ ~ Live(enactedLaws[m]) => enactedLaws'[m] = enactedLaws[m]
    /\ ~ repeal => /\ enactedLaws'[new].billId = n
                   /\ Key(enactedLaws'[new]) = k
                   /\ Live(enactedLaws'[new])
<1>6. LawsOf
  BY <1>0, LawsAfter DEF LawInv
<1> HIDE DEF new, k
<1>7. /\ \A m \in DOMAIN policyLedger :
            /\ m \in DOMAIN bills /\ IsSigned(m) /\ m # n /\ bills'[m] = bills[m]
            /\ m \in DOMAIN bills'
            /\ Key(policyLedger[m]) = BillKey(bills[m])
            /\ policyLedger[m].isRepeal = bills[m].repeals
            /\ policyLedger[m].law \in Catalog
      /\ \A m \in DOMAIN enactedLaws :
            /\ enactedLaws[m].billId \in DOMAIN bills /\ enactedLaws[m].billId # n
            /\ IsSigned(enactedLaws[m].billId)
            /\ Key(enactedLaws[m]) = BillKey(bills[enactedLaws[m].billId])
            /\ bills'[enactedLaws[m].billId] = bills[enactedLaws[m].billId]
  BY <1>2 DEF LawInv, RowsNameBills, LawsNameBills, TypeLaws, RowType
<1>8. TypeLaws'
  BY <1>5, <1>6 DEF TypeLaws
<1>9. RowsNameBills'
  <2> SUFFICES ASSUME NEW m \in DOMAIN policyLedger'
               PROVE  /\ m \in DOMAIN bills' /\ bills'[m].status = "signed"
                      /\ Key(policyLedger'[m]) = BillKey(bills'[m])
                      /\ policyLedger'[m].isRepeal = bills'[m].repeals
    BY DEF RowsNameBills, IsSigned, Key, BillKey, ScopeOf
  <2>1. CASE m \in DOMAIN policyLedger
    BY <1>5, <1>7, <2>1 DEF IsSigned
  <2>2. CASE m = n /\ b.law \in Catalog
    BY <1>1, <1>5, <2>2
  <2> QED BY <1>5, <2>1, <2>2
<1>10. LawsNameBills'
  <2> SUFFICES ASSUME NEW m \in DOMAIN enactedLaws'
               PROVE  LET i == enactedLaws'[m].billId
                      IN  /\ i \in DOMAIN bills' /\ bills'[i].status = "signed"
                          /\ Key(enactedLaws'[m]) = BillKey(bills'[i])
    BY DEF LawsNameBills, IsSigned, Key, BillKey, ScopeOf
  <2>1. CASE m \in DOMAIN enactedLaws
    BY <1>6, <1>7, <2>1 DEF IsSigned
  <2>2. CASE m = new /\ ~ repeal
    BY <1>1, <1>6, <2>2
  <2> QED BY <1>6, <2>1, <2>2
<1>11. LastSignedRules'
  <2> DEFINE After(i, m) == \/ bills'[i].signedAt > bills'[m].signedAt
                            \/ bills'[i].signedAt = bills'[m].signedAt /\ i > m
  <2> SUFFICES ASSUME NEW m \in DOMAIN bills',
                      bills'[m].law \in Catalog, bills'[m].status = "signed"
               PROVE  /\ m \in DOMAIN policyLedger'
                      /\ Live(policyLedger'[m]) <=>
                          ~ \E i \in DOMAIN bills' :
                              /\ bills'[i].status = "signed"
                              /\ BillKey(bills'[i]) = BillKey(bills'[m])
                              /\ After(i, m)
    BY DEF LastSignedRules, IsSigned, SignedAfter, Live, BillKey, ScopeOf
  <2>1. CASE m = n
    <3>1. \A i \in DOMAIN bills' : bills'[i].status = "signed" => ~ After(i, n)
      <4> TAKE i \in DOMAIN bills'
      <4>1. CASE i = n
        BY <1>0, <1>1, <4>1
      <4>2. CASE i # n /\ i \in DOMAIN bills /\ IsSigned(i)
        <5>1. bills'[i] = bills[i] /\ bills[i].signedAt \in Nat /\ i \in Nat
          BY <4>2
        <5>2. bills[i].signedAt < turn \/ (bills[i].signedAt = turn /\ i < n)
          BY <4>2
        <5> QED BY <1>0, <1>1, <5>1, <5>2
      <4> QED BY <1>3, <4>1, <4>2
    <3>2. b.law \in Catalog
      BY <1>1, <2>1
    <3> QED BY <1>5, <2>1, <3>1, <3>2
  <2>2. CASE m # n
    <3>1. m \in DOMAIN bills /\ IsSigned(m) /\ bills'[m] = bills[m]
      BY <1>2, <1>3, <2>2
    <3>2. /\ m \in DOMAIN policyLedger
          /\ Live(policyLedger[m]) <=>
                ~ \E i \in DOMAIN bills :
                    IsSigned(i) /\ BillKey(bills[i]) = BillKey(bills[m]) /\ SignedAfter(i, m)
      BY <3>1 DEF LawInv, LastSignedRules, Live
    <3>3. After(n, m)
      <4>1. /\ bills[m].signedAt \in Nat /\ m \in Nat
            /\ bills[m].signedAt < turn \/ (bills[m].signedAt = turn /\ m < n)
        BY <3>1
      <4> QED BY <1>0, <1>1, <3>1, <4>1
    <3>4. \A i \in DOMAIN bills : IsSigned(i) =>
            (After(i, m) <=> SignedAfter(i, m)) /\ bills'[i] = bills[i]
      BY <1>2, <3>1 DEF SignedAfter
    <3>5. (\E i \in DOMAIN bills' : /\ bills'[i].status = "signed"
                                    /\ BillKey(bills'[i]) = BillKey(bills'[m])
                                    /\ After(i, m))
          <=> \/ BillKey(bills[m]) = k
              \/ \E i \in DOMAIN bills :
                    IsSigned(i) /\ BillKey(bills[i]) = BillKey(bills[m]) /\ SignedAfter(i, m)
      <4> HIDE DEF After
      <4> QED BY <1>1, <1>3, <3>1, <3>3, <3>4
    <3>6. Live(policyLedger'[m]) <=> Live(policyLedger[m]) /\ BillKey(bills[m]) # k
      BY <1>5, <1>7, <3>2
    <3>7. m \in DOMAIN policyLedger'
      BY <1>5, <3>2
    <3> QED BY <3>2, <3>5, <3>6, <3>7
  <2> QED BY <2>1, <2>2
<1>12. StoresAgree'
  <2>1. ASSUME NEW i \in DOMAIN policyLedger'
        PROVE  Live(policyLedger'[i]) /\ ~ policyLedger'[i].isRepeal <=>
                 \E m \in DOMAIN enactedLaws' :
                    enactedLaws'[m].billId = i /\ Live(enactedLaws'[m])
    <3>1. CASE i = n
      <4>1. b.law \in Catalog
        BY <1>5, <1>7, <3>1
      <4>2. Live(policyLedger'[i]) /\ policyLedger'[i].isRepeal = b.repeals
        BY <1>5, <3>1, <4>1
      <4>3. \A m \in DOMAIN enactedLaws : enactedLaws'[m].billId # n
        BY <1>6, <1>7
      <4>4. b.repeals \in BOOLEAN
        BY DEF BillType
      <4> QED BY <1>6, <3>1, <4>1, <4>2, <4>3, <4>4
    <3>2. CASE i # n
      <4>1. i \in DOMAIN policyLedger
        BY <1>5, <3>2
      <4>2. Live(policyLedger[i]) /\ ~ policyLedger[i].isRepeal <=>
              \E m \in DOMAIN enactedLaws :
                 enactedLaws[m].billId = i /\ Live(enactedLaws[m])
        BY <4>1 DEF LawInv, StoresAgree, Live
      <4>3. \A m \in DOMAIN enactedLaws : enactedLaws[m].billId = i =>
              /\ Key(enactedLaws[m]) = Key(policyLedger[i])
              /\ enactedLaws[m].law \in Catalog
        BY <1>7, <4>1 DEF Key
      <4>4. (\E m \in DOMAIN enactedLaws' :
                enactedLaws'[m].billId = i /\ Live(enactedLaws'[m]))
            <=> \E m \in DOMAIN enactedLaws :
                  enactedLaws[m].billId = i /\ Live(enactedLaws[m]) /\ Key(policyLedger[i]) # k
        BY <1>6, <3>2, <4>3
      <4> QED BY <1>5, <4>1, <4>2, <4>4
    <3> QED BY <3>1, <3>2
  <2>2. ASSUME NEW l \in DOMAIN enactedLaws', NEW m \in DOMAIN enactedLaws',
               enactedLaws'[l].billId = enactedLaws'[m].billId
        PROVE  l = m
    BY <1>6, <1>7, <2>2 DEF LawInv, StoresAgree
  <2> QED BY <2>1, <2>2 DEF StoresAgree, Live
<1>13. LawsKept
  BY <1>5, <1>6 DEF LawsKept, Live
<1> QED BY <1>8, <1>9, <1>10, <1>11, <1>12, <1>13 DEF LawInv

\* When no bill takes effect, and every bill stays what the stores say it is.
LEMMA NothingEnacted ==
    ASSUME LawInv, NoLawChanges, DOMAIN bills \subseteq DOMAIN bills',
           \A m \in DOMAIN bills : SameLaw(bills[m], bills'[m]),
           \A m \in DOMAIN bills' : m \in DOMAIN bills \/ bills'[m].status # "signed"
    PROVE  LawInv' /\ LawsKept
<1>1. policyLedger' = policyLedger /\ enactedLaws' = enactedLaws
  BY DEF NoLawChanges
<1>2. \A m \in DOMAIN bills :
        /\ bills'[m].law = bills[m].law /\ BillKey(bills'[m]) = BillKey(bills[m])
        /\ bills'[m].repeals = bills[m].repeals
        /\ bills'[m].signedAt = bills[m].signedAt
        /\ bills'[m].status = "signed" <=> IsSigned(m)
  BY DEF SameLaw, BillKey, IsSigned
<1>3. \A m \in DOMAIN bills' :
        bills'[m].status = "signed" <=> m \in DOMAIN bills /\ IsSigned(m)
  BY <1>2
<1>4. TypeLaws' /\ StoresAgree'
  BY <1>1 DEF LawInv, TypeLaws, StoresAgree
<1>5. RowsNameBills'
  <2> SUFFICES ASSUME NEW m \in DOMAIN policyLedger
               PROVE  /\ m \in DOMAIN bills' /\ bills'[m].status = "signed"
                      /\ Key(policyLedger[m]) = BillKey(bills'[m])
                      /\ policyLedger[m].isRepeal = bills'[m].repeals
    BY <1>1 DEF RowsNameBills, IsSigned, Key, BillKey, ScopeOf
  <2> QED BY <1>2 DEF LawInv, RowsNameBills
<1>6. LawsNameBills'
  <2> SUFFICES ASSUME NEW m \in DOMAIN enactedLaws
               PROVE  LET i == enactedLaws[m].billId
                      IN  /\ i \in DOMAIN bills' /\ bills'[i].status = "signed"
                          /\ Key(enactedLaws[m]) = BillKey(bills'[i])
    BY <1>1 DEF LawsNameBills, IsSigned, Key, BillKey, ScopeOf
  <2> QED BY <1>2 DEF LawInv, LawsNameBills
<1>7. LastSignedRules'
  <2> SUFFICES ASSUME NEW m \in DOMAIN bills',
                      bills'[m].law \in Catalog, bills'[m].status = "signed"
               PROVE  /\ m \in DOMAIN policyLedger
                      /\ Live(policyLedger[m]) <=>
                          ~ \E i \in DOMAIN bills' :
                              /\ bills'[i].status = "signed"
                              /\ BillKey(bills'[i]) = BillKey(bills'[m])
                              /\ \/ bills'[i].signedAt > bills'[m].signedAt
                                 \/ bills'[i].signedAt = bills'[m].signedAt /\ i > m
    BY <1>1 DEF LastSignedRules, IsSigned, SignedAfter, Live, BillKey, ScopeOf
  <2>1. m \in DOMAIN bills /\ IsSigned(m) /\ bills[m].law \in Catalog
    BY <1>2, <1>3
  <2>2. /\ m \in DOMAIN policyLedger
        /\ Live(policyLedger[m]) <=>
              ~ \E i \in DOMAIN bills :
                  IsSigned(i) /\ BillKey(bills[i]) = BillKey(bills[m]) /\ SignedAfter(i, m)
    BY <2>1 DEF LawInv, LastSignedRules, Live
  <2> QED BY <1>2, <1>3, <2>1, <2>2 DEF SignedAfter
<1> QED BY <1>1, <1>4, <1>5, <1>6, <1>7 DEF LawInv, LawsKept

-----------------------------------------------------------------------------
\* The inductive invariant

TypeBills ==
    /\ turn \in Turns /\ stage \in {"player", "signing"}
    /\ office \in TypesOfOffice /\ seat \in Seats \cup {Vacant}
    /\ nationalInfluence \in Nat
    /\ bills \in Seq(BillType)

BillsGood == \A n \in DOMAIN bills : GoodBill(bills[n], turn, stage)

\* Within a turn the bills still to be signed come after those already signed.
InOrder ==
    stage = "signing" =>
        \A m, n \in DOMAIN bills :
            IsSigned(m) /\ bills[m].signedAt = turn /\ Expired(n) => m < n

IInv == TypeBills /\ BillsGood /\ InOrder /\ LawInv /\ ChargesComeBackOnce

Kept ==
    /\ LawsKept
    /\ \A n \in DOMAIN bills :
        /\ n \in DOMAIN bills'
        /\ ~ Unresolved(bills[n]) => bills'[n] = bills[n]

Sunk == {n \in DOMAIN bills : bills[n].npiCost > 0 /\ ~ IsSigned(n)}

\* The office never changes, so what a decree is does not either.
LEMMA GoodNext ==
    ASSUME office' = office,
           \A n \in DOMAIN bills' : GoodBill(bills'[n], turn', stage')
    PROVE  BillsGood'
<1>1. ASSUME NEW n \in DOMAIN bills'
      PROVE  GoodBill(bills'[n], turn', stage')
  OBVIOUS
<1> QED BY <1>1 DEF BillsGood, GoodBill, Voted, InTime, Charged, IsDecree, Route,
           LifeSpan, Carried, OnCloture

LEMMA SunkFinite ==
    ASSUME TypeBills
    PROVE  /\ DOMAIN bills = 1 .. Len(bills) /\ Len(bills) \in Nat
           /\ \A n \in DOMAIN bills : bills[n] \in BillType /\ n \in Nat
           /\ IsFiniteSet(Sunk) /\ Cardinality(Sunk) \in Nat
<1>1. /\ DOMAIN bills = 1 .. Len(bills) /\ Len(bills) \in Nat
      /\ \A n \in DOMAIN bills : bills[n] \in BillType /\ n \in Nat
  BY DEF TypeBills
<1>2. IsFiniteSet(1 .. Len(bills)) /\ Sunk \subseteq 1 .. Len(bills)
  BY <1>1, FS_Interval DEF Sunk
<1>3. IsFiniteSet(Sunk)
  BY <1>2, FS_Subset
<1> QED BY <1>1, <1>3, FS_CardinalityType

\* What was charged for a bill is what its signing returns.
LEMMA SignedBill ==
    ASSUME NEW b \in BillType, Charged(b), turn \in Turns
    PROVE  /\ Signed(b) \in BillType /\ Signed(b).status = "signed"
           /\ Signed(b).signedAt = turn /\ Signed(b).filedAt = b.filedAt
           /\ Signed(b).npiCost = b.npiCost /\ Signed(b).filibuster = b.filibuster
           /\ Signed(b).sponsor = b.sponsor /\ Signed(b).repeals = b.repeals
           /\ Signed(b).votes = b.votes /\ Signed(b).otherVotes = b.otherVotes
           /\ Route(Signed(b)) = Route(b)
           /\ Refund(b) = b.npiCost
<1>1. /\ Signed(b) \in BillType /\ Signed(b).status = "signed"
      /\ Signed(b).signedAt = turn /\ Signed(b).filedAt = b.filedAt
      /\ Signed(b).npiCost = b.npiCost /\ Signed(b).filibuster = b.filibuster
      /\ Signed(b).sponsor = b.sponsor /\ Signed(b).repeals = b.repeals
      /\ Signed(b).votes = b.votes /\ Signed(b).otherVotes = b.otherVotes
      /\ Signed(b).origin = b.origin
      /\ Signed(b).refunded = (b.sponsor = "player" /\ ~ b.repeals)
  BY DEF Signed, BillType, Maybe, Statuses
<1>2. b.npiCost = 0 \/ (b.npiCost > 0 /\ b.sponsor = "player" /\ ~ b.repeals)
  BY DEF Charged, BillType, FIRST_PROVISION_NPI_COST
<1> QED BY <1>1, <1>2 DEF Refund, Route

\* A new bill joins the list, and is law at once if it is a decree.
LEMMA FilesBill ==
    ASSUME IInv, NEW b \in BillType, NEW decree \in BOOLEAN,
           stage = "player", File(b, decree),
           b.filedAt = turn, b.filibuster = FALSE, b.status # "signed",
           b.status \notin {"active_other", "enrolled"},
           b.npiCost <= nationalInfluence,
           Charged(b), InTime(b, turn, "player"),
           decree => office # "career" /\ b.sponsor = "player"
    PROVE  IInv' /\ Kept
<1> DEFINE n == Len(bills) + 1
           x == IF decree THEN Signed(b) ELSE b
<1>1. /\ turn' = turn /\ stage' = stage /\ office' = office /\ seat' = seat
      /\ bills' = Append(bills, x)
  BY DEF File
<1>2. /\ DOMAIN bills = 1 .. Len(bills) /\ Len(bills) \in Nat
      /\ \A m \in DOMAIN bills : bills[m] \in BillType /\ m \in Nat
      /\ IsFiniteSet(Sunk) /\ Cardinality(Sunk) \in Nat
      /\ turn \in Turns /\ turn \in Nat /\ nationalInfluence \in Nat
      /\ bills \in Seq(BillType)
  BY SunkFinite, BoundsAssumption DEF IInv, TypeBills, Turns
<1>3. /\ Signed(b) \in BillType /\ Signed(b).status = "signed"
      /\ Signed(b).signedAt = turn /\ Signed(b).filedAt = b.filedAt
      /\ Signed(b).npiCost = b.npiCost /\ Signed(b).filibuster = b.filibuster
      /\ Signed(b).sponsor = b.sponsor /\ Signed(b).repeals = b.repeals
      /\ Refund(b) = b.npiCost
  BY <1>2, SignedBill
<1>4. x \in BillType /\ x.npiCost = b.npiCost /\ (x.status = "signed" <=> decree)
  BY <1>3
<1> HIDE DEF x
<1>5. /\ bills' \in Seq(BillType) /\ n \notin DOMAIN bills /\ n \in Nat
      /\ DOMAIN bills' = DOMAIN bills \cup {n} /\ bills'[n] = x
      /\ \A m \in DOMAIN bills : bills'[m] = bills[m]
  BY <1>1, <1>2, <1>4
<1> HIDE DEF n
<1>6. nationalInfluence' =
        IF decree THEN nationalInfluence ELSE nationalInfluence - b.npiCost
  <2>1. b.npiCost \in Nat
    BY DEF BillType, FIRST_PROVISION_NPI_COST
  <2> QED BY <1>2, <1>3, <2>1 DEF File
<1>7. TypeBills'
  <2>1. b.npiCost \in Nat
    BY DEF BillType, FIRST_PROVISION_NPI_COST
  <2> QED BY <1>1, <1>2, <1>5, <1>6, <2>1 DEF IInv, TypeBills
<1>8. BillsGood'
  <2>1. GoodBill(x, turn, "player")
    <3>1. Charged(x)
      BY <1>3 DEF Charged, x
    <3>2. Voted(x)
      BY <1>3 DEF Voted, IsDecree, x
    <3>3. InTime(x, turn, "player")
      <4>1. CASE decree
        BY <1>2, <1>3, <4>1 DEF InTime, x
      <4>2. CASE ~ decree
        BY <4>2 DEF x
      <4> QED BY <4>1, <4>2
    <3> QED BY <3>1, <3>2, <3>3 DEF GoodBill
  <2>2. \A m \in DOMAIN bills' : GoodBill(bills'[m], turn', stage')
    BY <1>1, <1>5, <2>1 DEF IInv, BillsGood
  <2> QED BY <1>1, <2>2, GoodNext
<1>9. InOrder'
  BY <1>1 DEF InOrder
<1>10. LawInv' /\ LawsKept
  <2>1. CASE decree
    <3>1. Enact(b, n) /\ bills'[n] = Signed(b)
      BY <1>5, <2>1 DEF File, x, n
    <3>2. \A m \in DOMAIN bills : IsSigned(m) =>
            /\ bills[m].signedAt \in Nat
            /\ bills[m].signedAt < turn \/ (bills[m].signedAt = turn /\ m < n)
      <4> SUFFICES ASSUME NEW m \in DOMAIN bills, IsSigned(m)
                   PROVE  /\ bills[m].signedAt \in Nat
                          /\ bills[m].signedAt < turn \/ (bills[m].signedAt = turn /\ m < n)
        OBVIOUS
      <4>1. bills[m].signedAt \in 0 .. turn
        BY DEF IInv, BillsGood, GoodBill, InTime, IsSigned
      <4>2. m < n
        BY <1>2 DEF n
      <4> QED BY <1>2, <4>1, <4>2
    <3>3. \A m \in DOMAIN bills' \ {n} : m \in DOMAIN bills /\ bills'[m] = bills[m]
      BY <1>5
    <3>4. DOMAIN bills' \subseteq Nat /\ DOMAIN bills \subseteq DOMAIN bills'
      BY <1>2, <1>5
    <3> QED BY <1>2, <1>5, <3>1, <3>2, <3>3, <3>4, EnactedLast DEF IInv
  <2>2. CASE ~ decree
    <3>1. NoLawChanges
      BY <2>2 DEF File
    <3>2. \A m \in DOMAIN bills : SameLaw(bills[m], bills'[m])
      BY <1>5 DEF SameLaw
    <3>3. \A m \in DOMAIN bills' : m \in DOMAIN bills \/ bills'[m].status # "signed"
      BY <1>4, <1>5, <2>2
    <3>4. DOMAIN bills \subseteq DOMAIN bills'
      BY <1>5
    <3> QED BY <3>1, <3>2, <3>3, <3>4, NothingEnacted DEF IInv
  <2> QED BY <2>1, <2>2
<1>11. ChargesComeBackOnce'
  <2>1. nationalInfluence + FIRST_PROVISION_NPI_COST * Cardinality(Sunk) = StartInfluence
    BY DEF IInv, ChargesComeBackOnce, Sunk
  <2>2. Sunk' = {m \in DOMAIN bills' : bills'[m].npiCost > 0 /\ bills'[m].status # "signed"}
    BY DEF Sunk, IsSigned
  <2>3. CASE decree \/ b.npiCost = 0
    <3>1. Sunk' = Sunk
      BY <1>4, <1>5, <2>2, <2>3 DEF Sunk, IsSigned
    <3>2. nationalInfluence' = nationalInfluence
      BY <1>2, <1>6, <2>3
    <3>3. nationalInfluence' + FIRST_PROVISION_NPI_COST * Cardinality(Sunk') = StartInfluence
      BY <2>1, <3>1, <3>2
    <3> QED BY <3>3 DEF ChargesComeBackOnce, Sunk
  <2>4. CASE ~ decree /\ b.npiCost = FIRST_PROVISION_NPI_COST
    <3>1. Sunk' = Sunk \cup {n} /\ n \notin Sunk
      BY <1>4, <1>5, <2>2, <2>4 DEF Sunk, IsSigned, FIRST_PROVISION_NPI_COST
    <3>2. Cardinality(Sunk') = Cardinality(Sunk) + 1
      BY <1>2, <3>1, FS_AddElement
    <3>3. nationalInfluence' = nationalInfluence - FIRST_PROVISION_NPI_COST
      BY <1>6, <2>4
    <3>4. nationalInfluence' + FIRST_PROVISION_NPI_COST * Cardinality(Sunk') = StartInfluence
      <4>1. ASSUME NEW c \in Nat, NEW i \in Nat
            PROVE  (i - 5) + 5 * (c + 1) = i + 5 * c
        OBVIOUS
      <4>2. (nationalInfluence - 5) + 5 * (Cardinality(Sunk) + 1) = StartInfluence
        BY <1>2, <2>1, <4>1 DEF FIRST_PROVISION_NPI_COST
      <4> QED BY <3>2, <3>3, <4>2 DEF FIRST_PROVISION_NPI_COST
    <3> QED BY <3>4 DEF ChargesComeBackOnce, Sunk
  <2> QED BY <2>3, <2>4 DEF BillType
<1>12. Kept
  BY <1>5, <1>10 DEF Kept
<1> QED BY <1>7, <1>8, <1>9, <1>10, <1>11, <1>12 DEF IInv

-----------------------------------------------------------------------------
\* What the player does

LEMMA SponsorBillKeeps ==
    ASSUME IInv, NEW law \in Catalog, NEW region \in Places, NEW origin \in Seats,
           SponsorBill(law, region, origin)
    PROVE  IInv' /\ Kept
<1> DEFINE b == Filed(law, region, FALSE, "player", origin, FIRST_PROVISION_NPI_COST)
           decree == office # "career"
<1>1. turn \in Turns /\ turn \in Nat /\ stage = "player" /\ law \in Laws
  BY BoundsAssumption, LawsAssumption DEF IInv, TypeBills, Turns, SponsorBill, MayFile
<1>2. /\ b \in BillType /\ b.filedAt = turn /\ b.filibuster = FALSE
      /\ b.status = "proposed" /\ b.npiCost = FIRST_PROVISION_NPI_COST
      /\ b.sponsor = "player" /\ b.repeals = FALSE
  BY <1>1 DEF Filed, BillType, Maybe, Statuses
<1>3. File(b, decree) /\ FIRST_PROVISION_NPI_COST <= nationalInfluence /\ decree \in BOOLEAN
  BY DEF SponsorBill, IInv, TypeBills, FIRST_PROVISION_NPI_COST
<1> HIDE DEF b, decree
<1>4. Charged(b) /\ InTime(b, turn, "player")
  BY <1>1, <1>2 DEF Charged, InTime
<1> QED BY <1>1, <1>2, <1>3, <1>4, FilesBill DEF decree

LEMMA RepealLawKeeps ==
    ASSUME IInv, NEW law \in Laws, NEW region \in Places, RepealLaw(law, region)
    PROVE  IInv' /\ Kept
<1> DEFINE b == Filed(law, region, TRUE, "player", Chambers[1], 0)
           decree == office # "career"
<1>1. turn \in Turns /\ turn \in Nat /\ stage = "player" /\ nationalInfluence \in Nat
  BY BoundsAssumption DEF IInv, TypeBills, Turns, RepealLaw, MayFile
<1>2. Chambers[1] \in Seats
  BY LegislatureAssumption DEF Seats
<1>3. /\ b \in BillType /\ b.filedAt = turn /\ b.filibuster = FALSE
      /\ b.status = "proposed" /\ b.npiCost = 0 /\ b.sponsor = "player"
  BY <1>1, <1>2 DEF Filed, BillType, Maybe, Statuses
<1>4. File(b, decree) /\ decree \in BOOLEAN
  BY DEF RepealLaw
<1> HIDE DEF b, decree
<1>5. Charged(b) /\ InTime(b, turn, "player") /\ b.npiCost <= nationalInfluence
  BY <1>1, <1>3 DEF Charged, InTime
<1> QED BY <1>1, <1>3, <1>4, <1>5, FilesBill DEF decree

LEMMA ProposeTariffKeeps ==
    ASSUME IInv, ProposeTariff
    PROVE  IInv' /\ Kept
<1> DEFINE origin == IF office = "sovereign" THEN Chambers[1] ELSE seat
           b == TariffBill(origin)
           decree == office = "sovereign"
<1>1. /\ turn \in Turns /\ turn \in Nat /\ stage = "player"
      /\ nationalInfluence \in Nat /\ Tariff \in Laws
      /\ turn <= MaxTurn /\ MaxTurn \in Nat
  BY BoundsAssumption, LawsAssumption DEF IInv, TypeBills, Turns, ProposeTariff, MayFile
<1>2. origin \in Seats
  BY LegislatureAssumption DEF Seats, ProposeTariff, IInv, TypeBills
<1>3. File(b, decree) /\ decree \in BOOLEAN /\ (decree => office # "career")
  BY DEF ProposeTariff
<1> HIDE DEF origin, decree
<1>4. turn + 2 \in Maybe(0 .. MaxTurn + VOTING_TURNS) /\ turn + VOTING_TURNS = turn + 2
  BY <1>1 DEF Maybe, VOTING_TURNS
<1>5. /\ b \in BillType /\ b.filedAt = turn /\ b.filibuster = FALSE
      /\ b.status = "active" /\ b.npiCost = 0 /\ b.sponsor = "player"
      /\ b.deadline = turn + 2 /\ b.chamber = origin /\ b.origin = origin
  BY <1>1, <1>2, <1>4 DEF TariffBill, Filed, BillType, Maybe, Statuses, Places
<1> HIDE DEF b
<1>6. Charged(b) /\ b.npiCost <= nationalInfluence
  BY <1>1, <1>5 DEF Charged
<1>7. Route(b)[1] = origin
  BY <1>2, <1>5, Routes
<1>8. InTime(b, turn, "player")
  BY <1>1, <1>5, <1>7 DEF InTime, VOTING_TURNS
<1> QED BY <1>1, <1>3, <1>5, <1>6, <1>8, FilesBill

LEMMA InvokeFilibusterKeeps ==
    ASSUME IInv, NEW n \in DOMAIN bills, InvokeFilibuster(n)
    PROVE  IInv' /\ Kept
<1>1. /\ turn' = turn /\ stage' = stage /\ office' = office /\ seat' = seat
      /\ nationalInfluence' = nationalInfluence /\ NoLawChanges
      /\ stage = "player" /\ bills[n].chamber = Senate
      /\ bills[n].status \in {"active", "active_other"}
      /\ bills' = [bills EXCEPT ![n].filibuster = TRUE]
  BY DEF InvokeFilibuster
<1>2. bills \in Seq(BillType) /\ bills[n] \in BillType
  BY DEF IInv, TypeBills
<1> DEFINE c == [bills[n] EXCEPT !.filibuster = TRUE]
<1>3. /\ bills' \in Seq(BillType) /\ DOMAIN bills' = DOMAIN bills /\ bills'[n] = c
      /\ \A m \in DOMAIN bills \ {n} : bills'[m] = bills[m]
  <2>1. c \in BillType
    BY <1>2 DEF BillType
  <2>2. bills' = [bills EXCEPT ![n] = c]
    BY <1>1
  <2> HIDE DEF c
  <2> QED BY <1>2, <2>1, <2>2, ExceptSeq
<1>4. /\ SameLaw(bills[n], c) /\ c.filibuster = TRUE /\ Route(c) = Route(bills[n])
      /\ c.chamber = bills[n].chamber /\ c.status = bills[n].status
      /\ c.filedAt = bills[n].filedAt /\ c.deadline = bills[n].deadline
      /\ c.votes = bills[n].votes /\ c.sponsor = bills[n].sponsor
      /\ c.npiCost = bills[n].npiCost /\ c.repeals = bills[n].repeals
  BY <1>1, <1>2 DEF BillType, SameLaw, Unresolved, Route
<1> HIDE DEF c
<1>5. GoodBill(bills[n], turn, "player")
  BY <1>1 DEF IInv, BillsGood
<1>6. /\ Len(Chambers) = 2 => Route(c)[2] # Route(c)[1]
      /\ bills[n].status = "active" => Route(c)[1] = Senate
      /\ bills[n].status = "active_other" => Len(Chambers) = 2 /\ Route(c)[2] = Senate
  BY <1>1, <1>2, <1>4, <1>5, Routes DEF BillType, GoodBill, InTime
<1>7. GoodBill(c, turn, "player")
  <2>1. Voted(c)
    <3>1. Voted(bills[n])
      BY <1>5 DEF GoodBill
    <3>2. \/ Route(c)[1] = Senate
          \/ Len(Chambers) = 2 /\ Route(c)[2] = Senate
      BY <1>1, <1>6
    <3>3. c.status = "active_other" =>
            Carried(c.votes) /\ Route(c)[1] # Senate
      BY <1>4, <1>6, <3>1 DEF Voted
    <3> QED BY <1>1, <1>4, <3>2, <3>3 DEF Voted
  <2>2. InTime(c, turn, "player") /\ Charged(c)
    BY <1>1, <1>4, <1>5 DEF GoodBill, InTime, Charged
  <2> QED BY <2>1, <2>2 DEF GoodBill
<1>8. \A m \in DOMAIN bills : SameLaw(bills[m], bills'[m])
  BY <1>3, <1>4 DEF SameLaw
<1>9. TypeBills' /\ InOrder'
  BY <1>1, <1>3 DEF IInv, TypeBills, InOrder
<1>10. BillsGood'
  <2>1. \A m \in DOMAIN bills' : GoodBill(bills'[m], turn', stage')
    BY <1>1, <1>3, <1>7 DEF IInv, BillsGood
  <2> QED BY <1>1, <2>1, GoodNext
<1>11. LawInv' /\ LawsKept
  BY <1>1, <1>3, <1>8, NothingEnacted DEF IInv
<1>12. ChargesComeBackOnce'
  <2>1. Sunk' = Sunk
    BY <1>3, <1>8 DEF Sunk, SameLaw, IsSigned
  <2>2. nationalInfluence + FIRST_PROVISION_NPI_COST * Cardinality(Sunk) = StartInfluence
    BY DEF IInv, ChargesComeBackOnce, Sunk
  <2>3. nationalInfluence' + FIRST_PROVISION_NPI_COST * Cardinality(Sunk') = StartInfluence
    BY <1>1, <2>1, <2>2
  <2> QED BY <2>3 DEF ChargesComeBackOnce, Sunk
<1>13. Kept
  BY <1>3, <1>8, <1>11 DEF Kept, SameLaw
<1> QED BY <1>9, <1>10, <1>11, <1>12, <1>13 DEF IInv

-----------------------------------------------------------------------------
\* The turn

\* A bill an NPP files as the turn begins.
Fresh(b) ==
    /\ b \in BillType /\ b.status = "proposed" /\ b.filedAt = turn + 1
    /\ b.filibuster = FALSE /\ b.npiCost = 0

\* Every bill, the new one included, takes the step its deadline calls for.
LEMMA BillsAdvance ==
    ASSUME IInv, turn' = turn + 1, turn + 1 \in Turns,
           stage = "player", stage' = "signing", office' = office, seat' = seat,
           nationalInfluence' = nationalInfluence, NoLawChanges,
           NEW all \in Seq(BillType), DOMAIN bills \subseteq DOMAIN all,
           \A m \in DOMAIN all : IF m \in DOMAIN bills THEN all[m] = bills[m] ELSE Fresh(all[m]),
           NEW ballot \in [{n \in DOMAIN all : Closing(all[n], turn + 1)} -> Tallies],
           bills' = [n \in DOMAIN all |->
                       Advanced(all[n],
                                IF n \in DOMAIN ballot THEN ballot[n] ELSE NoTally,
                                turn + 1)]
    PROVE  IInv' /\ Kept
<1>1. turn \in Turns /\ turn \in Nat
  BY BoundsAssumption DEF IInv, TypeBills, Turns
<1>7. /\ DOMAIN bills \subseteq DOMAIN all
      /\ \A m \in DOMAIN all : IF m \in DOMAIN bills THEN all[m] = bills[m] ELSE Fresh(all[m])
  OBVIOUS
<1> DEFINE T(m) == IF m \in DOMAIN ballot THEN ballot[m] ELSE NoTally
<1>8. /\ DOMAIN all = 1 .. Len(all) /\ Len(all) \in Nat
      /\ \A m \in DOMAIN all : all[m] \in BillType
  OBVIOUS
<1>9. \A m \in DOMAIN all :
        T(m) \in Tallies \cup {NoTally} /\ (Closing(all[m], turn + 1) => T(m) \in Tallies)
  OBVIOUS
<1>10. DOMAIN bills' = DOMAIN all
       /\ \A m \in DOMAIN all : bills'[m] = Advanced(all[m], T(m), turn + 1)
  OBVIOUS
<1> HIDE DEF T
<1>11. ASSUME NEW m \in DOMAIN all
       PROVE  /\ bills'[m] \in BillType /\ GoodBill(bills'[m], turn', stage')
              /\ SameLaw(all[m], bills'[m])
  <2>1. \/ GoodBill(all[m], turn, "player")
        \/ /\ all[m].status = "proposed" /\ all[m].filedAt = turn + 1
           /\ all[m].filibuster = FALSE /\ Charged(all[m])
    <3>1. CASE m \in DOMAIN bills
      BY <1>1, <1>7, <3>1 DEF IInv, BillsGood
    <3>2. CASE m \notin DOMAIN bills
      BY <1>7, <3>2 DEF Fresh, Charged
    <3> QED BY <3>1, <3>2
  <2> QED BY <1>1, <1>8, <1>9, <1>10, <2>1, AdvancedBill
<1>12. bills' \in Seq(BillType)
  <2>1. bills' = [m \in 1 .. Len(all) |-> bills'[m]]
    BY <1>8, <1>10
  <2>2. bills' \in [1 .. Len(all) -> BillType]
    BY <1>8, <1>11, <2>1
  <2> QED BY <1>8, <2>2, SeqDef
<1>13. /\ DOMAIN bills \subseteq DOMAIN bills'
       /\ \A m \in DOMAIN bills : SameLaw(bills[m], bills'[m])
       /\ \A m \in DOMAIN bills' \ DOMAIN bills :
            bills'[m].status # "signed" /\ bills'[m].npiCost = 0
  BY <1>7, <1>10, <1>11 DEF SameLaw, Fresh
<1>14. TypeBills'
  BY <1>1, <1>12 DEF IInv, TypeBills
<1>15. BillsGood'
  BY <1>1, <1>10, <1>11, GoodNext
<1>16. InOrder'
  <2> SUFFICES ASSUME NEW m \in DOMAIN bills', bills'[m].status = "signed",
                      bills'[m].signedAt = turn + 1
               PROVE  FALSE
    BY <1>1 DEF InOrder, IsSigned
  <2>1. m \in DOMAIN bills /\ bills[m].status = "signed" /\ bills[m].signedAt = turn + 1
    BY <1>13 DEF SameLaw
  <2>2. bills[m].signedAt \in 0 .. turn
    BY <2>1 DEF IInv, BillsGood, GoodBill, InTime
  <2> QED BY <1>1, <2>1, <2>2
<1>17. LawInv' /\ LawsKept
  BY <1>1, <1>13, NothingEnacted DEF IInv
<1>18. ChargesComeBackOnce'
  <2>0. /\ \A m \in DOMAIN bills' : (bills'[m].npiCost > 0 /\ bills'[m].status # "signed")
             <=> m \in Sunk
        /\ Sunk \subseteq DOMAIN bills'
    <3>1. ASSUME NEW m \in DOMAIN bills'
          PROVE  (bills'[m].npiCost > 0 /\ bills'[m].status # "signed") <=> m \in Sunk
      <4>1. CASE m \in DOMAIN bills
        BY <1>13, <4>1 DEF Sunk, SameLaw, IsSigned
      <4>2. CASE m \notin DOMAIN bills
        BY <1>13, <4>2 DEF Sunk
      <4> QED BY <4>1, <4>2
    <3> QED BY <1>13, <3>1 DEF Sunk
  <2>1. Sunk' = Sunk
    BY <2>0 DEF Sunk, IsSigned
  <2>2. nationalInfluence + FIRST_PROVISION_NPI_COST * Cardinality(Sunk) = StartInfluence
    BY DEF IInv, ChargesComeBackOnce, Sunk
  <2>3. nationalInfluence' + FIRST_PROVISION_NPI_COST * Cardinality(Sunk') = StartInfluence
    BY <1>1, <2>1, <2>2
  <2> QED BY <2>3 DEF ChargesComeBackOnce, Sunk
<1>19. Kept
  BY <1>13, <1>17 DEF Kept, SameLaw
<1> QED BY <1>14, <1>15, <1>16, <1>17, <1>18, <1>19 DEF IInv

LEMMA EndTurnKeeps ==
    ASSUME IInv, EndTurn
    PROVE  IInv' /\ Kept
<1>1. /\ turn' = turn + 1 /\ stage = "player" /\ stage' = "signing" /\ office' = office
      /\ seat' = seat /\ nationalInfluence' = nationalInfluence /\ NoLawChanges
      /\ turn < MaxTurn
  BY DEF EndTurn
<1>2. turn \in Turns /\ turn \in Nat /\ turn + 1 \in Turns /\ MaxTurn \in Nat
  BY <1>1, BoundsAssumption DEF IInv, TypeBills, Turns
<1>3. bills \in Seq(BillType) /\ DOMAIN bills = 1 .. Len(bills) /\ Len(bills) \in Nat
  BY DEF IInv, TypeBills
<1>4. \/ BillsMove(bills, turn + 1)
      \/ \E law \in Catalog, origin \in Seats :
            BillsMove(Append(bills, NppBill(law, origin, turn + 1)), turn + 1)
  BY DEF EndTurn
<1>5. ASSUME NEW law \in Catalog, NEW origin \in Seats
      PROVE  Fresh(NppBill(law, origin, turn + 1))
  <2> DEFINE b == Filed(law, National, FALSE, "npp", origin, 0)
             deadline == turn + 1 + VOTING_TURNS
  <2>1. deadline \in Maybe(0 .. MaxTurn + VOTING_TURNS)
    BY <1>1, <1>2 DEF Maybe, VOTING_TURNS
  <2>2. law \in Laws /\ National \in Places
    BY LawsAssumption DEF Places
  <2>3. b \in BillType /\ b.status = "proposed" /\ b.filibuster = FALSE /\ b.npiCost = 0
    BY <1>2, <2>2 DEF Filed, BillType, Maybe, Statuses
  <2> HIDE DEF deadline, b
  <2>4. NppBill(law, origin, turn + 1) = [b EXCEPT !.filedAt = turn + 1, !.deadline = deadline]
    BY DEF NppBill, b, deadline
  <2> QED BY <1>2, <2>1, <2>3, <2>4 DEF Fresh, BillType
<1>6. \E all : /\ all \in Seq(BillType) /\ DOMAIN bills \subseteq DOMAIN all
               /\ \A m \in DOMAIN all :
                    IF m \in DOMAIN bills THEN all[m] = bills[m] ELSE Fresh(all[m])
               /\ BillsMove(all, turn + 1)
  <2>1. CASE BillsMove(bills, turn + 1)
    BY <1>3, <2>1
  <2>2. ASSUME NEW b, Fresh(b), BillsMove(Append(bills, b), turn + 1)
        PROVE  <1>6!:
    <3>1. b \in BillType
      BY <2>2 DEF Fresh
    <3>2. /\ Append(bills, b) \in Seq(BillType)
          /\ DOMAIN Append(bills, b) = DOMAIN bills \cup {Len(bills) + 1}
          /\ Append(bills, b)[Len(bills) + 1] = b
          /\ \A m \in DOMAIN bills : Append(bills, b)[m] = bills[m]
          /\ Len(bills) + 1 \notin DOMAIN bills
      BY <1>3, <3>1
    <3> QED BY <2>2, <3>2
  <2> QED BY <1>4, <1>5, <2>1, <2>2
<1>7. PICK all : /\ all \in Seq(BillType) /\ DOMAIN bills \subseteq DOMAIN all
                 /\ \A m \in DOMAIN all :
                      IF m \in DOMAIN bills THEN all[m] = bills[m] ELSE Fresh(all[m])
                 /\ BillsMove(all, turn + 1)
  BY <1>6
<1>8. PICK ballot \in [{n \in DOMAIN all : Closing(all[n], turn + 1)} -> Tallies] :
        bills' = [n \in DOMAIN all |->
                    Advanced(all[n],
                             IF n \in DOMAIN ballot THEN ballot[n] ELSE NoTally,
                             turn + 1)]
  BY <1>7 DEF BillsMove
<1> QED BY <1>1, <1>2, <1>7, <1>8, BillsAdvance

LEMMA PocketSignKeeps ==
    ASSUME IInv, NEW n \in DOMAIN bills, PocketSign(n)
    PROVE  IInv' /\ Kept
<1> DEFINE c == Signed(bills[n])
<1>1. /\ turn' = turn /\ stage' = stage /\ office' = office /\ seat' = seat
      /\ nationalInfluence' = nationalInfluence + Refund(bills[n])
      /\ stage = "signing" /\ Expired(n) /\ \A m \in 1 .. n - 1 : ~ Expired(m)
      /\ bills' = [bills EXCEPT ![n] = c] /\ Enact(bills[n], n)
  BY DEF PocketSign
<1>2. /\ bills \in Seq(BillType) /\ DOMAIN bills = 1 .. Len(bills) /\ Len(bills) \in Nat
      /\ \A m \in DOMAIN bills : bills[m] \in BillType /\ m \in Nat
      /\ IsFiniteSet(Sunk) /\ Cardinality(Sunk) \in Nat
      /\ turn \in Turns /\ turn \in Nat /\ nationalInfluence \in Nat
  BY SunkFinite, BoundsAssumption DEF IInv, TypeBills, Turns
<1>3. GoodBill(bills[n], turn, "signing") /\ bills[n].status = "enrolled"
  BY <1>1 DEF IInv, BillsGood, Expired
<1>4. /\ c \in BillType /\ c.status = "signed" /\ c.signedAt = turn
      /\ c.filedAt = bills[n].filedAt /\ c.npiCost = bills[n].npiCost
      /\ c.filibuster = bills[n].filibuster /\ c.sponsor = bills[n].sponsor
      /\ c.repeals = bills[n].repeals /\ c.votes = bills[n].votes
      /\ c.otherVotes = bills[n].otherVotes /\ Route(c) = Route(bills[n])
      /\ Refund(bills[n]) = bills[n].npiCost
  BY <1>2, <1>3, SignedBill DEF GoodBill
<1> HIDE DEF c
<1>5. /\ bills' \in Seq(BillType) /\ DOMAIN bills' = DOMAIN bills /\ bills'[n] = c
      /\ \A m \in DOMAIN bills \ {n} : bills'[m] = bills[m]
  BY <1>1, <1>2, <1>4, ExceptSeq
<1>6. GoodBill(c, turn, "signing")
  <2>1. Voted(c)
    BY <1>3, <1>4 DEF GoodBill, Voted
  <2>2. InTime(c, turn, "signing") /\ Charged(c)
    BY <1>2, <1>3, <1>4 DEF GoodBill, InTime, Charged
  <2> QED BY <2>1, <2>2 DEF GoodBill
<1>7. bills[n].npiCost \in Nat
  BY <1>2 DEF BillType, FIRST_PROVISION_NPI_COST
<1>8. TypeBills'
  BY <1>1, <1>2, <1>4, <1>5, <1>7 DEF IInv, TypeBills
<1>9. BillsGood'
  <2>1. \A m \in DOMAIN bills' : GoodBill(bills'[m], turn', stage')
    BY <1>1, <1>5, <1>6 DEF IInv, BillsGood
  <2> QED BY <1>1, <2>1, GoodNext
<1>10. InOrder'
  <2> SUFFICES ASSUME NEW l \in DOMAIN bills', NEW m \in DOMAIN bills',
                      bills'[l].status = "signed", bills'[l].signedAt = turn,
                      bills'[m].status = "enrolled", bills'[m].deadline <= turn
               PROVE  l < m
    BY <1>1 DEF InOrder, IsSigned, Expired
  <2>1. m # n /\ m \in DOMAIN bills /\ Expired(m) /\ l \in Nat /\ m \in Nat /\ n \in Nat
    BY <1>2, <1>4, <1>5 DEF Expired
  <2>2. n < m
    BY <1>1, <1>2, <2>1
  <2>3. CASE l = n
    BY <2>2, <2>3
  <2>4. CASE l # n
    BY <1>1, <1>5, <2>1, <2>4 DEF IInv, InOrder, IsSigned
  <2> QED BY <2>3, <2>4
<1>11. LawInv' /\ LawsKept
  <2>1. \A m \in DOMAIN bills : IsSigned(m) =>
          /\ bills[m].signedAt \in Nat
          /\ bills[m].signedAt < turn \/ (bills[m].signedAt = turn /\ m < n)
    <3> SUFFICES ASSUME NEW m \in DOMAIN bills, IsSigned(m)
                 PROVE  /\ bills[m].signedAt \in Nat
                        /\ bills[m].signedAt < turn \/ (bills[m].signedAt = turn /\ m < n)
      OBVIOUS
    <3>1. bills[m].signedAt \in 0 .. turn
      BY DEF IInv, BillsGood, GoodBill, InTime, IsSigned
    <3>2. bills[m].signedAt = turn => m < n
      BY <1>1 DEF IInv, InOrder
    <3> QED BY <1>2, <3>1, <3>2
  <2>2. ~ IsSigned(n)
    BY <1>3 DEF IsSigned
  <2>3. bills'[n] = Signed(bills[n])
    BY <1>5 DEF c
  <2>4. /\ \A m \in DOMAIN bills' \ {n} : m \in DOMAIN bills /\ bills'[m] = bills[m]
        /\ DOMAIN bills' \subseteq Nat /\ DOMAIN bills \subseteq DOMAIN bills'
        /\ n \in DOMAIN bills'
    BY <1>2, <1>5
  <2> QED BY <1>1, <1>2, <2>1, <2>2, <2>3, <2>4, EnactedLast DEF IInv
<1>12. ChargesComeBackOnce'
  <2>1. nationalInfluence + FIRST_PROVISION_NPI_COST * Cardinality(Sunk) = StartInfluence
    BY DEF IInv, ChargesComeBackOnce, Sunk
  <2>2. CASE bills[n].npiCost = 0
    <3>1. Sunk' = Sunk
      BY <1>4, <1>5, <2>2 DEF Sunk, IsSigned
    <3>2. nationalInfluence' = nationalInfluence
      BY <1>1, <1>2, <1>4, <2>2
    <3>3. nationalInfluence' + FIRST_PROVISION_NPI_COST * Cardinality(Sunk') = StartInfluence
      BY <2>1, <3>1, <3>2
    <3> QED BY <3>3 DEF ChargesComeBackOnce, Sunk
  <2>3. CASE bills[n].npiCost = FIRST_PROVISION_NPI_COST
    <3>1. Sunk' = Sunk \ {n} /\ n \in Sunk
      BY <1>3, <1>4, <1>5, <2>3 DEF Sunk, IsSigned, FIRST_PROVISION_NPI_COST
    <3>2. Cardinality(Sunk') = Cardinality(Sunk) - 1
      BY <1>2, <3>1, FS_RemoveElement
    <3>3. nationalInfluence' = nationalInfluence + FIRST_PROVISION_NPI_COST
      BY <1>1, <1>4, <2>3
    <3>4. nationalInfluence' + FIRST_PROVISION_NPI_COST * Cardinality(Sunk') = StartInfluence
      <4>1. ASSUME NEW k \in Nat, NEW i \in Nat
            PROVE  (i + 5) + 5 * (k - 1) = i + 5 * k
        OBVIOUS
      <4>2. (nationalInfluence + 5) + 5 * (Cardinality(Sunk) - 1) = StartInfluence
        BY <1>2, <2>1, <4>1 DEF FIRST_PROVISION_NPI_COST
      <4> QED BY <3>2, <3>3, <4>2 DEF FIRST_PROVISION_NPI_COST
    <3> QED BY <3>4 DEF ChargesComeBackOnce, Sunk
  <2> QED BY <1>2, <2>2, <2>3 DEF BillType
<1>13. Kept
  BY <1>3, <1>5, <1>11 DEF Kept, Unresolved
<1> QED BY <1>8, <1>9, <1>10, <1>11, <1>12, <1>13 DEF IInv

LEMMA ElectionsKeep ==
    ASSUME IInv, Elections
    PROVE  IInv' /\ Kept
<1>1. /\ turn' = turn /\ office' = office /\ nationalInfluence' = nationalInfluence
      /\ bills' = bills /\ NoLawChanges /\ stage = "signing" /\ stage' = "player"
      /\ seat' \in Seats \cup {Vacant} /\ \A n \in DOMAIN bills : ~ Expired(n)
  BY DEF Elections
<1>2. TypeBills' /\ InOrder'
  BY <1>1 DEF IInv, TypeBills, InOrder
<1>3. BillsGood'
  <2>1. ASSUME NEW n \in DOMAIN bills
        PROVE  GoodBill(bills[n], turn, "player")
    <3>1. GoodBill(bills[n], turn, "signing") /\ bills[n] \in BillType
      BY <1>1 DEF IInv, BillsGood, TypeBills
    <3>2. turn \in Nat /\ bills[n].deadline \in Int
      BY <3>1, BoundsAssumption DEF IInv, TypeBills, Turns, BillType, Maybe, Never, VOTING_TURNS
    <3>3. bills[n].status = "enrolled" => turn < bills[n].deadline
      BY <1>1, <3>2 DEF Expired
    <3>4. InTime(bills[n], turn, "player")
      BY <3>1, <3>3 DEF GoodBill, InTime
    <3> QED BY <3>1, <3>4 DEF GoodBill
  <2> QED BY <1>1, <2>1, GoodNext
<1>4. LawInv' /\ LawsKept
  <2>1. \A m \in DOMAIN bills : SameLaw(bills[m], bills'[m])
    BY <1>1 DEF SameLaw
  <2> QED BY <1>1, <2>1, NothingEnacted DEF IInv
<1>5. ChargesComeBackOnce'
  BY <1>1 DEF IInv, ChargesComeBackOnce, IsSigned
<1>6. Kept
  BY <1>1, <1>4 DEF Kept
<1> QED BY <1>2, <1>3, <1>4, <1>5, <1>6 DEF IInv

-----------------------------------------------------------------------------
\* The invariant holds

LEMMA InitHolds ==
    ASSUME Init
    PROVE  IInv
<1>1. /\ turn = 0 /\ stage = "player" /\ bills = <<>> /\ policyLedger = <<>>
      /\ enactedLaws = <<>> /\ nationalInfluence = StartInfluence
      /\ office \in TypesOfOffice /\ seat \in Seats \cup {Vacant}
  BY DEF Init
<1>2. /\ bills \in Seq(BillType) /\ enactedLaws \in Seq(LawType)
      /\ DOMAIN bills = {} /\ DOMAIN policyLedger = {} /\ DOMAIN enactedLaws = {}
  BY <1>1
<1>3. TypeBills
  BY <1>1, <1>2, BoundsAssumption DEF TypeBills, Turns
<1>4. BillsGood /\ InOrder
  BY <1>2 DEF BillsGood, InOrder
<1>5. LawInv
  BY <1>2 DEF LawInv, TypeLaws, RowsNameBills, LawsNameBills, LastSignedRules, StoresAgree
<1>6. ChargesComeBackOnce
  <2>1. Sunk = {}
    BY <1>2 DEF Sunk
  <2>2. Cardinality(Sunk) = 0
    BY <2>1, FS_EmptySet
  <2>3. nationalInfluence + FIRST_PROVISION_NPI_COST * Cardinality(Sunk) = StartInfluence
    BY <1>1, <2>2, BoundsAssumption DEF FIRST_PROVISION_NPI_COST
  <2> QED BY <2>3 DEF ChargesComeBackOnce, Sunk
<1> QED BY <1>3, <1>4, <1>5, <1>6 DEF IInv

LEMMA NextKeeps ==
    ASSUME IInv, Next
    PROVE  IInv' /\ Kept
<1>1. ASSUME NEW law \in Catalog, NEW region \in Places, NEW origin \in Seats,
             SponsorBill(law, region, origin)
      PROVE  IInv' /\ Kept
  BY <1>1, SponsorBillKeeps
<1>2. CASE ProposeTariff
  BY <1>2, ProposeTariffKeeps
<1>3. ASSUME NEW law \in Laws, NEW region \in Places, RepealLaw(law, region)
      PROVE  IInv' /\ Kept
  BY <1>3, RepealLawKeeps
<1>4. ASSUME NEW n \in DOMAIN bills, InvokeFilibuster(n)
      PROVE  IInv' /\ Kept
  BY <1>4, InvokeFilibusterKeeps
<1>5. CASE EndTurn
  BY <1>5, EndTurnKeeps
<1>6. ASSUME NEW n \in DOMAIN bills, PocketSign(n)
      PROVE  IInv' /\ Kept
  BY <1>6, PocketSignKeeps
<1>7. CASE Elections
  BY <1>7, ElectionsKeep
<1> QED BY <1>1, <1>2, <1>3, <1>4, <1>5, <1>6, <1>7 DEF Next

LEMMA StutterKeeps ==
    ASSUME IInv, UNCHANGED vars
    PROVE  IInv'
<1>1. /\ turn' = turn /\ stage' = stage /\ office' = office /\ seat' = seat
      /\ nationalInfluence' = nationalInfluence /\ bills' = bills
      /\ policyLedger' = policyLedger /\ enactedLaws' = enactedLaws
  BY DEF vars
<1>2. TypeBills' /\ InOrder'
  BY <1>1 DEF IInv, TypeBills, InOrder, IsSigned, Expired
<1>3. BillsGood'
  BY <1>1, GoodNext DEF IInv, BillsGood
<1>4. LawInv'
  BY <1>1 DEF IInv, LawInv, TypeLaws, RowsNameBills, LawsNameBills, LastSignedRules,
              StoresAgree, IsSigned, SignedAfter
<1>5. ChargesComeBackOnce'
  BY <1>1 DEF IInv, ChargesComeBackOnce, IsSigned
<1> QED BY <1>2, <1>3, <1>4, <1>5 DEF IInv

LEMMA Invariance == Spec => []IInv
<1>1. Init => IInv
  BY InitHolds
<1>2. IInv /\ [Next]_vars => IInv'
  BY NextKeeps, StutterKeeps
<1> QED BY <1>1, <1>2, PTL DEF Spec

-----------------------------------------------------------------------------
\* The results

\* Every variable keeps its type, whatever is filed, voted, decreed or repealed,
\* and the player's influence is never overdrawn by what bills cost.
THEOREM TypeCorrect == Spec => []TypeOK
<1>1. IInv => TypeOK
  <2> SUFFICES ASSUME IInv PROVE TypeOK
    OBVIOUS
  <2>1. DOMAIN policyLedger \subseteq DOMAIN bills
    BY DEF IInv, LawInv, RowsNameBills
  <2>2. \A n \in DOMAIN policyLedger : policyLedger[n] \in RowType
    BY DEF IInv, LawInv, TypeLaws
  <2>3. enactedLaws \in Seq(LawType)
    BY DEF IInv, LawInv, TypeLaws
  <2>4. \A m \in DOMAIN enactedLaws : enactedLaws[m].billId \in DOMAIN bills
    BY DEF IInv, LawInv, LawsNameBills
  <2> QED BY <2>1, <2>2, <2>3, <2>4 DEF IInv, TypeBills, TypeOK, RowType, LawType
<1> QED BY <1>1, Invariance, PTL

\* Of the bills on one law in one place, however many the player and the NPPs
\* push through and in whatever order their windows run out, exactly the last
\* one signed has the live row of applyBillEffects.
THEOREM LastSignedWins == Spec => []LastSignedRules
<1>1. IInv => LastSignedRules
  BY DEF IInv, LawInv
<1> QED BY <1>1, Invariance, PTL

\* The laws shown to the player are those the policy ledger applies.
THEOREM LawsAgree == Spec => []StoresAgree
<1>1. IInv => StoresAgree
  BY DEF IInv, LawInv
<1> QED BY <1>1, Invariance, PTL

\* What a bill costs is returned once, when it is signed.
THEOREM InfluenceReturned == Spec => []ChargesComeBackOnce
<1>1. IInv => ChargesComeBackOnce
  BY DEF IInv
<1> QED BY <1>1, Invariance, PTL

\* No law but a decree gets past a chamber, or past a filibuster.
THEOREM LawsWereVoted == Spec => []SignedThroughChambers
<1>1. IInv => SignedThroughChambers
  <2> SUFFICES ASSUME IInv, NEW n \in DOMAIN bills, IsSigned(n), ~ IsDecree(bills[n])
               PROVE  /\ Carried(bills[n].votes)
                      /\ Len(Chambers) = 2 => Carried(bills[n].otherVotes)
                      /\ bills[n].filibuster =>
                           OnCloture(IF Route(bills[n])[1] = Senate
                                     THEN bills[n].votes ELSE bills[n].otherVotes)
    BY DEF SignedThroughChambers
  <2>1. Voted(bills[n])
    BY DEF IInv, BillsGood, GoodBill
  <2> QED BY <2>1 DEF Voted, IsSigned
<1> QED BY <1>1, Invariance, PTL

LEMMA NoneHangs == IInv => NoBillHangs
<1> SUFFICES ASSUME IInv, NEW n \in DOMAIN bills, Unresolved(bills[n])
             PROVE  \/ turn < bills[n].filedAt + LifeSpan
                    \/ stage = "signing" /\ turn = bills[n].filedAt + LifeSpan
  BY DEF NoBillHangs
<1> DEFINE b == bills[n]
<1>1. /\ InTime(b, turn, stage) /\ b \in BillType /\ stage \in {"player", "signing"}
      /\ turn \in Nat
  BY BoundsAssumption DEF IInv, BillsGood, GoodBill, TypeBills, Turns
<1>2. b.filedAt \in Nat /\ b.deadline \in Int /\ b.status \in Statuses
  BY <1>1, BoundsAssumption DEF BillType, Turns, Maybe, Never, VOTING_TURNS
<1> HIDE DEF b
<1>3. Len(Chambers) \in {1, 2}
  BY LegislatureAssumption
<1>4. /\ LifeSpan \in Nat /\ LifeSpan >= 5
      /\ Len(Chambers) = 2 => LifeSpan = 7
  <2>1. CASE Len(Chambers) = 1
    BY <2>1 DEF LifeSpan, VOTING_TURNS, EXEC_WINDOW_TURNS
  <2>2. CASE Len(Chambers) = 2
    BY <2>2 DEF LifeSpan, VOTING_TURNS, EXEC_WINDOW_TURNS
  <2> QED BY <1>3, <2>1, <2>2
<1>5. CASE b.status \in {"proposed", "active"}
  BY <1>1, <1>2, <1>4, <1>5 DEF InTime, VOTING_TURNS, b
<1>6. CASE b.status = "active_other"
  BY <1>1, <1>2, <1>4, <1>6 DEF InTime, VOTING_TURNS, b
<1>7. CASE b.status = "enrolled"
  BY <1>1, <1>2, <1>4, <1>7 DEF InTime, b
<1> QED BY <1>2, <1>5, <1>6, <1>7 DEF Statuses, Unresolved, b

\* Every bill is law or dead once its votes and the executive's window are over.
THEOREM BillsEnd == Spec => []NoBillHangs
BY NoneHangs, Invariance, PTL

\* No step unwrites what was resolved, retired or enacted.
THEOREM HistoryIsKept == Spec => HistoryStays
<1> DEFINE Step ==
    /\ \A n \in DOMAIN policyLedger :
         /\ n \in DOMAIN policyLedger'
         /\ policyLedger[n].retiredAt # Never => policyLedger'[n] = policyLedger[n]
    /\ \A m \in DOMAIN enactedLaws :
         /\ m \in DOMAIN enactedLaws'
         /\ enactedLaws[m].retiredAt # Never => enactedLaws'[m] = enactedLaws[m]
    /\ \A n \in DOMAIN bills :
         /\ n \in DOMAIN bills'
         /\ ~ Unresolved(bills[n]) => bills'[n] = bills[n]
<1>1. IInv /\ [Next]_vars => [Step]_vars
  BY NextKeeps DEF Kept, LawsKept
<1> QED BY <1>1, Invariance, PTL DEF Spec, HistoryStays


-----------------------------------------------------------------------------
\* Bill by bill, legislation is a book of statutes

Book == [n \in DOMAIN bills |-> Measure(n)]

Exclusive == Catalog \X Scopes \X Places

\* What a bill is on, and whether one measure rules there at a time.
LEMMA BillMatter ==
    ASSUME NEW b \in BillType
    PROVE  /\ BillKey(b) \in Laws \X Scopes \X Places
           /\ BillKey(b) \in Exclusive <=> b.law \in Catalog
BY DEF BillType, BillKey, ScopeOf, Scopes, Exclusive

\* A signed bill on a catalogue law has a row, live exactly while it is shown
\* in force if it is no repeal.
LEMMA RowOfSigned ==
    ASSUME IInv, NEW n \in DOMAIN bills, IsSigned(n), bills[n].law \in Catalog
    PROVE  n \in DOMAIN policyLedger
BY DEF IInv, LawInv, LastSignedRules

\* The date a row gets when bill b takes effect.
LEMMA RowUntil ==
    ASSUME turn \in Turns, TypeLaws, NEW b, NEW n, n \notin DOMAIN policyLedger, Enact(b, n),
           NEW k \in DOMAIN policyLedger
    PROVE  /\ k \in DOMAIN policyLedger'
           /\ policyLedger'[k].retiredAt =
                IF /\ b.law \in Catalog /\ policyLedger[k].retiredAt = Never
                   /\ Key(policyLedger[k]) = BillKey(b)
                THEN turn ELSE policyLedger[k].retiredAt
<1>1. policyLedger' = LedgerWith(b, n) /\ policyLedger[k] \in RowType
  BY DEF Enact, TypeLaws
<1>2. CASE b.law \notin Catalog
  BY <1>1, <1>2 DEF LedgerWith
<1>3. CASE b.law \in Catalog
  <2>1. k \in DOMAIN policyLedger' /\ policyLedger'[k] = RetireSame(policyLedger[k], BillKey(b))
    BY <1>1, <1>3 DEF LedgerWith
  <2> QED BY <1>1, <1>3, <2>1 DEF RetireSame, Retired, RowType
<1> QED BY <1>2, <1>3

\* Of the laws shown, those a bill replaces are no longer.
LEMMA LawsLive ==
    ASSUME turn \in Turns, TypeLaws, NEW b \in BillType, NEW n \in Nat, Enact(b, n),
           NEW m \in DOMAIN enactedLaws
    PROVE  Live(enactedLaws'[m]) <=>
             Live(enactedLaws[m]) /\ ~ (b.law \in Catalog /\ Key(enactedLaws[m]) = BillKey(b))
<1>1. m \in DOMAIN enactedLaws' /\ enactedLaws[m] \in LawType
  BY LawsAfter DEF TypeLaws
<1>2. CASE enactedLaws[m].law \in Catalog
  <2>1. Key(enactedLaws[m]) = BillKey(b) => b.law \in Catalog
    BY <1>2 DEF Key, BillKey
  <2> QED BY <1>2, <2>1, LawsAfter
<1>3. CASE enactedLaws[m].law \notin Catalog
  <2>1. b.law \in Catalog => Key(enactedLaws[m]) # BillKey(b)
    BY <1>3 DEF Key, BillKey
  <2>2. enactedLaws'[m] = enactedLaws[m]
    <3> DEFINE kept == IF b.law \notin Catalog THEN enactedLaws
                       ELSE [l \in DOMAIN enactedLaws |-> RetireSame(enactedLaws[l], BillKey(b))]
    <3>1. kept[m] = enactedLaws[m]
      BY <2>1 DEF RetireSame
    <3>2. enactedLaws' = kept \/ enactedLaws' = Append(kept, EnactedLaw(b, n))
      BY DEF Enact, EnactedWith
    <3>3. DOMAIN kept = DOMAIN enactedLaws /\ DOMAIN enactedLaws = 1 .. Len(enactedLaws)
          /\ Len(enactedLaws) \in Nat
      BY DEF TypeLaws
    <3>4. Len(kept) = Len(enactedLaws)
      BY <3>3
    <3> HIDE DEF kept
    <3>5. Append(kept, EnactedLaw(b, n))[m] = kept[m]
      BY <3>3, <3>4
    <3> QED BY <3>1, <3>2, <3>5
  <2> QED BY <2>1, <2>2
<1> QED BY <1>2, <1>3

\* Bill n takes effect, as the measure e: in both stores at once.
LEMMA EntersBook ==
    ASSUME IInv, turn' = turn, NEW b \in BillType, NEW n \in Nat, Enact(b, n),
           n \in DOMAIN bills => ~ IsSigned(n),
           DOMAIN bills' = DOMAIN bills \cup {n}, bills'[n] = Signed(b),
           \A k \in DOMAIN bills \ {n} : bills'[k] = bills[k],
           NEW e, e.matter = BillKey(b), e.ends = b.repeals, e.filed = b.filedAt
    PROVE  Statutes!Enters(n, e)
<1>1. turn \in Turns /\ TypeLaws /\ n \notin DOMAIN policyLedger
  BY DEF IInv, TypeBills, LawInv, RowsNameBills
<1>2. \A k \in DOMAIN bills : bills[k] \in BillType
  BY DEF IInv, TypeBills
<1>3. Measure(n)' = Statutes!Becomes(e, "law", Never)
  <2>1. n \in DOMAIN policyLedger' => policyLedger'[n].retiredAt = Never
    BY <1>1, LedgerAfter DEF Live
  <2>2. /\ bills'[n].status = "signed" /\ bills'[n].repeals = b.repeals
        /\ bills'[n].filedAt = b.filedAt /\ BillKey(bills'[n]) = BillKey(b)
    BY DEF Signed, BillType, BillKey
  <2> QED BY <2>1, <2>2 DEF Measure, Statutes!Becomes
<1>4. \A k \in DOMAIN bills :
        Statutes!Superseded(k, e) <=>
          /\ b.law \in Catalog /\ IsSigned(k) /\ BillKey(bills[k]) = BillKey(b)
          /\ policyLedger[k].retiredAt = Never
  <2> SUFFICES ASSUME NEW k \in DOMAIN bills
               PROVE  Statutes!Superseded(k, e) <=>
                        /\ b.law \in Catalog /\ IsSigned(k) /\ BillKey(bills[k]) = BillKey(b)
                        /\ policyLedger[k].retiredAt = Never
    OBVIOUS
  <2>1. Statutes!Superseded(k, e) <=>
          /\ Measure(k).fate = "law" /\ Measure(k).until = Never
          /\ BillKey(b) \in Exclusive /\ Measure(k).matter = BillKey(b)
    BY DEF Statutes!Superseded, Exclusive
  <2>2. /\ Measure(k).fate = "law" <=> IsSigned(k)
        /\ Measure(k).matter = BillKey(bills[k])
        /\ Measure(k).until = IF k \in DOMAIN policyLedger THEN policyLedger[k].retiredAt
                              ELSE Never
    BY DEF Measure, IsSigned
  <2>3. IsSigned(k) /\ BillKey(bills[k]) = BillKey(b) /\ b.law \in Catalog
           => k \in DOMAIN policyLedger
    <3>1. BillKey(bills[k]) = BillKey(b) => bills[k].law = b.law
      BY DEF BillKey
    <3> QED BY <3>1, RowOfSigned
  <2> QED BY <2>1, <2>2, <2>3, BillMatter
<1>5. \A k \in DOMAIN bills \ {n} :
        Measure(k)' = IF Statutes!Superseded(k, e)
                      THEN Statutes!Becomes(Measure(k), "law", turn) ELSE Measure(k)
  <2> SUFFICES ASSUME NEW k \in DOMAIN bills \ {n}
               PROVE  Measure(k)' = IF Statutes!Superseded(k, e)
                                    THEN Statutes!Becomes(Measure(k), "law", turn)
                                    ELSE Measure(k)
    OBVIOUS
  <2>0. bills'[k] = bills[k]
    OBVIOUS
  <2>1. CASE k \in DOMAIN policyLedger
    <3>1. /\ k \in DOMAIN policyLedger'
          /\ policyLedger'[k].retiredAt =
               IF /\ b.law \in Catalog /\ policyLedger[k].retiredAt = Never
                  /\ Key(policyLedger[k]) = BillKey(b)
               THEN turn ELSE policyLedger[k].retiredAt
      BY <1>1, <2>1, RowUntil
    <3>2. Key(policyLedger[k]) = BillKey(bills[k]) /\ IsSigned(k)
      BY <2>1 DEF IInv, LawInv, RowsNameBills
    <3>3. Statutes!Superseded(k, e) <=>
            /\ b.law \in Catalog /\ policyLedger[k].retiredAt = Never
            /\ Key(policyLedger[k]) = BillKey(b)
      BY <1>4, <3>2
    <3> QED BY <2>0, <2>1, <3>1, <3>2, <3>3 DEF Measure, Statutes!Becomes, IsSigned
  <2>2. CASE k \notin DOMAIN policyLedger
    <3>1. k \notin DOMAIN policyLedger'
      BY <1>1, <2>2, LedgerAfter
    <3>2. ~ Statutes!Superseded(k, e)
      <4>1. IsSigned(k) => bills[k].law \notin Catalog
        BY <2>2, RowOfSigned
      <4> QED BY <1>4, <4>1 DEF BillKey
    <3> QED BY <2>0, <2>2, <3>1, <3>2 DEF Measure
  <2> QED BY <2>1, <2>2
<1>6. Book' = [k \in DOMAIN bills \cup {n} |->
                 IF k = n THEN Statutes!Becomes(e, "law", Never)
                 ELSE IF Statutes!Superseded(k, e)
                 THEN Statutes!Becomes(Book[k], "law", turn)
                 ELSE Book[k]]
  <2>1. Book' = [k \in DOMAIN bills \cup {n} |-> Measure(k)']
    BY DEF Book
  <2>2. \A k \in DOMAIN bills : Book[k] = Measure(k)
    BY DEF Book
  <2> HIDE DEF Book
  <2>3. ASSUME NEW k \in DOMAIN bills \cup {n}
        PROVE  Measure(k)' = IF k = n THEN Statutes!Becomes(e, "law", Never)
                             ELSE IF Statutes!Superseded(k, e)
                             THEN Statutes!Becomes(Book[k], "law", turn)
                             ELSE Book[k]
    BY <1>3, <1>5, <2>2, <2>3
  <2> QED BY <2>1, <2>3
<1>7. \A k : k \in Shown' <=>
        \/ k \in Shown /\ ~ Statutes!Superseded(k, e)
        \/ k = n /\ ~ (e.ends /\ e.matter \in Exclusive)
  <2> DEFINE new == Len(enactedLaws) + 1
             repeal == b.repeals /\ b.law \in Catalog
  <2>1. /\ new \notin DOMAIN enactedLaws
        /\ DOMAIN enactedLaws' = DOMAIN enactedLaws \cup {m \in {new} : ~ repeal}
        /\ \A m \in DOMAIN enactedLaws : enactedLaws'[m].billId = enactedLaws[m].billId
        /\ ~ repeal => enactedLaws'[new].billId = n /\ Live(enactedLaws'[new])
    BY <1>1, LawsAfter
  <2>2. \A m \in DOMAIN enactedLaws :
          Live(enactedLaws'[m]) <=>
            Live(enactedLaws[m]) /\ ~ (b.law \in Catalog /\ Key(enactedLaws[m]) = BillKey(b))
    BY <1>1, LawsLive
  <2>3. ASSUME NEW m \in DOMAIN enactedLaws, Live(enactedLaws[m])
        PROVE  Statutes!Superseded(enactedLaws[m].billId, e) <=>
                 b.law \in Catalog /\ Key(enactedLaws[m]) = BillKey(b)
    <3> DEFINE k == enactedLaws[m].billId
    <3>1. k \in DOMAIN bills /\ IsSigned(k) /\ Key(enactedLaws[m]) = BillKey(bills[k])
      BY <2>3 DEF IInv, LawInv, LawsNameBills
    <3>2. b.law \in Catalog /\ BillKey(bills[k]) = BillKey(b)
             => policyLedger[k].retiredAt = Never
      <4>1. b.law \in Catalog /\ BillKey(bills[k]) = BillKey(b) => k \in DOMAIN policyLedger
        BY <3>1, RowOfSigned DEF BillKey
      <4> QED BY <2>3, <4>1 DEF IInv, LawInv, StoresAgree, Live
    <3> HIDE DEF k
    <3> QED BY <1>4, <3>1, <3>2 DEF k
  <2>4. e.ends /\ e.matter \in Exclusive <=> repeal
    BY BillMatter
  <2>5. \A k : k \in Shown <=> \E m \in DOMAIN enactedLaws :
                                 Live(enactedLaws[m]) /\ enactedLaws[m].billId = k
    BY DEF Shown, Live
  <2>6. \A k : k \in Shown' <=> \E m \in DOMAIN enactedLaws' :
                                  Live(enactedLaws'[m]) /\ enactedLaws'[m].billId = k
    BY DEF Shown, Live
  <2> HIDE DEF new, repeal
  <2>7. ASSUME NEW k, k \in Shown'
        PROVE  \/ k \in Shown /\ ~ Statutes!Superseded(k, e)
               \/ k = n /\ ~ (e.ends /\ e.matter \in Exclusive)
    <3>1. PICK m \in DOMAIN enactedLaws' :
            Live(enactedLaws'[m]) /\ enactedLaws'[m].billId = k
      BY <2>6, <2>7
    <3>2. CASE m \in DOMAIN enactedLaws
      <4>1. Live(enactedLaws[m]) /\ enactedLaws[m].billId = k
            /\ ~ (b.law \in Catalog /\ Key(enactedLaws[m]) = BillKey(b))
        BY <2>1, <2>2, <3>1, <3>2
      <4> QED BY <2>3, <2>5, <3>2, <4>1
    <3>3. CASE m = new /\ ~ repeal
      BY <2>1, <2>4, <3>1, <3>3
    <3> QED BY <2>1, <3>1, <3>2, <3>3
  <2>8. ASSUME NEW k, k \in Shown, ~ Statutes!Superseded(k, e)
        PROVE  k \in Shown'
    <3>1. PICK m \in DOMAIN enactedLaws : Live(enactedLaws[m]) /\ enactedLaws[m].billId = k
      BY <2>5, <2>8
    <3>2. Live(enactedLaws'[m]) /\ enactedLaws'[m].billId = k /\ m \in DOMAIN enactedLaws'
      BY <2>1, <2>2, <2>3, <2>8, <3>1
    <3> QED BY <2>6, <3>2
  <2>9. ASSUME ~ (e.ends /\ e.matter \in Exclusive)
        PROVE  n \in Shown'
    BY <2>1, <2>4, <2>6, <2>9
  <2> QED BY <2>7, <2>8, <2>9
<1>8. Shown' = {k \in Shown : ~ Statutes!Superseded(k, e)}
                  \cup {k \in {n} : ~ (e.ends /\ e.matter \in Exclusive)}
  BY <1>7
<1>9. DOMAIN Book = DOMAIN bills
  BY DEF Book
<1> QED BY <1>6, <1>8, <1>9 DEF Statutes!Enters, Book, Exclusive

\* A bill joins the list: a measure is filed, or decreed.
LEMMA FilesMeasure ==
    ASSUME IInv, NEW b \in BillType, NEW decree \in BOOLEAN, File(b, decree),
           b.filedAt = turn, b.status \notin {"signed", "failed"}, Len(bills) < MaxBills
    PROVE  Statutes!Next
<1>0. PICK n : n = Len(bills) + 1
  OBVIOUS
<1> DEFINE e == Statutes!New(BillKey(b), b.repeals, turn)
<1>1. /\ DOMAIN bills = 1 .. Len(bills) /\ Len(bills) \in Nat /\ bills \in Seq(BillType)
      /\ DOMAIN policyLedger \subseteq DOMAIN bills
  BY DEF IInv, TypeBills, LawInv, RowsNameBills
<1>2. n \in 1 .. MaxBills /\ n \notin DOMAIN bills /\ n \in Nat
  BY <1>0, <1>1, BoundsAssumption
<1>3. BillKey(b) \in Laws \X Scopes \X Places /\ b.repeals \in BOOLEAN
  BY BillMatter DEF BillType
<1>4. /\ e.matter = BillKey(b) /\ e.ends = b.repeals /\ e.filed = b.filedAt
  BY DEF Statutes!New
<1>5. CASE decree
  <2>1. bills' = Append(bills, Signed(b)) /\ Enact(b, n) /\ turn' = turn
    BY <1>0, <1>5 DEF File
  <2>2. /\ DOMAIN bills' = DOMAIN bills \cup {n} /\ bills'[n] = Signed(b)
        /\ \A k \in DOMAIN bills \ {n} : bills'[k] = bills[k]
    <3> DEFINE s == Signed(b)
    <3> HIDE DEF s
    <3>1. /\ DOMAIN Append(bills, s) = DOMAIN bills \cup {n} /\ Append(bills, s)[n] = s
          /\ \A k \in DOMAIN bills \ {n} : Append(bills, s)[k] = bills[k]
      BY <1>0, <1>1
    <3> QED BY <2>1, <3>1 DEF s
  <2> HIDE DEF e
  <2>3. Statutes!Enters(n, e)
    BY <1>2, <1>4, <2>1, <2>2, EntersBook
  <2>4. Statutes!Decree(n, e)
    BY <1>2, <2>3 DEF Statutes!Decree
  <2> QED BY <1>2, <1>3, <2>4 DEF Statutes!Next, e
<1>6. CASE ~ decree
  <2>1. bills' = Append(bills, b) /\ NoLawChanges /\ turn' = turn
    BY <1>6 DEF File
  <2>2. /\ DOMAIN bills' = DOMAIN bills \cup {n} /\ bills'[n] = b
        /\ \A k \in DOMAIN bills : bills'[k] = bills[k]
    BY <1>0, <1>1, <2>1
  <2>3. Measure(n)' = e
    <3>1. n \notin DOMAIN policyLedger'
      BY <1>1, <1>2, <2>1 DEF NoLawChanges
    <3>2. /\ BillKey(bills'[n]) = BillKey(b) /\ bills'[n].repeals = b.repeals
          /\ bills'[n].filedAt = turn /\ bills'[n].status \notin {"signed", "failed"}
      BY <2>2
    <3> QED BY <3>1, <3>2 DEF Measure, Statutes!New
  <2>4. ASSUME NEW k \in DOMAIN bills PROVE Measure(k)' = Measure(k)
    <3>1. bills'[k] = bills[k] /\ policyLedger' = policyLedger
      BY <2>1, <2>2 DEF NoLawChanges
    <3> QED BY <3>1 DEF Measure
  <2>5. Shown' = Shown
    BY <2>1 DEF Shown, NoLawChanges
  <2> HIDE DEF e
  <2>6. Book' = [k \in DOMAIN bills \cup {n} |-> IF k = n THEN e ELSE Book[k]]
    BY <1>2, <2>2, <2>3, <2>4 DEF Book
  <2>7. Statutes!File(n, e)
    BY <1>2, <2>1, <2>5, <2>6 DEF Statutes!File, Statutes!With, Book
  <2> QED BY <1>2, <1>3, <2>7 DEF Statutes!Next, e
<1> QED BY <1>5, <1>6

\* What a turn makes of a bill: it may fail, and then it was under way.
LEMMA AdvancedMeasure ==
    ASSUME NEW b \in BillType, NEW tally \in Tallies \cup {NoTally}, NEW now \in Nat,
           NEW r, r = Advanced(b, tally, now)
    PROVE  /\ BillKey(r) = BillKey(b) /\ r.repeals = b.repeals /\ r.filedAt = b.filedAt
           /\ r.status = "signed" <=> b.status = "signed"
           /\ b.status = "failed" => r.status = "failed"
           /\ b.status = "proposed" => r.status = "active"
<1> DEFINE counted == IF b.status = "active" THEN [b EXCEPT !.votes = tally]
                      ELSE [b EXCEPT !.otherVotes = tally]
<1>1. /\ BillKey(counted) = BillKey(b) /\ counted.repeals = b.repeals
      /\ counted.filedAt = b.filedAt
      /\ counted \in BillType
  BY DEF BillKey, BillType
<1>2. CASE b.status = "proposed"
  <2>1. r = [b EXCEPT !.status = "active", !.chamber = Route(b)[1],
                      !.deadline = now + VOTING_TURNS]
    BY <1>2 DEF Advanced
  <2> QED BY <1>2, <2>1 DEF BillKey, BillType
<1>3. CASE b.status # "proposed" /\ ~ Closing(b, now)
  BY <1>3 DEF Advanced
<1>4. CASE Closing(b, now)
  <2>0. b.status \in {"active", "active_other"}
    BY <1>4 DEF Closing, Active
  <2>1. \/ r = [counted EXCEPT !.status = "failed"]
        \/ r = [counted EXCEPT !.status = "active_other", !.chamber = Route(b)[2],
                               !.deadline = now + VOTING_TURNS]
        \/ r = [counted EXCEPT !.status = "enrolled", !.deadline = now + EXEC_WINDOW_TURNS]
    BY <1>4, <2>0 DEF Advanced
  <2> HIDE DEF counted
  <2>2. /\ BillKey(r) = BillKey(counted) /\ r.repeals = counted.repeals
        /\ r.filedAt = counted.filedAt
        /\ r.status \in {"failed", "active_other", "enrolled"}
    BY <1>1, <2>1 DEF BillKey, BillType
  <2> QED BY <1>1, <2>0, <2>2
<1> QED BY <1>2, <1>3, <1>4

LEMMA SponsorFiles ==
    ASSUME IInv, NEW law \in Catalog, NEW region \in Places, NEW origin \in Seats,
           SponsorBill(law, region, origin)
    PROVE  Statutes!Next
<1> DEFINE b == Filed(law, region, FALSE, "player", origin, FIRST_PROVISION_NPI_COST)
<1>1. turn \in Turns /\ law \in Laws /\ Len(bills) < MaxBills /\ File(b, office # "career")
  BY LawsAssumption DEF IInv, TypeBills, SponsorBill, MayFile
<1>2. b \in BillType /\ b.filedAt = turn /\ b.status = "proposed"
  BY <1>1 DEF Filed, BillType, Maybe, Statuses
<1> HIDE DEF b
<1> QED BY <1>1, <1>2, FilesMeasure

LEMMA RepealFiles ==
    ASSUME IInv, NEW law \in Laws, NEW region \in Places, RepealLaw(law, region)
    PROVE  Statutes!Next
<1> DEFINE b == Filed(law, region, TRUE, "player", Chambers[1], 0)
<1>1. turn \in Turns /\ Len(bills) < MaxBills /\ File(b, office # "career")
  BY DEF IInv, TypeBills, RepealLaw, MayFile
<1>2. Chambers[1] \in Seats
  BY LegislatureAssumption DEF Seats
<1>3. b \in BillType /\ b.filedAt = turn /\ b.status = "proposed"
  BY <1>1, <1>2 DEF Filed, BillType, Maybe, Statuses
<1> HIDE DEF b
<1> QED BY <1>1, <1>3, FilesMeasure

LEMMA TariffFiles ==
    ASSUME IInv, ProposeTariff
    PROVE  Statutes!Next
<1> DEFINE origin == IF office = "sovereign" THEN Chambers[1] ELSE seat
           b == TariffBill(origin)
<1>1. /\ turn \in Turns /\ turn \in Nat /\ MaxTurn \in Nat /\ turn <= MaxTurn
      /\ Tariff \in Laws /\ Len(bills) < MaxBills /\ File(b, office = "sovereign")
  BY BoundsAssumption, LawsAssumption DEF IInv, TypeBills, Turns, ProposeTariff, MayFile
<1>2. origin \in Seats
  BY LegislatureAssumption DEF Seats, ProposeTariff, IInv, TypeBills
<1> HIDE DEF origin
<1>3. turn + 2 \in Maybe(0 .. MaxTurn + VOTING_TURNS) /\ turn + VOTING_TURNS = turn + 2
  BY <1>1 DEF Maybe, VOTING_TURNS
<1>4. b \in BillType /\ b.filedAt = turn /\ b.status = "active"
  BY <1>1, <1>2, <1>3 DEF TariffBill, Filed, BillType, Maybe, Statuses, Places
<1> HIDE DEF b
<1> QED BY <1>1, <1>4, FilesMeasure

\* What citizens do not see of a step.
LEMMA SameBook ==
    ASSUME DOMAIN bills' = DOMAIN bills, NoLawChanges, turn' = turn,
           \A k \in DOMAIN bills :
              /\ BillKey(bills'[k]) = BillKey(bills[k])
              /\ bills'[k].repeals = bills[k].repeals /\ bills'[k].filedAt = bills[k].filedAt
              /\ bills'[k].status = bills[k].status
    PROVE  UNCHANGED Statutes!vars
<1>1. ASSUME NEW k \in DOMAIN bills PROVE Measure(k)' = Measure(k)
  BY DEF Measure, NoLawChanges
<1>2. Book' = Book
  BY <1>1 DEF Book
<1>3. Shown' = Shown
  BY DEF Shown, NoLawChanges
<1> QED BY <1>2, <1>3 DEF Statutes!vars, Book

LEMMA FilibusterUnseen ==
    ASSUME IInv, NEW n \in DOMAIN bills, InvokeFilibuster(n)
    PROVE  UNCHANGED Statutes!vars
<1>1. \A k \in DOMAIN bills : bills[k] \in BillType
  BY DEF IInv, TypeBills
<1>2. DOMAIN bills' = DOMAIN bills /\ NoLawChanges /\ turn' = turn
  BY DEF InvokeFilibuster
<1>3. ASSUME NEW k \in DOMAIN bills
      PROVE  /\ BillKey(bills'[k]) = BillKey(bills[k])
             /\ bills'[k].repeals = bills[k].repeals /\ bills'[k].filedAt = bills[k].filedAt
             /\ bills'[k].status = bills[k].status
  <2>1. bills'[k] = bills[k] \/ bills'[k] = [bills[k] EXCEPT !.filibuster = TRUE]
    BY DEF InvokeFilibuster
  <2> QED BY <1>1, <2>1 DEF BillKey, BillType
<1> QED BY <1>2, <1>3, SameBook

LEMMA PocketPasses ==
    ASSUME IInv, NEW n \in DOMAIN bills, PocketSign(n)
    PROVE  Statutes!Pass(n)
<1>1. /\ bills' = [bills EXCEPT ![n] = Signed(bills[n])] /\ Enact(bills[n], n)
      /\ turn' = turn /\ bills[n].status = "enrolled"
  BY DEF PocketSign, Expired
<1>2. bills[n] \in BillType /\ n \in Nat /\ ~ IsSigned(n)
  BY <1>1 DEF IInv, TypeBills, IsSigned
<1>3. /\ Measure(n).matter = BillKey(bills[n]) /\ Measure(n).ends = bills[n].repeals
      /\ Measure(n).filed = bills[n].filedAt /\ Measure(n).fate = "filed"
  BY <1>1 DEF Measure
<1>4. DOMAIN bills' = DOMAIN bills \cup {n} /\ bills'[n] = Signed(bills[n])
      /\ \A k \in DOMAIN bills \ {n} : bills'[k] = bills[k]
  BY <1>1
<1>5. Statutes!Enters(n, Measure(n))
  BY <1>1, <1>2, <1>3, <1>4, EntersBook
<1>6. Book[n] = Measure(n)
  BY DEF Book
<1> QED BY <1>3, <1>5, <1>6 DEF Statutes!Pass, Book

\* A turn: some measures under way die, and an NPP may have filed one.
LEMMA EndTurnTurns ==
    ASSUME IInv, EndTurn
    PROVE  Statutes!Turn
<1>1. /\ turn' = turn + 1 /\ turn \in Nat /\ NoLawChanges /\ stage = "player"
      /\ bills \in Seq(BillType) /\ DOMAIN bills = 1 .. Len(bills) /\ Len(bills) \in Nat
      /\ \A k \in DOMAIN bills : bills[k] \in BillType
      /\ DOMAIN policyLedger \subseteq DOMAIN bills
  BY BoundsAssumption DEF EndTurn, IInv, TypeBills, Turns, LawInv, RowsNameBills
<1> DEFINE lost == {k \in DOMAIN bills : Unresolved(bills[k]) /\ bills'[k].status = "failed"}
<1>2. \A k \in DOMAIN bills : Book[k] = Measure(k)
  BY DEF Book
<1>3. DOMAIN Book = DOMAIN bills
  BY DEF Book
<1>4. \A k \in DOMAIN bills : Measure(k).fate = "filed" <=> Unresolved(bills[k])
  BY DEF Measure, Unresolved
<1>5. \A k \in Statutes!UnderWay : turn < Book[k].filed + LifeSpan
  <2> SUFFICES ASSUME NEW k \in DOMAIN bills, Unresolved(bills[k])
               PROVE  turn < Measure(k).filed + LifeSpan
    BY <1>2, <1>3, <1>4 DEF Statutes!UnderWay, Book
  <2>1. turn < bills[k].filedAt + LifeSpan
    BY <1>1, NoneHangs DEF NoBillHangs
  <2> QED BY <2>1 DEF Measure
<1>6. ASSUME NEW k \in DOMAIN bills, NEW tally \in Tallies \cup {NoTally},
             bills'[k] = Advanced(bills[k], tally, turn + 1)
      PROVE  Measure(k)' = Statutes!Dying(lost)[k]
  <2>1. /\ BillKey(bills'[k]) = BillKey(bills[k]) /\ bills'[k].repeals = bills[k].repeals
        /\ bills'[k].filedAt = bills[k].filedAt
        /\ bills'[k].status = "signed" <=> bills[k].status = "signed"
        /\ bills[k].status = "failed" => bills'[k].status = "failed"
    BY <1>1, <1>6, AdvancedMeasure
  <2>2. Statutes!Dying(lost)[k] =
          IF k \in lost THEN Statutes!Becomes(Measure(k), "dead", Never) ELSE Measure(k)
    BY <1>2 DEF Statutes!Dying, Book
  <2>3. Unresolved(bills[k]) => k \notin DOMAIN policyLedger
    BY DEF Unresolved, IInv, LawInv, RowsNameBills, IsSigned
  <2>4. policyLedger' = policyLedger
    BY <1>1 DEF NoLawChanges
  <2>5. CASE k \in lost
    BY <2>1, <2>2, <2>3, <2>4, <2>5 DEF Measure, Statutes!Becomes
  <2>6. CASE k \notin lost
    <3>1. /\ bills'[k].status = "failed" <=> bills[k].status = "failed"
      BY <2>1, <2>6 DEF Unresolved
    <3> QED BY <2>1, <2>2, <2>4, <2>6, <3>1 DEF Measure
  <2> QED BY <2>5, <2>6
<1>7. lost \in SUBSET Statutes!UnderWay
  BY <1>2, <1>3, <1>4 DEF Statutes!UnderWay, Book
<1>8. Shown' = Shown
  BY <1>1 DEF Shown, NoLawChanges
<1>9. CASE BillsMove(bills, turn + 1)
  <2>1. PICK ballot \in [{k \in DOMAIN bills : Closing(bills[k], turn + 1)} -> Tallies] :
          bills' = [k \in DOMAIN bills |->
                      Advanced(bills[k], IF k \in DOMAIN ballot THEN ballot[k] ELSE NoTally,
                               turn + 1)]
    BY <1>9 DEF BillsMove
  <2>2. DOMAIN bills' = DOMAIN bills
    BY <2>1
  <2>3. ASSUME NEW k \in DOMAIN bills PROVE Measure(k)' = Statutes!Dying(lost)[k]
    <3>1. (IF k \in DOMAIN ballot THEN ballot[k] ELSE NoTally) \in Tallies \cup {NoTally}
      BY <2>1
    <3>2. bills'[k] = Advanced(bills[k], IF k \in DOMAIN ballot THEN ballot[k] ELSE NoTally,
                               turn + 1)
      BY <2>1
    <3> QED BY <1>6, <3>1, <3>2
  <2>4. Book' = Statutes!Dying(lost)
    <3>1. Statutes!Dying(lost) = [k \in DOMAIN bills |-> Statutes!Dying(lost)[k]]
      BY DEF Statutes!Dying
    <3> HIDE DEF lost
    <3> QED BY <2>2, <2>3, <3>1 DEF Book
  <2> QED BY <1>1, <1>5, <1>7, <1>8, <2>4 DEF Statutes!Turn, Book
<1>10. ASSUME NEW law \in Catalog, NEW origin \in Seats, NppMayFile(law, turn + 1),
              BillsMove(Append(bills, NppBill(law, origin, turn + 1)), turn + 1)
       PROVE  Statutes!Turn
  <2>0. PICK n : n = Len(bills) + 1
    OBVIOUS
  <2> DEFINE b == NppBill(law, origin, turn + 1)
             all == Append(bills, b)
             matter == BillKey(b)
  <2>1. PICK ballot \in [{k \in DOMAIN all : Closing(all[k], turn + 1)} -> Tallies] :
          bills' = [k \in DOMAIN all |->
                      Advanced(all[k], IF k \in DOMAIN ballot THEN ballot[k] ELSE NoTally,
                               turn + 1)]
    BY <1>10 DEF BillsMove
  <2>2. /\ b.law = law /\ b.region = National /\ b.repeals = FALSE /\ b.filedAt = turn + 1
        /\ b.status = "proposed"
    BY DEF NppBill, Filed
  <2>3. matter \in Laws \X Scopes \X Places
    BY <2>2, LawsAssumption DEF BillKey, ScopeOf, Scopes, Places
  <2>4. n \in 1 .. MaxBills /\ n \notin DOMAIN bills
    BY <1>1, <1>10, <2>0, BoundsAssumption DEF NppMayFile
  <2>5. /\ DOMAIN all = DOMAIN bills \cup {n} /\ all[n] = b
        /\ \A k \in DOMAIN bills : all[k] = bills[k]
    <3> HIDE DEF b
    <3> QED BY <1>1, <2>0
  <2> HIDE DEF all
  <2>6. DOMAIN bills' = DOMAIN bills \cup {n}
    BY <2>1, <2>5
  <2>7. ASSUME NEW k \in DOMAIN bills PROVE Measure(k)' = Statutes!Dying(lost)[k]
    <3>1. (IF k \in DOMAIN ballot THEN ballot[k] ELSE NoTally) \in Tallies \cup {NoTally}
      BY <2>1
    <3>2. bills'[k] = Advanced(bills[k], IF k \in DOMAIN ballot THEN ballot[k] ELSE NoTally,
                               turn + 1)
      BY <2>1, <2>5
    <3> QED BY <1>6, <3>1, <3>2
  <2>8. Measure(n)' = Statutes!New(matter, FALSE, turn + 1)
    <3>1. bills'[n] = [b EXCEPT !.status = "active", !.chamber = Route(b)[1],
                                !.deadline = turn + 1 + VOTING_TURNS]
      BY <2>1, <2>2, <2>5 DEF Advanced
    <3>2. /\ BillKey(bills'[n]) = matter /\ bills'[n].repeals = FALSE
          /\ bills'[n].filedAt = turn + 1 /\ bills'[n].status = "active"
      BY <3>1 DEF NppBill, Filed, BillKey
    <3>3. n \notin DOMAIN policyLedger'
      BY <1>1, <2>4 DEF NoLawChanges
    <3> HIDE DEF b, matter
    <3> QED BY <3>2, <3>3 DEF Measure, Statutes!New
  <2> HIDE DEF b, matter, lost
  <2>9. Book' = [k \in DOMAIN Book \cup {n} |->
                   IF k = n THEN Statutes!New(matter, FALSE, turn + 1)
                   ELSE Statutes!Dying(lost)[k]]
    <3>1. Book' = [k \in DOMAIN bills \cup {n} |-> Measure(k)']
      BY <2>6 DEF Book
    <3>2. \A k \in DOMAIN bills \cup {n} :
            Measure(k)' = IF k = n THEN Statutes!New(matter, FALSE, turn + 1)
                          ELSE Statutes!Dying(lost)[k]
      BY <2>4, <2>7, <2>8
    <3> QED BY <1>3, <3>1, <3>2
  <2>10. n \notin DOMAIN Book
    BY <1>3, <2>4
  <2>11. \E k \in 1 .. MaxBills, m \in Laws \X Scopes \X Places :
            /\ k \notin DOMAIN Book
            /\ Book' = [j \in DOMAIN Book \cup {k} |->
                          IF j = k THEN Statutes!New(m, FALSE, turn + 1)
                          ELSE Statutes!Dying(lost)[j]]
    <3> HIDE DEF Book
    <3> QED BY <2>3, <2>4, <2>9, <2>10, Zenon
  <2>12. \E l \in SUBSET Statutes!UnderWay, k \in 1 .. MaxBills,
               m \in Laws \X Scopes \X Places :
            /\ k \notin DOMAIN Book
            /\ Book' = [j \in DOMAIN Book \cup {k} |->
                          IF j = k THEN Statutes!New(m, FALSE, turn + 1)
                          ELSE Statutes!Dying(l)[j]]
    <3> HIDE DEF Book, lost
    <3> QED BY <1>7, <2>11, Zenon
  <2>13. turn' = turn + 1 /\ \A k \in Statutes!UnderWay : turn < Book[k].filed + LifeSpan
    BY <1>1, <1>5
  <2> QED BY <1>8, <2>12, <2>13, Zenon DEF Statutes!Turn, Book
<1> QED BY <1>9, <1>10 DEF EndTurn

LEMMA ElectionsUnseen ==
    ASSUME Elections
    PROVE  UNCHANGED Statutes!vars
BY SameBook DEF Elections

LEMMA StatutesInit == Init => Statutes!Init
BY DEF Init, Statutes!Init, Shown

LEMMA StatutesNext == IInv /\ [Next]_vars => [Statutes!Next]_(Statutes!vars)
<1> SUFFICES ASSUME IInv, [Next]_vars
             PROVE  Statutes!Next \/ UNCHANGED Statutes!vars
  OBVIOUS
<1>1. ASSUME NEW law \in Catalog, NEW region \in Places, NEW origin \in Seats,
             SponsorBill(law, region, origin)
      PROVE  Statutes!Next
  BY <1>1, SponsorFiles
<1>2. CASE ProposeTariff
  BY <1>2, TariffFiles
<1>3. ASSUME NEW law \in Laws, NEW region \in Places, RepealLaw(law, region)
      PROVE  Statutes!Next
  BY <1>3, RepealFiles
<1>4. ASSUME NEW n \in DOMAIN bills, InvokeFilibuster(n) PROVE UNCHANGED Statutes!vars
  BY <1>4, FilibusterUnseen
<1>5. CASE EndTurn
  BY <1>5, EndTurnTurns DEF Statutes!Next
<1>6. ASSUME NEW n \in DOMAIN bills, PocketSign(n) PROVE Statutes!Next
  <2>1. n \in DOMAIN Book
    BY DEF Book
  <2> QED BY <1>6, <2>1, PocketPasses DEF Statutes!Next, Book
<1>7. CASE Elections
  BY <1>7, ElectionsUnseen
<1>8. CASE UNCHANGED vars
  <2>1. NoLawChanges /\ turn' = turn /\ bills' = bills
    BY <1>8 DEF vars, NoLawChanges
  <2> QED BY <2>1, SameBook
<1> QED BY <1>1, <1>2, <1>3, <1>4, <1>5, <1>6, <1>7, <1>8 DEF Next

\* Legislation keeps its book of statutes: a measure is law or dead in time and
\* for good, what it replaces ends in the same step, and the ledger and the laws
\* shown never tell a different story.
THEOREM LegislationKeepsBook == Spec => StatutesKept
BY StatutesInit, StatutesNext, Invariance, PTL DEF Spec, StatutesKept, Statutes!Spec
=============================================================================
