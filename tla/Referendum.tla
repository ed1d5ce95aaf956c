----------------------------- MODULE Referendum -----------------------------
(***************************************************************************)
(* Referendums on leaving the United Kingdom and the consent bills that    *)
(* give effect to a Yes (packages/engine/src/referendum/{request,          *)
(* lifecycle,consent,actuation}.ts), with the stages the ordinary bill     *)
(* phase takes those bills through.  A turn runs the bill phase, the drift *)
(* of the regions' wishes and the referendum lifecycle, in that order, so  *)
(* a bill signed this turn is acted upon this turn.                        *)
(*                                                                         *)
(* Abstracted: shares of the vote, campaigning and the votes on bills,     *)
(* each of which only decides a Yes or a No that is left open here.  Both  *)
(* legislatures concerned vote in one chamber (legislatures of the content *)
(* packs: not bicameral).                                                  *)
(***************************************************************************)
EXTENDS Integers, Sequences

CONSTANTS
    Regions,           \* UK_DEVOLUTION_REGIONS
    Reunifying,        \* those that would join Ireland: NIR
    Home,              \* the player's home region, or a place that may not leave
    MaxReferendums,    \* bound: records in the save
    MaxTurn,           \* bound: turns played
    \* The source's windows (lifecycle.ts:81-84, consent.ts:5, billLifecycle.ts:34):
    CAMPAIGN_WINDOW, CONVERSION_WINDOW, EXEC_WINDOW, SETTLED_COOLDOWN

ASSUME RegionsAssumption ==
    /\ Reunifying \subseteq Regions
    /\ "UK" \notin Regions /\ "IE" \notin Regions
    /\ MaxReferendums \in Nat \ {0} /\ MaxTurn \in Nat

ASSUME WindowsAssumption ==
    /\ CAMPAIGN_WINDOW \in Nat \ {0, 1} /\ CONVERSION_WINDOW \in Nat \ {0}
    /\ EXEC_WINDOW \in Nat \ {0} /\ SETTLED_COOLDOWN \in Nat \ {0}

Never == -1
ActiveStatuses == {"granted", "campaigning", "polling", "actuating"}
TerminalStatuses == {"settled", "completed", "cancelled"}

VARIABLES
    turn,     \* meta.turn
    wish,     \* the regions whose independenceDesire has reached REQUEST_THRESHOLD
    owner,    \* region.countryId
    country,  \* player.countryId
    refs,     \* world.referendums
    bills     \* the consent bills of each record, by chamber, in world.bills

vars == <<turn, wish, owner, country, refs, bills>>

-----------------------------------------------------------------------------
\* Consent bills

NoBill == [status |-> "none", due |-> Never]
\* The houses that have to consent.
Houses(r) == IF r \in Reunifying THEN {"commons", "dail"} ELSE {"commons"}
NoBills == [h \in {"commons", "dail"} |-> NoBill]

\* createReferendumConsentBills: what is missing is put to the vote.
Tabled(bs, r, now) ==
    [h \in DOMAIN bs |-> IF h \in Houses(r) /\ bs[h] = NoBill
                         THEN [status |-> "active", due |-> now + CONVERSION_WINDOW]
                         ELSE bs[h]]

\* Mutant: the executive's window is counted on top of the vote's.
ProcessedLate(b, carried, now) ==
    CASE b.status = "active" /\ b.due <= now ->
             IF carried THEN [status |-> "enrolled", due |-> b.due + now + EXEC_WINDOW]
             ELSE [b EXCEPT !.status = "failed"]
      [] b.status = "enrolled" /\ b.due <= now -> [b EXCEPT !.status = "signed"]
      [] OTHER -> b
\* The bill phase: the vote closes, and an enrolled bill is signed by default.
Processed(b, carried, now) ==
    CASE b.status = "active" /\ b.due <= now /\ carried ->
             [status |-> "enrolled", due |-> now + EXEC_WINDOW]
      [] b.status = "active" /\ b.due <= now /\ ~ carried -> [b EXCEPT !.status = "failed"]
      [] b.status = "enrolled" /\ b.due <= now -> [b EXCEPT !.status = "signed"]
      [] OTHER -> b

Pending(b) == b.status \in {"active", "enrolled"}
\* Mutant: a bill that has passed its house counts before it is signed.
ConsentUnsigned(bs, r) == \A h \in Houses(r) : bs[h].status \in {"enrolled", "signed"}
Consented(bs, r) == \A h \in Houses(r) : bs[h].status = "signed"
Refused(bs, r) == \E h \in Houses(r) : bs[h].status \in {"none", "failed", "withdrawn"}
\* Mutant: the other house goes on voting.
WithdrawnNowhere(bs) == bs
Withdrawn(bs) == [h \in DOMAIN bs |-> IF Pending(bs[h]) THEN [bs[h] EXCEPT !.status = "withdrawn"]
                                      ELSE bs[h]]

-----------------------------------------------------------------------------
\* Requests

Of(r) == {n \in DOMAIN refs : refs[n].region = r}
Ended(r) == {n \in Of(r) : refs[n].status \in TerminalStatuses}
\* Mutant: the first that ended is looked at, not the last.
CoolingOffFirst(r) ==
    \E n \in Ended(r) : (\A m \in Ended(r) : n <= m) /\ turn < refs[n].cooldown
CoolingOff(r) ==
    \E n \in Ended(r) : (\A m \in Ended(r) : m <= n) /\ turn < refs[n].cooldown

Granted(r) ==
    [region |-> r, status |-> "granted", requested |-> turn,
     close |-> turn + CAMPAIGN_WINDOW, resolved |-> Never, passed |-> FALSE,
     cooldown |-> Never]

\* referendumRequestEligibility and requestReferendum; the grant is immediate.
\* MaxReferendums bounds the records.
RequestReferendum(r) ==
    /\ Len(refs) < MaxReferendums
    /\ country = "UK" /\ owner[r] = "UK"
    /\ \A n \in Of(r) : refs[n].status \notin ActiveStatuses
    /\ ~ CoolingOff(r)
    /\ r \in wish
    /\ refs' = Append(refs, Granted(r))
    /\ bills' = Append(bills, NoBills)
    /\ UNCHANGED <<turn, wish, owner, country>>

-----------------------------------------------------------------------------
\* The turn

\* One edge per record and turn.  yes is the outcome of the ballot, bs are the
\* record's bills as the bill phase left them.  The actuation succeeds: the
\* packs have the region and the country it goes to.
Decided(ref, yes, now) ==
    IF yes THEN [ref EXCEPT !.status = "actuating", !.passed = TRUE, !.resolved = now]
    ELSE [ref EXCEPT !.status = "settled", !.resolved = now,
                     !.cooldown = now + SETTLED_COOLDOWN]
Advanced(ref, yes, bs, now) ==
    CASE ref.status = "granted" -> [ref EXCEPT !.status = "campaigning"]
      [] ref.status = "campaigning" /\ now >= ref.close -> [ref EXCEPT !.status = "polling"]
      [] ref.status = "polling" -> Decided(ref, yes, now)
      [] ref.status = "actuating" /\ Consented(bs, ref.region) -> [ref EXCEPT !.status = "completed"]
      [] ref.status = "actuating" /\ Refused(bs, ref.region) -> [ref EXCEPT !.status = "cancelled"]
      [] OTHER -> ref

\* applyReferendumActuation: the region changes hands and takes a resident
\* player along.
Leaving(before, after) ==
    {refs[n].region : n \in {m \in DOMAIN before : before[m].status = "actuating"
                                                   /\ after[m].status = "completed"}}
Joins(r) == IF r \in Reunifying THEN "IE" ELSE r

\* What is put to the vote this turn.
Closing(now) == {v \in (DOMAIN bills) \X {"commons", "dail"} :
                    LET b == bills[v[1]][v[2]]
                    IN  b.status = "active" /\ b.due <= now}
Polling == {n \in DOMAIN refs : refs[n].status = "polling"}

EndTurn ==
    LET now == turn + 1 IN
    /\ turn < MaxTurn
    /\ turn' = now
    /\ \E carried \in SUBSET Closing(now), yes \in SUBSET Polling :
          LET voted == [n \in DOMAIN bills |->
                          [h \in DOMAIN bills[n] |->
                             Processed(bills[n][h], <<n, h>> \in carried, now)]]
              \* A record of an old save may be actuating without its bills.
              tabled == [n \in DOMAIN bills |->
                          IF refs[n].status = "actuating"
                          THEN Tabled(voted[n], refs[n].region, now) ELSE voted[n]]
              next == [n \in DOMAIN refs |-> Advanced(refs[n], n \in yes, tabled[n], now)]
              gone == Leaving(refs, next)
          IN
          /\ refs' = next
          /\ bills' = [n \in DOMAIN bills |->
                CASE next[n].status = "actuating" -> Tabled(tabled[n], refs[n].region, now)
                  [] refs[n].status = "actuating" /\ next[n].status = "cancelled" ->
                        Withdrawn(tabled[n])
                  [] OTHER -> tabled[n]]
          /\ owner' = [r \in Regions |-> IF r \in gone THEN Joins(r) ELSE owner[r]]
          /\ country' = IF Home \in gone THEN Joins(Home) ELSE country
          \* The wishes drift; a No sets the region's back.
          /\ \E drifted \in SUBSET Regions :
                wish' = drifted \ {refs[n].region : n \in Polling \ yes}

-----------------------------------------------------------------------------
\* A new world, or an old save with a vote that was carried before there were
\* consent bills; the turn it was carried on counts as the turn of the load.
Legacy(r) == [Granted(r) EXCEPT !.status = "actuating", !.close = turn,
                                !.resolved = turn, !.passed = TRUE]
Init ==
    /\ turn = 0 /\ wish = Regions
    /\ owner = [r \in Regions |-> "UK"] /\ country = "UK"
    /\ \/ refs = <<>> /\ bills = <<>>
       \/ \E r \in Regions : refs = <<Legacy(r)>> /\ bills = <<NoBills>>

Next == EndTurn \/ \E r \in Regions : RequestReferendum(r)

Spec == Init /\ [][Next]_vars

-----------------------------------------------------------------------------
\* Properties

Records == [region : Regions, status : ActiveStatuses \cup TerminalStatuses,
            requested : 0 .. MaxTurn, close : 0 .. MaxTurn + CAMPAIGN_WINDOW,
            resolved : {Never} \cup 0 .. MaxTurn, passed : BOOLEAN,
            cooldown : {Never} \cup 0 .. MaxTurn + SETTLED_COOLDOWN]
Bills == [status : {"none", "active", "enrolled", "signed", "failed", "withdrawn"},
          due : {Never} \cup 0 .. MaxTurn + CONVERSION_WINDOW + EXEC_WINDOW]

\* The shape of the state: one set of consent bills per record.
TypeOK ==
    /\ turn \in 0 .. MaxTurn
    /\ wish \subseteq Regions
    /\ owner \in [Regions -> {"UK", "IE"} \cup Regions]
    /\ country \in {"UK", "IE"} \cup Regions
    /\ refs \in Seq(Records) /\ Len(refs) <= MaxReferendums
    /\ bills \in Seq([{"commons", "dail"} -> Bills]) /\ Len(bills) = Len(refs)

\* hasActiveReferendum and the cooldown of the last one to end: in a region no
\* referendum is asked for while another runs, none runs where one has taken
\* the region out, and after a No the region waits.
OneReferendumPerRegion ==
    \A m, n \in DOMAIN refs : m < n /\ refs[m].region = refs[n].region =>
       /\ refs[m].status \in {"settled", "cancelled"}
       /\ refs[m].cooldown <= refs[n].requested

\* A region has left exactly when one of its referendums is completed, and that
\* one was carried and consented to by every house concerned; a resident player
\* has gone with it and no other has.
SecededByConsent ==
    /\ \A r \in Regions :
          owner[r] # "UK" <=> \E n \in Of(r) : refs[n].status = "completed"
    /\ \A n \in DOMAIN refs : refs[n].status = "completed" =>
          /\ refs[n].passed /\ owner[refs[n].region] = Joins(refs[n].region)
          /\ \A h \in Houses(refs[n].region) : bills[n][h].status = "signed"
    /\ country # "UK" <=> Home \in Regions /\ owner[Home] # "UK"

\* No stage outlasts its window, whatever is voted: a campaign closes on time,
\* and a vote that was carried is acted upon, or given up, once its bills are
\* through; no consent bill goes on after its referendum is over.
NoReferendumHangs ==
    \A n \in DOMAIN refs :
       /\ refs[n].status = "campaigning" => turn < refs[n].close
       /\ refs[n].status = "polling" => turn <= refs[n].close
       /\ refs[n].status = "actuating" =>
             turn <= refs[n].resolved + CONVERSION_WINDOW + EXEC_WINDOW
       /\ \A h \in DOMAIN bills[n] : Pending(bills[n][h]) =>
             refs[n].status = "actuating" /\ turn < bills[n][h].due

-----------------------------------------------------------------------------
(* What a region's records come to (a refinement mapping): its last one    *)
(* says how it stands.                                                     *)
Last(r) == CHOOSE n \in Of(r) : \A m \in Of(r) : m <= n
StandsBy(ref) ==
    CASE ref.status \in {"granted", "campaigning", "polling"} ->
            [is |-> "asking", since |-> ref.requested, wait |-> Never]
      [] ref.status = "actuating" -> [is |-> "agreed", since |-> ref.resolved, wait |-> Never]
      [] ref.status = "completed" -> [is |-> "out", since |-> Never, wait |-> Never]
      [] OTHER -> [is |-> "in", since |-> Never, wait |-> ref.cooldown]
Standing(r) == IF Of(r) = {} THEN [is |-> "in", since |-> Never, wait |-> Never]
               ELSE StandsBy(refs[Last(r)])

Union == INSTANCE Secession WITH
    Union <- "UK", Destination <- [r \in Regions |-> Joins(r)],
    ASKING <- CAMPAIGN_WINDOW, AGREED <- CONVERSION_WINDOW + EXEC_WINDOW,
    COOLING <- SETTLED_COOLDOWN,
    now <- turn, standing <- [r \in Regions |-> Standing(r)],
    country <- owner, resident <- country

\* "Each record advances at most one edge per turn" (lifecycle.ts:66): however
\* requests, ballots, bills and the turns of several regions interleave, a region
\* asks only when it has not asked, agreed or left and its refusal has worn off,
\* each question and each Yes is settled in time, and leaving is one step for
\* region and resident.
UnionKept == Union!Spec
=============================================================================
