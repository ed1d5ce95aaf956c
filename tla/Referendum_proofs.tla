-------------------------- MODULE Referendum_proofs --------------------------
(***************************************************************************)
(* The referendums for any regions, windows, number of records and length  *)
(* of the game.  Good says of a record and its consent bills, together,    *)
(* what its stage owes to the ballot and the houses and how far each bill  *)
(* may still be from its outcome; it is kept record by record              *)
(* (RecordStep).  LastStands, that the records of a region have a last     *)
(* one, is what makes the cooldown of that one binding for all before it.  *)
(***************************************************************************)
EXTENDS Referendum, SequenceTheorems, TLAPS

H == {"commons", "dail"}

Good(ref, bs, now) ==
    /\ \A h \in H \ Houses(ref.region) : bs[h] = NoBill
    /\ ref.requested <= now
    /\ ref.status \in {"granted", "campaigning", "polling", "settled"} => bs = NoBills
    /\ ref.status = "granted" => now = ref.requested
    /\ ref.status \in {"granted", "campaigning", "polling"} =>
          ref.close = ref.requested + CAMPAIGN_WINDOW
    /\ ref.status = "campaigning" => now < ref.close
    /\ ref.status = "polling" => now <= ref.close
    /\ ref.status = "actuating" =>
          /\ ref.passed /\ ref.resolved \in 0 .. now
          /\ \/ bs = NoBills /\ now = ref.resolved
             \/ /\ \A h \in Houses(ref.region) :
                     /\ bs[h].status \in {"active", "enrolled", "signed"}
                     /\ Pending(bs[h]) => now < bs[h].due
                     /\ bs[h].status = "active" =>
                           bs[h].due <= ref.resolved + 1 + CONVERSION_WINDOW
                     /\ bs[h].status = "enrolled" =>
                           bs[h].due <= ref.resolved + 1 + CONVERSION_WINDOW + EXEC_WINDOW
                /\ \E h \in Houses(ref.region) : Pending(bs[h])
    /\ ref.status = "completed" =>
          ref.passed /\ \A h \in Houses(ref.region) : bs[h].status = "signed"
    /\ ref.status = "cancelled" =>
          ref.cooldown = Never /\ \A h \in H : ~ Pending(bs[h])
    /\ ref.status # "settled" => ref.cooldown = Never

LEMMA Windows ==
    /\ CAMPAIGN_WINDOW \in Nat /\ CAMPAIGN_WINDOW > 1
    /\ CONVERSION_WINDOW \in Nat /\ CONVERSION_WINDOW > 0
    /\ EXEC_WINDOW \in Nat /\ EXEC_WINDOW > 0 /\ SETTLED_COOLDOWN \in Nat
    /\ MaxTurn \in Nat /\ MaxReferendums \in Nat
BY WindowsAssumption, RegionsAssumption

LEMMA HousesOf ==
    ASSUME NEW r
    PROVE  Houses(r) \subseteq H /\ "commons" \in Houses(r)
BY DEF Houses, H

\* One bill in the bill phase.
LEMMA BillStep ==
    ASSUME NEW b \in Bills, NEW t \in 0 .. MaxTurn, NEW c \in BOOLEAN
    PROVE  /\ Processed(b, c, t) \in Bills
           /\ ~ Pending(b) => Processed(b, c, t) = b
           /\ Pending(b) /\ t < b.due => Processed(b, c, t) = b
           /\ b.status = "active" /\ b.due <= t =>
                 \/ Processed(b, c, t) = [status |-> "enrolled", due |-> t + EXEC_WINDOW]
                 \/ Processed(b, c, t).status = "failed"
           /\ b.status = "enrolled" /\ b.due <= t => Processed(b, c, t).status = "signed"
<1>1. /\ t \in Nat /\ b.due \in Int
      /\ t + EXEC_WINDOW \in 0 .. MaxTurn + CONVERSION_WINDOW + EXEC_WINDOW
  BY Windows DEF Bills, Never
<1>2. CASE b.status = "active" /\ b.due <= t /\ c = TRUE
  <2>1. Processed(b, c, t) = [status |-> "enrolled", due |-> t + EXEC_WINDOW]
    BY <1>2 DEF Processed
  <2> QED BY <1>1, <1>2, <2>1 DEF Bills, Pending
<1>3. CASE b.status = "active" /\ b.due <= t /\ c = FALSE
  <2>1. Processed(b, c, t) = [b EXCEPT !.status = "failed"]
    BY <1>3 DEF Processed
  <2> QED BY <1>1, <1>3, <2>1 DEF Bills, Pending
<1>4. CASE b.status = "enrolled" /\ b.due <= t
  <2>1. Processed(b, c, t) = [b EXCEPT !.status = "signed"]
    BY <1>4 DEF Processed
  <2> QED BY <1>1, <1>4, <2>1 DEF Bills, Pending
<1>5. CASE ~ (Pending(b) /\ b.due <= t)
  <2>1. Processed(b, c, t) = b
    BY <1>5 DEF Processed, Pending
  <2> QED BY <1>1, <1>5, <2>1 DEF Pending
<1> QED BY <1>2, <1>3, <1>4, <1>5 DEF Pending

\* What a turn makes of a record and its bills.
After(ref, next, tabled, now) ==
    CASE next.status = "actuating" -> Tabled(tabled, ref.region, now)
      [] ref.status = "actuating" /\ next.status = "cancelled" -> Withdrawn(tabled)
      [] OTHER -> tabled

BillsOf == [H -> Bills]

\* A record ref with bills bs becomes next in the turn now; voted and tabled are
\* its bills after the bill phase and after what was missing was tabled.
Step(ref, bs, t, now, voted, yes, tabled, next) ==
    /\ t \in 0 .. MaxTurn /\ now = t + 1 /\ now \in 0 .. MaxTurn
    /\ ref \in Records /\ bs \in BillsOf /\ Good(ref, bs, t)
    /\ voted \in BillsOf /\ yes \in BOOLEAN
    /\ \A h \in H : \E c \in BOOLEAN : voted[h] = Processed(bs[h], c, now)
    /\ tabled = IF ref.status = "actuating" THEN Tabled(voted, ref.region, now) ELSE voted
    /\ next = Advanced(ref, yes, tabled, now)

Stepped(ref, next, tabled, now) ==
    /\ next \in Records /\ After(ref, next, tabled, now) \in BillsOf
    /\ Good(next, After(ref, next, tabled, now), now)
    /\ next.region = ref.region /\ next.requested = ref.requested
    /\ ref.status \in TerminalStatuses => next = ref
    /\ next.status = "completed" => ref.status \in {"actuating", "completed"}

LEMMA RecordStep ==
    ASSUME NEW ref, NEW bs, NEW t, NEW now, NEW voted, NEW yes, NEW tabled, NEW next,
           Step(ref, bs, t, now, voted, yes, tabled, next)
    PROVE  Stepped(ref, next, tabled, now)
<1>a. /\ t \in 0 .. MaxTurn /\ now = t + 1 /\ now \in 0 .. MaxTurn
      /\ ref \in Records /\ bs \in BillsOf /\ Good(ref, bs, t)
      /\ voted \in BillsOf /\ yes \in BOOLEAN
  BY DEF Step
<1>b. \A h \in H : \E c \in BOOLEAN : voted[h] = Processed(bs[h], c, now)
  BY DEF Step
<1>c. /\ tabled = IF ref.status = "actuating" THEN Tabled(voted, ref.region, now) ELSE voted
      /\ next = Advanced(ref, yes, tabled, now)
  BY DEF Step
<1> SUFFICES ASSUME t \in 0 .. MaxTurn, now = t + 1, now \in 0 .. MaxTurn,
                    ref \in Records, bs \in BillsOf, Good(ref, bs, t),
                    voted \in BillsOf, yes \in BOOLEAN,
                    \A h \in H : \E c \in BOOLEAN : voted[h] = Processed(bs[h], c, now),
                    tabled = IF ref.status = "actuating"
                             THEN Tabled(voted, ref.region, now) ELSE voted,
                    next = Advanced(ref, yes, tabled, now)
             PROVE  /\ next \in Records /\ After(ref, next, tabled, now) \in BillsOf
                    /\ Good(next, After(ref, next, tabled, now), now)
                    /\ next.region = ref.region /\ next.requested = ref.requested
                    /\ ref.status \in TerminalStatuses => next = ref
                    /\ next.status = "completed" => ref.status \in {"actuating", "completed"}
  BY <1>a, <1>b, <1>c DEF Stepped
<1> DEFINE bills2 == After(ref, next, tabled, now)
           HS == Houses(ref.region)
<1>1. /\ t \in Nat /\ now \in Nat /\ now \in 0 .. MaxTurn /\ MaxTurn \in Nat
      /\ ref.requested \in Nat /\ ref.close \in Nat /\ ref.resolved \in Int
      /\ ref.passed \in BOOLEAN /\ ref.region \in Regions
      /\ ref.status \in ActiveStatuses \cup TerminalStatuses
  BY Windows DEF Records, Never
<1>2. HS \subseteq H /\ "commons" \in HS
  BY HousesOf
<1>3. ASSUME NEW h \in H
      PROVE  /\ voted[h] \in Bills /\ bs[h] \in Bills
             /\ ~ Pending(bs[h]) => voted[h] = bs[h]
             /\ Pending(bs[h]) /\ now < bs[h].due => voted[h] = bs[h]
             /\ bs[h].status = "active" /\ bs[h].due <= now =>
                   \/ voted[h] = [status |-> "enrolled", due |-> now + EXEC_WINDOW]
                   \/ voted[h].status = "failed"
             /\ bs[h].status = "enrolled" /\ bs[h].due <= now => voted[h].status = "signed"
  BY <1>1, BillStep DEF BillsOf
<1>4. NoBills \in BillsOf /\ NoBill \in Bills /\ NoBill.status = "none"
  BY DEF NoBills, NoBill, BillsOf, Bills, H
<1>5. bs = NoBills => voted = NoBills
  <2> SUFFICES ASSUME bs = NoBills PROVE voted = NoBills
    OBVIOUS
  <2>1. \A h \in H : bs[h] = NoBill
    BY DEF NoBills, H
  <2>2. \A h \in H : voted[h] = NoBill
    BY <1>3, <1>4, <2>1 DEF Pending
  <2> QED BY <2>2 DEF BillsOf, NoBills, H
<1>6. \A h \in H \ HS : voted[h] = NoBill
  BY <1>3, <1>4 DEF Good, Pending
<1>7. ASSUME NEW x \in BillsOf
      PROVE  /\ Tabled(x, ref.region, now) \in BillsOf
             /\ \A h \in H : Tabled(x, ref.region, now)[h] =
                    IF h \in HS /\ x[h] = NoBill
                    THEN [status |-> "active", due |-> now + CONVERSION_WINDOW]
                    ELSE x[h]
  <2>1. now + CONVERSION_WINDOW \in 0 .. MaxTurn + CONVERSION_WINDOW + EXEC_WINDOW
    BY <1>1, Windows
  <2>2. [status |-> "active", due |-> now + CONVERSION_WINDOW] \in Bills
    BY <2>1 DEF Bills
  <2> QED BY <2>2 DEF Tabled, BillsOf, H
<1>8. CASE ref.status = "granted"
  <2>1. next = [ref EXCEPT !.status = "campaigning"] /\ tabled = voted /\ voted = NoBills
    BY <1>5, <1>8 DEF Advanced, Good
  <2>2. /\ next \in Records /\ next.status = "campaigning" /\ next.close = ref.close
        /\ next.region = ref.region /\ next.requested = ref.requested
        /\ next.cooldown = ref.cooldown
    BY <2>1 DEF Records, ActiveStatuses
  <2>3. bills2 = NoBills
    BY <1>8, <2>1, <2>2 DEF After
  <2>4. now < next.close
    BY <1>1, <1>8, <2>2, Windows DEF Good
  <2>5. \A h \in H : NoBills[h] = NoBill
    BY DEF NoBills, H
  <2>6. Good(next, NoBills, now)
    BY <1>1, <1>8, <2>2, <2>4, <2>5 DEF Good
  <2> QED BY <1>4, <1>8, <2>2, <2>3, <2>6 DEF TerminalStatuses
<1>9. CASE ref.status = "campaigning"
  <2>1. tabled = voted /\ voted = NoBills
    BY <1>5, <1>9 DEF Good
  <2>2. next = IF now >= ref.close THEN [ref EXCEPT !.status = "polling"] ELSE ref
    BY <1>9 DEF Advanced
  <2>3. /\ next \in Records /\ next.status \in {"campaigning", "polling"}
        /\ next.close = ref.close /\ next.region = ref.region
        /\ next.requested = ref.requested /\ next.cooldown = ref.cooldown
        /\ next.status = "campaigning" => now < ref.close
    BY <1>1, <1>9, <2>2 DEF Records, ActiveStatuses
  <2>4. bills2 = NoBills
    BY <1>9, <2>1, <2>3 DEF After
  <2>5. now <= ref.close
    BY <1>1, <1>9 DEF Good
  <2>6. \A h \in H : NoBills[h] = NoBill
    BY DEF NoBills, H
  <2>7. Good(next, NoBills, now)
    BY <1>1, <1>9, <2>3, <2>5, <2>6 DEF Good
  <2> QED BY <1>4, <1>9, <2>3, <2>4, <2>7 DEF TerminalStatuses
<1>10. CASE ref.status = "polling" /\ yes = FALSE
  <2>1. tabled = voted /\ voted = NoBills
    BY <1>5, <1>10 DEF Good
  <2>2. next = [ref EXCEPT !.status = "settled", !.resolved = now,
                           !.cooldown = now + SETTLED_COOLDOWN]
    BY <1>10 DEF Advanced, Decided
  <2>3. now + SETTLED_COOLDOWN \in 0 .. MaxTurn + SETTLED_COOLDOWN
    BY <1>1, Windows
  <2>4. /\ next \in Records /\ next.status = "settled"
        /\ next.region = ref.region /\ next.requested = ref.requested
    BY <1>1, <2>2, <2>3 DEF Records, TerminalStatuses
  <2>5. bills2 = NoBills
    BY <1>10, <2>1, <2>4 DEF After
  <2>6. \A h \in H : NoBills[h] = NoBill
    BY DEF NoBills, H
  <2>7. Good(next, NoBills, now)
    BY <1>1, <1>10, <2>4, <2>6 DEF Good
  <2> QED BY <1>4, <1>10, <2>4, <2>5, <2>7 DEF TerminalStatuses
<1>11. CASE ref.status = "polling" /\ yes = TRUE
  <2>1. tabled = voted /\ voted = NoBills
    BY <1>5, <1>11 DEF Good
  <2>2. next = [ref EXCEPT !.status = "actuating", !.passed = TRUE, !.resolved = now]
    BY <1>11 DEF Advanced, Decided
  <2>3. /\ next \in Records /\ next.status = "actuating" /\ next.passed = TRUE
        /\ next.resolved = now /\ next.region = ref.region
        /\ next.requested = ref.requested /\ next.cooldown = ref.cooldown
    BY <1>1, <2>2 DEF Records, ActiveStatuses
  <2>4. bills2 = Tabled(NoBills, ref.region, now)
    BY <2>1, <2>3 DEF After
  <2>5. bills2 \in BillsOf
    BY <1>4, <1>7, <2>4
  <2>6. \A h \in H : bills2[h] = IF h \in HS
                                 THEN [status |-> "active", due |-> now + CONVERSION_WINDOW]
                                 ELSE NoBill
    <3>1. \A h \in H : NoBills[h] = NoBill
      BY DEF NoBills, H
    <3> QED BY <1>4, <1>7, <2>4, <3>1
  <2> HIDE DEF bills2
  <2>7. \A h \in HS : /\ bills2[h].status = "active" /\ Pending(bills2[h])
                      /\ now < bills2[h].due
                      /\ bills2[h].due <= next.resolved + 1 + CONVERSION_WINDOW
    BY <1>1, <1>2, <2>3, <2>6, Windows DEF Pending
  <2>8. Good(next, bills2, now)
    <3>1. ref.requested <= now /\ ref.cooldown = Never /\ next.resolved \in 0 .. now
      <4>1. ref.requested <= t /\ ref.cooldown = Never
        BY <1>11 DEF Good
      <4> QED BY <1>1, <2>3, <4>1
    <3>2. \A h \in HS : /\ bills2[h].status \in {"active", "enrolled", "signed"}
                        /\ bills2[h].status # "enrolled"
      BY <2>7
    <3>3. \E h \in HS : Pending(bills2[h])
      BY <1>2, <2>7
    <3>4. \A h \in H \ HS : bills2[h] = NoBill
      BY <2>6
    <3>5. Houses(next.region) = HS
      BY <2>3
    <3> HIDE DEF HS
    <3> QED BY <2>3, <2>7, <3>1, <3>2, <3>3, <3>4, <3>5 DEF Good
  <2> QED BY <1>11, <2>3, <2>5, <2>8 DEF TerminalStatuses, bills2
<1>12. CASE ref.status = "actuating"
  <2> DEFINE T == Tabled(voted, ref.region, now)
  <2>1. tabled = T /\ T \in BillsOf
    BY <1>7, <1>12
  <2>2. \A h \in H : T[h] = IF h \in HS /\ voted[h] = NoBill
                            THEN [status |-> "active", due |-> now + CONVERSION_WINDOW]
                            ELSE voted[h]
    BY <1>7
  <2> HIDE DEF T
  <2>3. /\ ref.passed = TRUE /\ ref.resolved \in 0 .. t
        /\ ref.cooldown = Never /\ ref.requested <= t
    BY <1>1, <1>12 DEF Good
  <2>4. ASSUME NEW h \in HS
        PROVE  /\ T[h].status \in {"active", "enrolled", "signed", "failed"}
               /\ Pending(T[h]) => now < T[h].due
               /\ T[h].status = "active" => T[h].due <= ref.resolved + 1 + CONVERSION_WINDOW
               /\ T[h].status = "enrolled" =>
                     T[h].due <= ref.resolved + 1 + CONVERSION_WINDOW + EXEC_WINDOW
    <3>0. h \in H /\ bs[h] \in Bills /\ voted[h] \in Bills /\ bs[h].due \in Int
      BY <1>2, <1>3, Windows DEF Bills, Never
    <3>1. CASE bs = NoBills /\ t = ref.resolved
      <4>1. voted[h] = NoBill
        BY <1>5, <3>0, <3>1 DEF NoBills, H
      <4>2. T[h] = [status |-> "active", due |-> now + CONVERSION_WINDOW]
        BY <2>2, <3>0, <4>1
      <4> QED BY <1>1, <3>1, <4>2, Windows DEF Pending
    <3>2. CASE ~ (bs = NoBills /\ t = ref.resolved)
      <4>1. /\ bs[h].status \in {"active", "enrolled", "signed"}
            /\ Pending(bs[h]) => t < bs[h].due
            /\ bs[h].status = "active" => bs[h].due <= ref.resolved + 1 + CONVERSION_WINDOW
            /\ bs[h].status = "enrolled" =>
                  bs[h].due <= ref.resolved + 1 + CONVERSION_WINDOW + EXEC_WINDOW
        BY <1>12, <3>2 DEF Good
      <4>2. voted[h].status # "none" => T[h] = voted[h]
        BY <1>4, <2>2, <3>0
      <4>3. CASE ~ Pending(bs[h])
        BY <1>3, <3>0, <4>1, <4>2, <4>3 DEF Pending
      <4>4. CASE Pending(bs[h]) /\ now < bs[h].due
        BY <1>3, <3>0, <4>1, <4>2, <4>4 DEF Pending
      <4>5. CASE bs[h].status = "active" /\ bs[h].due <= now
        <5>1. bs[h].due = now
          BY <1>1, <3>0, <4>1, <4>5 DEF Pending
        <5>2. CASE voted[h] = [status |-> "enrolled", due |-> now + EXEC_WINDOW]
          <6>1. T[h].status = "enrolled" /\ T[h].due = now + EXEC_WINDOW
            BY <4>2, <5>2
          <6>2. now <= ref.resolved + 1 + CONVERSION_WINDOW
            BY <4>1, <4>5, <5>1
          <6> QED BY <1>1, <2>3, <6>1, <6>2, Windows DEF Pending
        <5>3. CASE voted[h].status = "failed"
          BY <4>2, <5>3 DEF Pending
        <5> QED BY <1>3, <3>0, <4>5, <5>2, <5>3
      <4>6. CASE bs[h].status = "enrolled" /\ bs[h].due <= now
        BY <1>3, <3>0, <4>2, <4>6 DEF Pending
      <4> QED BY <1>1, <3>0, <4>3, <4>4, <4>5, <4>6 DEF Pending
    <3> QED BY <3>1, <3>2
  <2>5. \A h \in H \ HS : T[h] = NoBill
    BY <1>6, <2>2
  <2>6. CASE Consented(T, ref.region)
    <3>1. \A h \in HS : T[h].status = "signed"
      BY <2>6 DEF Consented
    <3>2. next = [ref EXCEPT !.status = "completed"]
      BY <1>12, <2>1, <2>6, <3>1 DEF Advanced, Refused
    <3>3. /\ next \in Records /\ next.status = "completed" /\ next.passed = TRUE
          /\ next.region = ref.region /\ next.requested = ref.requested
          /\ next.cooldown = ref.cooldown
      BY <2>3, <3>2 DEF Records, TerminalStatuses
    <3>4. bills2 = T
      BY <2>1, <3>3 DEF After
    <3>5. Good(next, T, now)
      BY <1>1, <2>3, <2>5, <3>1, <3>3 DEF Good
    <3> QED BY <1>12, <2>1, <3>3, <3>4, <3>5 DEF TerminalStatuses
  <2>7. CASE ~ Consented(T, ref.region) /\ Refused(T, ref.region)
    <3>1. next = [ref EXCEPT !.status = "cancelled"]
      BY <1>12, <2>1, <2>7 DEF Advanced
    <3>2. /\ next \in Records /\ next.status = "cancelled" /\ next.cooldown = Never
          /\ next.region = ref.region /\ next.requested = ref.requested
      BY <2>3, <3>1 DEF Records, TerminalStatuses
    <3>3. bills2 = Withdrawn(T)
      BY <1>12, <2>1, <3>2 DEF After
    <3>4. /\ Withdrawn(T) \in BillsOf
          /\ \A h \in H : ~ Pending(Withdrawn(T)[h])
                          /\ (~ Pending(T[h]) => Withdrawn(T)[h] = T[h])
      <4>1. \A h \in H : T[h] \in Bills
        BY <2>1 DEF BillsOf
      <4>2. \A h \in H : /\ [T[h] EXCEPT !.status = "withdrawn"] \in Bills
                         /\ [T[h] EXCEPT !.status = "withdrawn"].status = "withdrawn"
        BY <4>1 DEF Bills
      <4> QED BY <2>1, <4>1, <4>2 DEF Withdrawn, BillsOf, Pending
    <3>5. \A h \in H \ HS : Withdrawn(T)[h] = NoBill
      BY <1>4, <2>5, <3>4 DEF Pending
    <3>6. Good(next, Withdrawn(T), now)
      BY <1>1, <2>3, <3>2, <3>4, <3>5 DEF Good
    <3> QED BY <1>12, <3>2, <3>3, <3>4, <3>6 DEF TerminalStatuses
  <2>8. CASE ~ Consented(T, ref.region) /\ ~ Refused(T, ref.region)
    <3>1. next = ref
      BY <1>12, <2>1, <2>8 DEF Advanced
    <3>2. bills2 = Tabled(T, ref.region, now)
      BY <1>12, <2>1, <3>1 DEF After
    <3>3. \A h \in HS : T[h].status \in {"active", "enrolled", "signed"}
      BY <2>4, <2>8 DEF Refused
    <3>4. \E h \in HS : Pending(T[h])
      BY <2>8, <3>3 DEF Consented, Pending
    <3>5. Tabled(T, ref.region, now) = T
      <4>1. \A h \in H : Tabled(T, ref.region, now)[h] = T[h]
        BY <1>4, <1>7, <2>1, <3>3
      <4> QED BY <1>7, <2>1, <4>1 DEF BillsOf
    <3>6. Good(ref, T, now)
      BY <1>1, <1>12, <2>3, <2>4, <2>5, <3>3, <3>4 DEF Good
    <3> QED BY <1>12, <2>1, <3>1, <3>2, <3>5, <3>6 DEF TerminalStatuses
  <2> QED BY <2>6, <2>7, <2>8
<1>13. CASE ref.status \in TerminalStatuses
  <2>1. next = ref /\ tabled = voted
    BY <1>13 DEF Advanced, TerminalStatuses
  <2>2. bills2 = voted
    BY <1>13, <2>1 DEF After, TerminalStatuses
  <2>3. \A h \in H : ~ Pending(bs[h])
    <3>1. CASE ref.status = "settled"
      BY <1>4, <3>1 DEF Good, NoBills, H, Pending
    <3>2. CASE ref.status = "completed"
      BY <1>4, <3>2 DEF Good, Pending
    <3>3. CASE ref.status = "cancelled"
      BY <3>3 DEF Good
    <3> QED BY <1>13, <3>1, <3>2, <3>3 DEF TerminalStatuses
  <2>4. voted = bs
    BY <1>3, <2>3 DEF BillsOf
  <2>5. Good(ref, bs, now)
    BY <1>1, <1>13 DEF Good, TerminalStatuses
  <2> QED BY <1>13, <2>1, <2>2, <2>4, <2>5 DEF TerminalStatuses
<1> QED BY <1>1, <1>8, <1>9, <1>10, <1>11, <1>12, <1>13 DEF ActiveStatuses

-----------------------------------------------------------------------------
\* The inductive invariant

RecordsGood == \A n \in DOMAIN refs : Good(refs[n], bills[n], turn)

LastStands ==
    \A r \in Regions : Of(r) = {} \/ \E n \in Of(r) : \A m \in Of(r) : m <= n

IInv == TypeOK /\ RecordsGood /\ LastStands /\ OneReferendumPerRegion /\ SecededByConsent

LEMMA Shape ==
    ASSUME TypeOK
    PROVE  /\ Len(refs) \in Nat /\ DOMAIN refs = 1 .. Len(refs)
           /\ DOMAIN bills = DOMAIN refs
           /\ \A n \in DOMAIN refs : refs[n] \in Records /\ bills[n] \in BillsOf /\ n \in Nat
           /\ turn \in 0 .. MaxTurn /\ turn \in Nat
BY Windows DEF TypeOK, BillsOf, H

LEMMA InitHolds ==
    ASSUME Init
    PROVE  IInv
<1>1. /\ turn = 0 /\ wish = Regions /\ owner = [r \in Regions |-> "UK"] /\ country = "UK"
      /\ \/ refs = <<>> /\ bills = <<>>
         \/ \E r \in Regions : refs = <<Legacy(r)>> /\ bills = <<NoBills>>
  BY DEF Init
<1>2. CASE refs = <<>> /\ bills = <<>>
  <2>1. DOMAIN refs = {} /\ Len(refs) = 0 /\ refs \in Seq(Records)
    BY <1>2
  <2>2. bills \in Seq([{"commons", "dail"} -> Bills]) /\ Len(bills) = 0
    BY <1>2
  <2>3. TypeOK
    BY <1>1, <2>1, <2>2, Windows DEF TypeOK
  <2>4. \A r \in Regions : Of(r) = {}
    BY <2>1 DEF Of
  <2> QED BY <1>1, <2>1, <2>3, <2>4
          DEF IInv, RecordsGood, LastStands, OneReferendumPerRegion, SecededByConsent
<1>3. ASSUME NEW r \in Regions, refs = <<Legacy(r)>>, bills = <<NoBills>>
      PROVE  IInv
  <2> DEFINE l == Legacy(r)
  <2>1. 0 + CAMPAIGN_WINDOW \in 0 .. MaxTurn + CAMPAIGN_WINDOW /\ 0 \in 0 .. MaxTurn
        /\ 0 \in 0 .. MaxTurn + CAMPAIGN_WINDOW
    BY Windows
  <2>2. /\ l \in Records /\ l.status = "actuating" /\ l.region = r /\ l.requested = 0
        /\ l.resolved = 0 /\ l.passed = TRUE /\ l.cooldown = Never
    BY <1>1, <2>1 DEF Legacy, Granted, Records, ActiveStatuses
  <2> HIDE DEF l
  <2>3. NoBills \in BillsOf /\ \A h \in H : NoBills[h] = NoBill
    BY DEF NoBills, NoBill, BillsOf, Bills, H
  <2>4. DOMAIN refs = {1} /\ refs[1] = l /\ bills[1] = NoBills /\ Len(refs) = 1 /\ Len(bills) = 1
    BY <1>3 DEF l
  <2>5. refs \in Seq(Records) /\ bills \in Seq(BillsOf)
    BY <1>3, <2>2, <2>3 DEF l
  <2>6. 1 <= MaxReferendums
    BY RegionsAssumption
  <2>7. TypeOK
    BY <1>1, <2>4, <2>5, <2>6, Windows DEF TypeOK, BillsOf, H
  <2>8. RecordsGood
    BY <1>1, <2>2, <2>3, <2>4 DEF RecordsGood, Good
  <2>9. LastStands
    <3> SUFFICES ASSUME NEW q \in Regions, Of(q) # {}
                 PROVE  \E n \in Of(q) : \A m \in Of(q) : m <= n
      BY DEF LastStands
    <3>1. Of(q) = {1}
      BY <2>4 DEF Of
    <3> QED BY <3>1
  <2>10. OneReferendumPerRegion
    BY <2>4 DEF OneReferendumPerRegion
  <2>11. SecededByConsent
    BY <1>1, <2>2, <2>4 DEF SecededByConsent, Of
  <2> QED BY <2>7, <2>8, <2>9, <2>10, <2>11 DEF IInv
<1> QED BY <1>1, <1>2, <1>3

LEMMA RequestKeeps ==
    ASSUME IInv, NEW r \in Regions, RequestReferendum(r)
    PROVE  IInv'
<1> DEFINE new == Granted(r)
           n == Len(refs) + 1
<1>1. /\ Len(refs) \in Nat /\ DOMAIN refs = 1 .. Len(refs) /\ DOMAIN bills = DOMAIN refs
      /\ \A m \in DOMAIN refs : refs[m] \in Records /\ bills[m] \in BillsOf /\ m \in Nat
      /\ turn \in 0 .. MaxTurn /\ turn \in Nat
      /\ refs \in Seq(Records) /\ bills \in Seq(BillsOf) /\ Len(bills) = Len(refs)
  BY Shape DEF IInv, TypeOK, BillsOf, H
<1>2. /\ Len(refs) < MaxReferendums /\ owner[r] = "UK"
      /\ \A m \in Of(r) : refs[m].status \notin ActiveStatuses
      /\ ~ CoolingOff(r)
      /\ refs' = Append(refs, new) /\ bills' = Append(bills, NoBills)
      /\ turn' = turn /\ wish' = wish /\ owner' = owner /\ country' = country
  BY DEF RequestReferendum
<1>3. /\ new \in Records /\ new.status = "granted" /\ new.region = r
      /\ new.requested = turn /\ new.close = turn + CAMPAIGN_WINDOW
      /\ new.cooldown = Never
  <2>1. turn + CAMPAIGN_WINDOW \in 0 .. MaxTurn + CAMPAIGN_WINDOW
    BY <1>1, Windows
  <2> QED BY <1>1, <2>1 DEF Granted, Records, ActiveStatuses
<1> HIDE DEF new
<1>4. NoBills \in BillsOf /\ \A h \in H : NoBills[h] = NoBill
  BY DEF NoBills, NoBill, BillsOf, Bills, H
<1>5. /\ refs' \in Seq(Records) /\ bills' \in Seq(BillsOf)
      /\ Len(refs') = n /\ Len(bills') = n /\ n \in Nat /\ n \notin DOMAIN refs
      /\ DOMAIN refs' = DOMAIN refs \cup {n} /\ refs'[n] = new /\ bills'[n] = NoBills
      /\ \A m \in DOMAIN refs : refs'[m] = refs[m] /\ bills'[m] = bills[m] /\ m < n
  BY <1>1, <1>2, <1>3, <1>4
<1> HIDE DEF n
<1>6. n <= MaxReferendums
  BY <1>1, <1>2, Windows DEF n
<1>7. TypeOK'
  BY <1>2, <1>5, <1>6 DEF IInv, TypeOK, BillsOf, H
<1>8. RecordsGood'
  <2>1. Good(new, NoBills, turn)
    BY <1>1, <1>3, <1>4 DEF Good
  <2>2. \A m \in DOMAIN refs' : Good(refs'[m], bills'[m], turn')
    BY <1>2, <1>5, <2>1 DEF IInv, RecordsGood
  <2> QED BY <2>2 DEF RecordsGood, Good, Houses, NoBill, NoBills, Pending
<1>9. \A q \in Regions : Of(q)' = Of(q) \cup {m \in {n} : q = r}
  BY <1>3, <1>5 DEF Of
<1>10. LastStands'
  <2> SUFFICES ASSUME NEW q \in Regions, Of(q)' # {}
               PROVE  \E k \in Of(q)' : \A m \in Of(q)' : m <= k
    BY DEF LastStands, Of
  <2>1. CASE q = r
    <3>1. n \in Of(q)' /\ \A m \in Of(q)' : m <= n
      BY <1>1, <1>5, <1>9, <2>1 DEF Of
    <3> QED BY <3>1
  <2>2. CASE q # r
    BY <1>9, <2>2 DEF IInv, LastStands
  <2> QED BY <2>1, <2>2
<1>11. \A m \in Of(r) : /\ refs[m].status \in {"settled", "cancelled"}
                        /\ refs[m].cooldown <= turn
  <2>1. \A m \in Of(r) : refs[m].status \in {"settled", "cancelled"}
    <3>1. \A m \in Of(r) : refs[m].status # "completed"
      BY <1>2 DEF IInv, SecededByConsent
    <3> QED BY <1>1, <1>2, <3>1 DEF Of, Records, TerminalStatuses
  <2>2. Ended(r) = Of(r)
    BY <2>1 DEF Ended, TerminalStatuses
  <2> SUFFICES ASSUME NEW m \in Of(r)
               PROVE  refs[m].cooldown <= turn
    BY <2>1
  <2>3. PICK l \in Of(r) : \A k \in Of(r) : k <= l
    BY DEF IInv, LastStands
  <2>4. /\ l \in DOMAIN refs /\ m \in DOMAIN refs /\ m <= l /\ m \in Nat /\ l \in Nat
        /\ refs[m].region = refs[l].region
        /\ refs[l] \in Records /\ refs[m] \in Records
    BY <1>1, <2>3 DEF Of
  <2>7. refs[l].cooldown \in Int /\ refs[m].cooldown \in Int
    BY <2>4, Windows DEF Records, Never
  <2>5. refs[l].cooldown <= turn
    BY <1>1, <1>2, <2>2, <2>3, <2>4, <2>7 DEF CoolingOff
  <2>6. CASE m < l
    <3>1. refs[m].cooldown <= refs[l].requested
      BY <2>4, <2>6 DEF IInv, OneReferendumPerRegion
    <3>2. refs[l].requested <= turn /\ refs[l].requested \in Int
      BY <1>1, <2>4 DEF IInv, RecordsGood, Good, Records
    <3> QED BY <1>1, <2>4, <2>7, <3>1, <3>2
  <2> QED BY <2>4, <2>5, <2>6
<1>12. OneReferendumPerRegion'
  <2> SUFFICES ASSUME NEW k \in DOMAIN refs', NEW m \in DOMAIN refs',
                      k < m, refs'[k].region = refs'[m].region
               PROVE  /\ refs'[k].status \in {"settled", "cancelled"}
                      /\ refs'[k].cooldown <= refs'[m].requested
    BY DEF OneReferendumPerRegion
  <2>1. CASE m = n
    <3>1. k \in Of(r) /\ refs'[k] = refs[k]
      BY <1>1, <1>3, <1>5, <2>1 DEF Of
    <3> QED BY <1>3, <1>5, <1>11, <2>1, <3>1
  <2>2. CASE m # n
    <3>1. m \in DOMAIN refs /\ k \in DOMAIN refs
      BY <1>1, <1>5, <2>2
    <3> QED BY <1>5, <3>1 DEF IInv, OneReferendumPerRegion
  <2> QED BY <2>1, <2>2
<1>13. SecededByConsent'
  <2>1. ASSUME NEW q \in Regions
        PROVE  owner'[q] # "UK" <=> \E m \in Of(q)' : refs'[m].status = "completed"
    <3>1. owner[q] # "UK" <=> \E m \in Of(q) : refs[m].status = "completed"
      BY DEF IInv, SecededByConsent
    <3>2. Of(q) \subseteq DOMAIN refs
      BY DEF Of
    <3> QED BY <1>2, <1>3, <1>5, <1>9, <3>1, <3>2
  <2>2. ASSUME NEW m \in DOMAIN refs', refs'[m].status = "completed"
        PROVE  /\ refs'[m].passed /\ owner'[refs'[m].region] = Joins(refs'[m].region)
               /\ \A h \in Houses(refs'[m].region) : bills'[m][h].status = "signed"
    <3>1. m \in DOMAIN refs /\ refs'[m] = refs[m] /\ bills'[m] = bills[m]
      BY <1>3, <1>5, <2>2
    <3> QED BY <1>2, <2>2, <3>1 DEF IInv, SecededByConsent
  <2>3. country' # "UK" <=> Home \in Regions /\ owner'[Home] # "UK"
    BY <1>2 DEF IInv, SecededByConsent
  <2> QED BY <2>1, <2>2, <2>3 DEF SecededByConsent, Of, Joins, Houses
<1> QED BY <1>7, <1>8, <1>10, <1>12, <1>13 DEF IInv

LEMMA EndTurnKeeps ==
    ASSUME IInv, EndTurn
    PROVE  IInv'
<1>1. /\ Len(refs) \in Nat /\ DOMAIN refs = 1 .. Len(refs) /\ DOMAIN bills = DOMAIN refs
      /\ \A m \in DOMAIN refs : refs[m] \in Records /\ bills[m] \in BillsOf /\ m \in Nat
      /\ turn \in 0 .. MaxTurn /\ turn \in Nat
      /\ Len(refs) <= MaxReferendums
  BY Shape DEF IInv, TypeOK
<1> DEFINE now == turn + 1
<1>2. turn' = now /\ now \in 0 .. MaxTurn
  BY <1>1, Windows DEF EndTurn
<1>3. PICK carried \in SUBSET Closing(now), yes \in SUBSET Polling :
        LET voted == [n \in DOMAIN bills |->
                        [h \in DOMAIN bills[n] |->
                           Processed(bills[n][h], <<n, h>> \in carried, now)]]
            tabled == [n \in DOMAIN bills |->
                        IF refs[n].status = "actuating"
                        THEN Tabled(voted[n], refs[n].region, now) ELSE voted[n]]
            next == [n \in DOMAIN refs |-> Advanced(refs[n], n \in yes, tabled[n], now)]
            gone == Leaving(refs, next)
        IN
        /\ refs' = next
        /\ bills' = [n \in DOMAIN bills |-> After(refs[n], next[n], tabled[n], now)]
        /\ owner' = [r \in Regions |-> IF r \in gone THEN Joins(r) ELSE owner[r]]
        /\ country' = IF Home \in gone THEN Joins(Home) ELSE country
        /\ \E drifted \in SUBSET Regions :
              wish' = drifted \ {refs[n].region : n \in Polling \ yes}
  BY DEF EndTurn, After
<1> DEFINE voted == [n \in DOMAIN bills |->
                       [h \in DOMAIN bills[n] |->
                          Processed(bills[n][h], <<n, h>> \in carried, now)]]
           tabled == [n \in DOMAIN bills |->
                       IF refs[n].status = "actuating"
                       THEN Tabled(voted[n], refs[n].region, now) ELSE voted[n]]
           next == [n \in DOMAIN refs |-> Advanced(refs[n], n \in yes, tabled[n], now)]
           gone == Leaving(refs, next)
<1>4. /\ refs' = next
      /\ bills' = [n \in DOMAIN bills |-> After(refs[n], next[n], tabled[n], now)]
      /\ owner' = [r \in Regions |-> IF r \in gone THEN Joins(r) ELSE owner[r]]
      /\ country' = IF Home \in gone THEN Joins(Home) ELSE country
      /\ wish' \subseteq Regions
  BY <1>3
<1> HIDE DEF gone
<1>5. ASSUME NEW n \in DOMAIN refs
      PROVE  /\ refs'[n] \in Records /\ bills'[n] \in BillsOf
             /\ Good(refs'[n], bills'[n], now)
             /\ refs'[n].region = refs[n].region /\ refs'[n].requested = refs[n].requested
             /\ refs[n].status \in TerminalStatuses => refs'[n] = refs[n]
             /\ refs'[n].status = "completed" => refs[n].status \in {"actuating", "completed"}
  <2>1. refs[n] \in Records /\ bills[n] \in BillsOf /\ Good(refs[n], bills[n], turn)
    BY <1>1 DEF IInv, RecordsGood
  <2>2. /\ voted[n] \in BillsOf
        /\ \A h \in H : \E c \in BOOLEAN : voted[n][h] = Processed(bills[n][h], c, now)
    <3>1. voted[n] = [h \in H |-> Processed(bills[n][h], <<n, h>> \in carried, now)]
      BY <1>1, <2>1 DEF BillsOf
    <3>2. ASSUME NEW h \in H
          PROVE  Processed(bills[n][h], <<n, h>> \in carried, now) \in Bills
      <4>1. bills[n][h] \in Bills /\ (<<n, h>> \in carried) \in BOOLEAN
        BY <2>1 DEF BillsOf
      <4> QED BY <1>2, <4>1, BillStep
    <3>3. voted[n] \in BillsOf
      BY <3>1, <3>2 DEF BillsOf
    <3>4. ASSUME NEW h \in H
          PROVE  \E c \in BOOLEAN : voted[n][h] = Processed(bills[n][h], c, now)
      <4>1. voted[n][h] = Processed(bills[n][h], <<n, h>> \in carried, now)
        BY <3>1
      <4>2. (<<n, h>> \in carried) \in BOOLEAN
        OBVIOUS
      <4> QED BY <4>1, <4>2
    <3> QED BY <3>3, <3>4
  <2>3. tabled[n] = IF refs[n].status = "actuating"
                    THEN Tabled(voted[n], refs[n].region, now) ELSE voted[n]
    BY <1>1
  <2> DEFINE y == n \in yes
  <2>4. y \in BOOLEAN /\ next[n] = Advanced(refs[n], y, tabled[n], now)
    OBVIOUS
  <2>5. refs'[n] = next[n] /\ bills'[n] = After(refs[n], next[n], tabled[n], now)
    BY <1>1, <1>4
  <2> DEFINE V == voted[n]
             T == tabled[n]
             N == next[n]
  <2> HIDE DEF y
  <2>6. /\ Step(refs[n], bills[n], turn, turn + 1, V, y, T, N)
        /\ refs'[n] = N /\ bills'[n] = After(refs[n], N, T, turn + 1)
    BY <1>1, <1>2, <2>1, <2>2, <2>3, <2>4, <2>5 DEF Step
  <2> HIDE DEF voted, tabled, next, V, T, N
  <2>7. Stepped(refs[n], N, T, turn + 1)
    BY <2>6, RecordStep
  <2> QED BY <2>6, <2>7 DEF Stepped
<1> HIDE DEF voted, tabled, next
<1>6. DOMAIN refs' = DOMAIN refs /\ DOMAIN bills' = DOMAIN refs
  BY <1>1, <1>4 DEF next
<1>7. /\ refs' \in Seq(Records) /\ bills' \in Seq(BillsOf)
      /\ Len(refs') = Len(refs) /\ Len(bills') = Len(refs)
  <2>1. refs' = [n \in 1 .. Len(refs) |-> refs'[n]]
    BY <1>1, <1>4, <1>6 DEF next
  <2>2. bills' = [n \in 1 .. Len(refs) |-> bills'[n]]
    BY <1>1, <1>4, <1>6
  <2>3. /\ refs' \in [1 .. Len(refs) -> Records]
        /\ bills' \in [1 .. Len(refs) -> BillsOf]
    BY <1>1, <1>5, <2>1, <2>2
  <2>4. refs' \in Seq(Records) /\ bills' \in Seq(BillsOf)
    BY <1>1, <2>3, SeqDef
  <2> QED BY <1>1, <1>6, <2>4
<1>8. \A r \in Regions : Joins(r) # "UK" /\ Joins(r) \in {"UK", "IE"} \cup Regions
  BY RegionsAssumption DEF Joins
<1>9. \A r : r \in gone <=> \E n \in DOMAIN refs : /\ refs[n].region = r
                                                  /\ refs[n].status = "actuating"
                                                  /\ refs'[n].status = "completed"
  BY <1>4 DEF gone, Leaving
<1>10. gone \subseteq Regions
  BY <1>1, <1>9 DEF Records
<1>11. \A r \in Regions : owner'[r] = IF r \in gone THEN Joins(r) ELSE owner[r]
  BY <1>4
<1>12. TypeOK'
  <2>1. owner' \in [Regions -> {"UK", "IE"} \cup Regions]
    BY <1>4, <1>8 DEF IInv, TypeOK
  <2>2. country' \in {"UK", "IE"} \cup Regions
    BY <1>4, <1>8, <1>10 DEF IInv, TypeOK
  <2> QED BY <1>1, <1>2, <1>4, <1>7, <2>1, <2>2 DEF TypeOK, BillsOf, H
<1>13. RecordsGood'
  <2>1. \A n \in DOMAIN refs' : Good(refs'[n], bills'[n], turn')
    BY <1>2, <1>5, <1>6
  <2> QED BY <2>1 DEF RecordsGood, Good, Houses, NoBill, NoBills, Pending
<1>14. \A r \in Regions : Of(r)' = Of(r)
  BY <1>5, <1>6 DEF Of
<1>15. LastStands'
  BY <1>14 DEF IInv, LastStands
<1>16. OneReferendumPerRegion'
  <2> SUFFICES ASSUME NEW k \in DOMAIN refs, NEW m \in DOMAIN refs,
                      k < m, refs'[k].region = refs'[m].region
               PROVE  /\ refs'[k].status \in {"settled", "cancelled"}
                      /\ refs'[k].cooldown <= refs'[m].requested
    BY <1>6 DEF OneReferendumPerRegion
  <2>1. /\ refs[k].status \in {"settled", "cancelled"}
        /\ refs[k].cooldown <= refs[m].requested
    BY <1>5 DEF IInv, OneReferendumPerRegion
  <2> QED BY <1>5, <2>1 DEF TerminalStatuses
<1>17. SecededByConsent'
  <2>1. ASSUME NEW r \in Regions
        PROVE  owner'[r] # "UK" <=> \E n \in Of(r) : refs'[n].status = "completed"
    <3>1. owner[r] # "UK" <=> \E n \in Of(r) : refs[n].status = "completed"
      BY DEF IInv, SecededByConsent
    <3>2. CASE r \in gone
      BY <1>8, <1>9, <1>11, <3>2 DEF Of
    <3>3. CASE r \notin gone
      <4>1. \A n \in Of(r) : refs'[n].status = "completed" <=> refs[n].status = "completed"
        BY <1>5, <1>9, <3>3 DEF Of, TerminalStatuses
      <4> QED BY <1>11, <3>1, <3>3, <4>1
    <3> QED BY <3>2, <3>3
  <2>2. ASSUME NEW n \in DOMAIN refs, refs'[n].status = "completed"
        PROVE  /\ refs'[n].passed /\ owner'[refs'[n].region] = Joins(refs'[n].region)
               /\ \A h \in Houses(refs'[n].region) : bills'[n][h].status = "signed"
    <3>1. /\ refs'[n].passed
          /\ \A h \in Houses(refs'[n].region) : bills'[n][h].status = "signed"
      BY <1>5, <2>2 DEF Good
    <3>2. refs[n].region \in Regions /\ refs'[n].region = refs[n].region
      BY <1>1, <1>5 DEF Records
    <3>3. CASE refs[n].region \in gone
      BY <1>11, <3>1, <3>2, <3>3
    <3>4. CASE refs[n].region \notin gone
      <4>1. refs[n].status = "completed"
        BY <1>5, <1>9, <2>2, <3>4
      <4>2. owner[refs[n].region] = Joins(refs[n].region)
        BY <4>1 DEF IInv, SecededByConsent
      <4> QED BY <1>11, <3>1, <3>2, <3>4, <4>2
    <3> QED BY <3>3, <3>4
  <2>3. country' # "UK" <=> Home \in Regions /\ owner'[Home] # "UK"
    <3>1. country # "UK" <=> Home \in Regions /\ owner[Home] # "UK"
      BY DEF IInv, SecededByConsent
    <3> QED BY <1>4, <1>8, <1>10, <1>11, <3>1
  <2> QED BY <1>6, <1>14, <2>1, <2>2, <2>3 DEF SecededByConsent, Joins, Houses
<1> QED BY <1>12, <1>13, <1>15, <1>16, <1>17 DEF IInv

LEMMA Invariance == Spec => []IInv
<1>1. Init => IInv
  BY InitHolds
<1>2. IInv /\ [Next]_vars => IInv'
  <2> SUFFICES ASSUME IInv, [Next]_vars PROVE IInv'
    OBVIOUS
  <2>1. CASE EndTurn
    BY <2>1, EndTurnKeeps
  <2>2. ASSUME NEW r \in Regions, RequestReferendum(r)
        PROVE  IInv'
    BY <2>2, RequestKeeps
  <2>3. CASE UNCHANGED vars
    <3>1. /\ turn' = turn /\ wish' = wish /\ owner' = owner /\ country' = country
          /\ refs' = refs /\ bills' = bills
      BY <2>3 DEF vars
    <3>2. TypeOK'
      BY <3>1 DEF IInv, TypeOK
    <3>3. RecordsGood'
      <4>1. \A n \in DOMAIN refs' : Good(refs'[n], bills'[n], turn')
        BY <3>1 DEF IInv, RecordsGood
      <4> QED BY <4>1 DEF RecordsGood, Good, Houses, NoBill, NoBills, Pending
    <3>4. LastStands' /\ OneReferendumPerRegion'
      BY <3>1 DEF IInv, LastStands, OneReferendumPerRegion, Of
    <3>5. SecededByConsent'
      BY <3>1 DEF IInv, SecededByConsent, Of, Joins, Houses
    <3> QED BY <3>2, <3>3, <3>4, <3>5 DEF IInv
  <2> QED BY <2>1, <2>2, <2>3 DEF Next
<1> QED BY <1>1, <1>2, PTL DEF Spec

-----------------------------------------------------------------------------
\* The results

\* The shape of the state is kept through every request, ballot and vote.
THEOREM TypeCorrect == Spec => []TypeOK
BY Invariance, PTL DEF IInv

\* referendumRequestEligibility looks only at the last referendum that ended;
\* that is enough for no region ever to ask out of turn.
THEOREM OneAtATime == Spec => []OneReferendumPerRegion
BY Invariance, PTL DEF IInv

\* A region leaves by a carried and consented referendum, and only so.
THEOREM LeavesByConsent == Spec => []SecededByConsent
BY Invariance, PTL DEF IInv

\* No referendum, and no consent bill, outlasts the windows of the source.
THEOREM EveryStageEnds == Spec => []NoReferendumHangs
<1>1. IInv => NoReferendumHangs
  <2> SUFFICES ASSUME IInv, NEW n \in DOMAIN refs
               PROVE  /\ refs[n].status = "campaigning" => turn < refs[n].close
                      /\ refs[n].status = "polling" => turn <= refs[n].close
                      /\ refs[n].status = "actuating" =>
                            turn <= refs[n].resolved + CONVERSION_WINDOW + EXEC_WINDOW
                      /\ \A h \in DOMAIN bills[n] : Pending(bills[n][h]) =>
                            refs[n].status = "actuating" /\ turn < bills[n][h].due
    BY DEF NoReferendumHangs
  <2>1. /\ Good(refs[n], bills[n], turn) /\ turn \in Nat
        /\ refs[n] \in Records /\ bills[n] \in BillsOf
    BY Shape DEF IInv, RecordsGood
  <2>2. /\ refs[n].resolved \in Int /\ DOMAIN bills[n] = H
        /\ refs[n].status \in ActiveStatuses \cup TerminalStatuses
        /\ \A h \in H : bills[n][h] \in Bills /\ bills[n][h].due \in Int
    BY <2>1, Windows DEF Records, BillsOf, Bills, Never
  <2>3. /\ refs[n].status = "campaigning" => turn < refs[n].close
        /\ refs[n].status = "polling" => turn <= refs[n].close
    BY <2>1 DEF Good
  <2>4. ASSUME refs[n].status = "actuating"
        PROVE  turn <= refs[n].resolved + CONVERSION_WINDOW + EXEC_WINDOW
    <3>1. CASE turn = refs[n].resolved
      BY <2>1, <2>2, <3>1, Windows
    <3>2. CASE turn # refs[n].resolved
      <4>1. PICK h \in Houses(refs[n].region) :
              /\ Pending(bills[n][h]) /\ turn < bills[n][h].due
              /\ bills[n][h].status = "active" =>
                    bills[n][h].due <= refs[n].resolved + 1 + CONVERSION_WINDOW
              /\ bills[n][h].status = "enrolled" =>
                    bills[n][h].due <= refs[n].resolved + 1 + CONVERSION_WINDOW + EXEC_WINDOW
        BY <2>1, <2>4, <3>2 DEF Good
      <4>2. bills[n][h].due \in Int
        BY <2>2, HousesOf
      <4> QED BY <2>1, <2>2, <4>1, <4>2, Windows DEF Pending
    <3> QED BY <3>1, <3>2
  <2>5. ASSUME NEW h \in H, Pending(bills[n][h])
        PROVE  refs[n].status = "actuating" /\ turn < bills[n][h].due
    <3>1. bills[n][h] # NoBill /\ bills[n] # NoBills /\ bills[n][h].status # "signed"
      BY <2>5 DEF Pending, NoBill, NoBills, H
    <3>2. h \in Houses(refs[n].region)
      BY <2>1, <3>1 DEF Good
    <3>3. refs[n].status = "actuating"
      BY <2>1, <2>2, <2>5, <3>1, <3>2 DEF Good, ActiveStatuses, TerminalStatuses
    <3> QED BY <2>1, <2>5, <3>1, <3>2, <3>3 DEF Good
  <2> QED BY <2>2, <2>3, <2>4, <2>5
<1> QED BY <1>1, Invariance, PTL

-----------------------------------------------------------------------------
(* The abstract specification.  One referendum at a time makes the last    *)
(* record of a region its spokesman: the others have ended, and an edge of *)
(* that record is a step of the region.                                    *)

\* What was carried is acted upon or given up by then.
LEMMA ActuatesInTime ==
    ASSUME NEW ref \in Records, NEW bs \in BillsOf, NEW now \in Nat,
           Good(ref, bs, now), ref.status = "actuating"
    PROVE  now <= ref.resolved + (CONVERSION_WINDOW + EXEC_WINDOW)
<1>1. ref.resolved \in Int /\ \A h \in H : bs[h].due \in Int
  BY Windows DEF Records, BillsOf, Bills, Never
<1>2. CASE now = ref.resolved
  BY <1>2, Windows
<1>3. CASE now # ref.resolved
  <2>1. PICK h \in Houses(ref.region) :
          /\ Pending(bs[h]) /\ now < bs[h].due
          /\ bs[h].status = "active" => bs[h].due <= ref.resolved + 1 + CONVERSION_WINDOW
          /\ bs[h].status = "enrolled" =>
                bs[h].due <= ref.resolved + 1 + CONVERSION_WINDOW + EXEC_WINDOW
    BY <1>3 DEF Good
  <2>2. bs[h].due \in Int
    BY <1>1, HousesOf
  <2> QED BY <1>1, <2>1, <2>2, Windows DEF Pending
<1> QED BY <1>2, <1>3

LEMMA LastOf ==
    ASSUME NEW S, S \subseteq Int, NEW n \in S, \A m \in S : m <= n
    PROVE  (CHOOSE k \in S : \A m \in S : m <= k) = n
<1> DEFINE P(k) == \A m \in S : m <= k
           l == CHOOSE k \in S : P(k)
<1>1. \E k \in S : P(k)
  OBVIOUS
<1>2. l \in S /\ P(l)
  BY <1>1
<1>3. l <= n /\ n <= l /\ l \in Int /\ n \in Int
  BY <1>2
<1> QED BY <1>3

\* The last record of a region, in this state and in any with the same ones.
LEMMA LastSpeaks ==
    ASSUME IInv, NEW r \in Regions, Of(r) # {}
    PROVE  \E l \in Of(r) :
              /\ Last(r) = l /\ Standing(r) = StandsBy(refs[l])
              /\ \A m \in Of(r) : m <= l
              /\ \A m \in Of(r) \ {l} : refs[m].status \in {"settled", "cancelled"}
<1>1. PICK l \in Of(r) : \A m \in Of(r) : m <= l
  BY DEF IInv, LastStands
<1>2. Of(r) \subseteq Int
  BY Shape DEF IInv, Of
<1>3. Last(r) = l
  BY <1>1, <1>2, LastOf, Zenon DEF Last
<1>4. ASSUME NEW m \in Of(r), m # l
      PROVE  refs[m].status \in {"settled", "cancelled"}
  <2>1. m < l
    BY <1>1, <1>2, <1>4
  <2> QED BY <2>1 DEF IInv, OneReferendumPerRegion, Of
<1> QED BY <1>1, <1>3, <1>4 DEF Standing

\* An edge of a record, with its bills good afterwards.
LEMMA RecordOnwards ==
    ASSUME NEW ref \in Records, NEW bs, NEW now \in Nat, NEW yes \in BOOLEAN, NEW tabled,
           NEW next \in Records, NEW bs2 \in BillsOf, Good(ref, bs, now - 1),
           next = Advanced(ref, yes, tabled, now), Good(next, bs2, now)
    PROVE  StandsBy(next) \in Union!Onwards(StandsBy(ref), now)
<1>1. /\ ref.status \in ActiveStatuses \cup TerminalStatuses
      /\ ref.requested \in Int /\ ref.resolved \in Int
  BY Windows DEF Records, Never
<1>2. ref.status # "settled" => ref.cooldown = Never
  BY DEF Good
<1>3. CASE ref.status \in {"granted", "campaigning", "polling"}
  <2>1. \/ next.status \in {"campaigning", "polling"} /\ next.requested = ref.requested
        \/ next.status = "actuating" /\ next.resolved = now
        \/ next.status = "settled" /\ next.cooldown = now + SETTLED_COOLDOWN
    BY <1>3 DEF Advanced, Decided, Records
  <2>2. CASE next.status \in {"campaigning", "polling"} /\ next.requested = ref.requested
    <3>1. StandsBy(next) = StandsBy(ref)
      BY <1>3, <2>2 DEF StandsBy
    <3>2. now <= next.requested + CAMPAIGN_WINDOW
      BY <1>1, <2>2, Windows DEF Good
    <3>3. StandsBy(ref).is = "asking" /\ StandsBy(ref).since = ref.requested
      BY <1>3 DEF StandsBy
    <3> QED BY <2>2, <3>1, <3>2, <3>3 DEF Union!Onwards
  <2>3. CASE next.status = "actuating" /\ next.resolved = now
    BY <1>3, <2>3 DEF StandsBy, Union!Onwards, Union!Stands
  <2>4. CASE next.status = "settled" /\ next.cooldown = now + SETTLED_COOLDOWN
    BY <1>3, <2>4 DEF StandsBy, Union!Onwards, Union!Stands
  <2> QED BY <2>1, <2>2, <2>3, <2>4
<1>4. CASE ref.status = "actuating"
  <2>1. /\ next.status \in {"actuating", "completed", "cancelled"}
        /\ next.resolved = ref.resolved /\ next.cooldown = ref.cooldown
    BY <1>4 DEF Advanced, Records
  <2>2. CASE next.status = "actuating"
    <3>1. StandsBy(next) = StandsBy(ref)
      BY <1>4, <2>1, <2>2 DEF StandsBy
    <3>2. now <= next.resolved + (CONVERSION_WINDOW + EXEC_WINDOW)
      BY <2>2, ActuatesInTime
    <3>3. StandsBy(ref).is = "agreed" /\ StandsBy(ref).since = ref.resolved
      BY <1>4 DEF StandsBy
    <3> QED BY <2>1, <3>1, <3>2, <3>3 DEF Union!Onwards
  <2>3. CASE next.status = "completed"
    BY <1>4, <2>3 DEF StandsBy, Union!Onwards, Union!Stands
  <2>4. CASE next.status = "cancelled"
    BY <1>2, <1>4, <2>1, <2>4 DEF StandsBy, Union!Onwards, Union!Stands
  <2> QED BY <2>1, <2>2, <2>3, <2>4
<1>5. CASE ref.status \in TerminalStatuses
  <2>1. next = ref
    BY <1>5 DEF Advanced, TerminalStatuses
  <2> QED BY <1>5, <2>1 DEF StandsBy, Union!Onwards, TerminalStatuses
<1> QED BY <1>1, <1>3, <1>4, <1>5 DEF ActiveStatuses

\* What a turn does to the records, and to the regions through them.
LEMMA EndTurnMoves ==
    ASSUME IInv, EndTurn
    PROVE  /\ turn' = turn + 1 /\ DOMAIN refs' = DOMAIN refs
           /\ \A n \in DOMAIN refs : \E yes \in BOOLEAN : \E tabled :
                 refs'[n] = Advanced(refs[n], yes, tabled, turn + 1)
           /\ owner' = [r \in Regions |-> IF r \in Leaving(refs, refs') THEN Joins(r)
                                          ELSE owner[r]]
           /\ country' = IF Home \in Leaving(refs, refs') THEN Joins(Home) ELSE country
<1> DEFINE now == turn + 1
<1>1. PICK carried \in SUBSET Closing(now), yes \in SUBSET Polling :
        LET voted == [n \in DOMAIN bills |->
                        [h \in DOMAIN bills[n] |->
                           Processed(bills[n][h], <<n, h>> \in carried, now)]]
            tabled == [n \in DOMAIN bills |->
                        IF refs[n].status = "actuating"
                        THEN Tabled(voted[n], refs[n].region, now) ELSE voted[n]]
            next == [n \in DOMAIN refs |-> Advanced(refs[n], n \in yes, tabled[n], now)]
            gone == Leaving(refs, next)
        IN
        /\ refs' = next
        /\ owner' = [r \in Regions |-> IF r \in gone THEN Joins(r) ELSE owner[r]]
        /\ country' = IF Home \in gone THEN Joins(Home) ELSE country
  BY DEF EndTurn
<1> DEFINE voted == [n \in DOMAIN bills |->
                       [h \in DOMAIN bills[n] |->
                          Processed(bills[n][h], <<n, h>> \in carried, now)]]
           tabled == [n \in DOMAIN bills |->
                       IF refs[n].status = "actuating"
                       THEN Tabled(voted[n], refs[n].region, now) ELSE voted[n]]
           next == [n \in DOMAIN refs |-> Advanced(refs[n], n \in yes, tabled[n], now)]
<1>2. /\ refs' = next
      /\ owner' = [r \in Regions |-> IF r \in Leaving(refs, next) THEN Joins(r) ELSE owner[r]]
      /\ country' = IF Home \in Leaving(refs, next) THEN Joins(Home) ELSE country
  BY <1>1
<1>3. ASSUME NEW n \in DOMAIN refs
      PROVE  \E y \in BOOLEAN : \E t : refs'[n] = Advanced(refs[n], y, t, turn + 1)
  <2>1. refs'[n] = Advanced(refs[n], n \in yes, tabled[n], turn + 1)
    BY <1>2
  <2>2. (n \in yes) \in BOOLEAN
    OBVIOUS
  <2> HIDE DEF tabled
  <2> QED BY <2>1, <2>2, Zenon
<1>4. DOMAIN refs' = DOMAIN refs
  BY <1>2
<1> HIDE DEF next
<1> QED BY <1>2, <1>3, <1>4 DEF EndTurn

LEMMA TurnInUnion ==
    ASSUME IInv, EndTurn
    PROVE  Union!Turn
<1>1. IInv'
  BY EndTurnKeeps
<1>2. /\ turn' = turn + 1 /\ DOMAIN refs' = DOMAIN refs /\ turn \in Nat
      /\ \A n \in DOMAIN refs :
            /\ refs[n] \in Records /\ Good(refs[n], bills[n], turn)
            /\ refs'[n] \in Records /\ bills'[n] \in BillsOf
            /\ Good(refs'[n], bills'[n], turn + 1)
  <2>1. turn' = turn + 1 /\ DOMAIN refs' = DOMAIN refs
    BY EndTurnMoves
  <2>2. turn \in Nat /\ \A n \in DOMAIN refs : refs[n] \in Records /\ Good(refs[n], bills[n], turn)
    BY Shape DEF IInv, RecordsGood
  <2>3. \A n \in DOMAIN refs' : refs'[n] \in Records /\ bills'[n] \in BillsOf
    BY <1>1 DEF IInv, TypeOK, BillsOf, H
  <2>4. \A n \in DOMAIN refs' : Good(refs'[n], bills'[n], turn')
    BY <1>1 DEF IInv, RecordsGood, Good, Houses, NoBill, NoBills, Pending
  <2> QED BY <2>1, <2>2, <2>3, <2>4
<1>3. ASSUME NEW n \in DOMAIN refs
      PROVE  /\ StandsBy(refs'[n]) \in Union!Onwards(StandsBy(refs[n]), turn + 1)
             /\ refs'[n].region = refs[n].region
             /\ refs'[n].status = "completed" =>
                   refs[n].status \in {"actuating", "completed"}
  <2>1. PICK yes \in BOOLEAN : \E tabled : refs'[n] = Advanced(refs[n], yes, tabled, turn + 1)
    BY EndTurnMoves
  <2>2. PICK tabled : refs'[n] = Advanced(refs[n], yes, tabled, turn + 1)
    BY <2>1
  <2>3. turn + 1 \in Nat /\ (turn + 1) - 1 = turn
    BY <1>2
  <2>4. StandsBy(refs'[n]) \in Union!Onwards(StandsBy(refs[n]), turn + 1)
    BY <1>2, <2>2, <2>3, RecordOnwards
  <2>5. refs'[n].region = refs[n].region
    BY <1>2, <2>2 DEF Advanced, Decided, Records
  <2>6. refs'[n].status = "completed" => refs[n].status \in {"actuating", "completed"}
    BY <1>2, <2>2 DEF Advanced, Decided, Records
  <2> QED BY <2>4, <2>5, <2>6
<1>4. \A r \in Regions : Of(r)' = Of(r)
  BY <1>2, <1>3 DEF Of
<1>5. ASSUME NEW r \in Regions
      PROVE  /\ Standing(r)' \in Union!Onwards(Standing(r), turn')
             /\ r \in Leaving(refs, refs') <=>
                   Standing(r).is # "out" /\ Standing(r)'.is = "out"
  <2>1. CASE Of(r) = {}
    <3>1. Standing(r)' = Standing(r) /\ Standing(r) = [is |-> "in", since |-> Never, wait |-> Never]
      BY <1>4, <2>1 DEF Standing
    <3>2. r \notin Leaving(refs, refs')
      BY <2>1 DEF Leaving, Of
    <3> QED BY <3>1, <3>2 DEF Union!Onwards
  <2>2. CASE Of(r) # {}
    <3>1. PICK l \in Of(r) :
            /\ Last(r) = l /\ Standing(r) = StandsBy(refs[l])
            /\ \A m \in Of(r) : m <= l
            /\ \A m \in Of(r) \ {l} : refs[m].status \in {"settled", "cancelled"}
      BY <2>2, LastSpeaks
    <3>2. l \in DOMAIN refs /\ refs[l].region = r
      BY DEF Of
    <3>3. Last(r)' = l
      <4>1. Of(r) \subseteq Int
        BY Shape DEF IInv, Of
      <4> QED BY <1>4, <3>1, <4>1, LastOf, Zenon DEF Last
    <3>4. Standing(r)' = StandsBy(refs'[l])
      BY <1>4, <2>2, <3>3 DEF Standing, StandsBy
    <3>5. Standing(r)' \in Union!Onwards(Standing(r), turn')
      BY <1>2, <1>3, <3>1, <3>2, <3>4
    <3>6. r \in Leaving(refs, refs') <=>
            refs[l].status = "actuating" /\ refs'[l].status = "completed"
      BY <3>1, <3>2 DEF Leaving, Of
    <3>7. Standing(r).is = "out" <=> refs[l].status = "completed"
      BY <1>2, <3>1, <3>2 DEF StandsBy, Records, ActiveStatuses, TerminalStatuses
    <3>8. Standing(r)'.is = "out" <=> refs'[l].status = "completed"
      BY <1>2, <3>2, <3>4 DEF StandsBy, Records, ActiveStatuses, TerminalStatuses
    <3> QED BY <1>3, <3>2, <3>5, <3>6, <3>7, <3>8
  <2> QED BY <2>1, <2>2
<1>6. Leaving(refs, refs') \subseteq Regions
  BY <1>2 DEF Leaving, Records
<1>7. Union!Leaving = Leaving(refs, refs')
  BY <1>5, <1>6 DEF Union!Leaving
<1>8. /\ owner' = [r \in Regions |-> IF r \in Union!Leaving THEN Joins(r) ELSE owner[r]]
      /\ country' = IF Home \in Union!Leaving THEN Joins(Home) ELSE country
  BY <1>7, EndTurnMoves
<1>9. country' = IF Home \in Union!Leaving THEN [r \in Regions |-> Joins(r)][Home] ELSE country
  BY <1>6, <1>7, <1>8
<1>10. \A r \in Regions : Standing(r)' \in Union!Onwards(Standing(r), turn')
  BY <1>5
<1> HIDE DEF Joins
<1> QED BY <1>2, <1>8, <1>9, <1>10 DEF Union!Turn

LEMMA RequestInUnion ==
    ASSUME IInv, NEW r \in Regions, RequestReferendum(r)
    PROVE  Union!Ask(r)
<1>1. /\ \A m \in Of(r) : refs[m].status \notin ActiveStatuses
      /\ ~ CoolingOff(r) /\ country = "UK" /\ owner[r] = "UK"
      /\ refs' = Append(refs, Granted(r))
      /\ turn' = turn /\ owner' = owner /\ country' = country
  BY DEF RequestReferendum
<1>2. /\ Len(refs) \in Nat /\ DOMAIN refs = 1 .. Len(refs) /\ refs \in Seq(Records)
      /\ \A m \in DOMAIN refs : refs[m] \in Records
      /\ turn \in Nat
  BY Shape DEF IInv, TypeOK
<1> DEFINE n == Len(refs) + 1
<1>3. /\ n \in Nat /\ DOMAIN refs' = DOMAIN refs \cup {n} /\ n \notin DOMAIN refs
      /\ refs'[n] = Granted(r) /\ \A m \in DOMAIN refs : refs'[m] = refs[m] /\ m < n
  BY <1>1, <1>2
<1> HIDE DEF n
<1>4. Standing(r).is = "in" /\ Standing(r).wait <= turn
  <2>1. CASE Of(r) = {}
    BY <1>2, <2>1 DEF Standing, Never
  <2>2. CASE Of(r) # {}
    <3>1. PICK l \in Of(r) :
            /\ Standing(r) = StandsBy(refs[l]) /\ \A m \in Of(r) : m <= l
      BY <2>2, LastSpeaks
    <3>2. l \in DOMAIN refs /\ refs[l] \in Records /\ refs[l].status \notin ActiveStatuses
      BY <1>1, <1>2 DEF Of
    <3>3. refs[l].status \in {"settled", "cancelled"}
      <4>1. refs[l].status # "completed"
        BY <1>1 DEF IInv, SecededByConsent
      <4> QED BY <3>2, <4>1 DEF Records, TerminalStatuses
    <3>4. Standing(r).is = "in" /\ Standing(r).wait = refs[l].cooldown
      BY <3>1, <3>3 DEF StandsBy
    <3>5. l \in Ended(r) /\ \A m \in Ended(r) : m <= l
      BY <3>1, <3>3 DEF Ended, TerminalStatuses
    <3>6. ~ (turn < refs[l].cooldown)
      BY <1>1, <3>5 DEF CoolingOff
    <3>7. refs[l].cooldown \in Int
      BY <3>2, Windows DEF Records, Never
    <3> QED BY <1>2, <3>4, <3>6, <3>7
  <2> QED BY <2>1, <2>2
<1>5. Of(r)' = Of(r) \cup {n} /\ \A q \in Regions \ {r} : Of(q)' = Of(q)
  BY <1>3 DEF Of, Granted
<1>6. Standing(r)' = Union!Stands("asking", turn, Never)
  <2>1. /\ Of(r)' \subseteq Int /\ n \in Of(r)' /\ \A m \in Of(r)' : m <= n
    <3>1. Of(r) \subseteq DOMAIN refs
      BY DEF Of
    <3> QED BY <1>2, <1>3, <1>5, <3>1
  <2>2. Last(r)' = n
    BY <2>1, LastOf, Zenon DEF Last
  <2>3. Standing(r)' = StandsBy(refs'[n])
    BY <2>1, <2>2 DEF Standing, StandsBy
  <2>4. Granted(r).status = "granted" /\ Granted(r).requested = turn
    BY DEF Granted
  <2> QED BY <1>3, <2>3, <2>4 DEF StandsBy, Union!Stands
<1>7. ASSUME NEW q \in Regions, q # r
      PROVE  Standing(q)' = Standing(q)
  <2>1. Of(q)' = Of(q)
    BY <1>5, <1>7
  <2>2. CASE Of(q) = {}
    BY <2>1, <2>2 DEF Standing
  <2>3. CASE Of(q) # {}
    <3>1. PICK l \in Of(q) : Last(q) = l /\ Standing(q) = StandsBy(refs[l])
      BY <2>3, LastSpeaks
    <3>2. Last(q)' = Last(q)
      BY <2>1, Zenon DEF Last
    <3>3. l \in DOMAIN refs
      BY DEF Of
    <3> QED BY <1>3, <2>1, <2>3, <3>1, <3>2, <3>3 DEF Standing, StandsBy
  <2> QED BY <2>2, <2>3
<1>8. [q \in Regions |-> Standing(q)]' =
        [[q \in Regions |-> Standing(q)] EXCEPT ![r] = Union!Stands("asking", turn, Never)]
  BY <1>6, <1>7
<1> QED BY <1>1, <1>4, <1>8 DEF Union!Ask

LEMMA UnionInit == ASSUME Init PROVE Union!Init
<1>1. /\ turn = 0 /\ owner = [r \in Regions |-> "UK"] /\ country = "UK"
      /\ \/ refs = <<>>
         \/ \E r \in Regions : refs = <<Legacy(r)>>
  BY DEF Init
<1>2. ASSUME NEW early \in SUBSET Regions,
             \A r \in Regions :
                Standing(r) = Union!Stands(IF r \in early THEN "agreed" ELSE "in",
                                           IF r \in early THEN 0 ELSE Never, Never)
      PROVE  Union!Init
  <2>1. [r \in Regions |-> Standing(r)] =
          [r \in Regions |-> Union!Stands(IF r \in early THEN "agreed" ELSE "in",
                                         IF r \in early THEN 0 ELSE Never, Never)]
    BY <1>2
  <2> QED BY <1>1, <2>1 DEF Union!Init
<1>3. CASE refs = <<>>
  <2>1. \A r \in Regions : Of(r) = {}
    BY <1>3 DEF Of
  <2>2. \A r \in Regions : Standing(r) = Union!Stands("in", Never, Never)
    BY <2>1 DEF Standing, Union!Stands
  <2>3. {} \in SUBSET Regions /\ \A r : r \notin {}
    OBVIOUS
  <2> QED BY <1>2, <2>2, <2>3, Zenon
<1>4. ASSUME NEW s \in Regions, refs = <<Legacy(s)>>
      PROVE  Union!Init
  <2>1. DOMAIN refs = {1} /\ refs[1] = Legacy(s)
    BY <1>4
  <2>2. Legacy(s).region = s /\ Legacy(s).status = "actuating" /\ Legacy(s).resolved = 0
    BY <1>1 DEF Legacy, Granted
  <2>3. \A r \in Regions : Of(r) = IF r = s THEN {1} ELSE {}
    BY <2>1, <2>2 DEF Of
  <2>4. Last(s) = 1
    BY <2>3, LastOf DEF Last
  <2>5. Standing(s) = Union!Stands("agreed", 0, Never)
    BY <2>1, <2>2, <2>3, <2>4 DEF Standing, StandsBy, Union!Stands
  <2>6. \A r \in Regions \ {s} : Standing(r) = Union!Stands("in", Never, Never)
    BY <2>3 DEF Standing, Union!Stands
  <2> QED BY <1>2, <2>5, <2>6
<1> QED BY <1>1, <1>3, <1>4

\* Requests, ballots, consent bills and their windows come to what a union
\* promises: no question is put out of turn or left open, and a region and its
\* resident leave in one step, once, after it was agreed to.
THEOREM ReferendumsKeepUnion == Spec => UnionKept
<1>1. Init => Union!Init
  BY UnionInit
<1>2. IInv /\ [Next]_vars => [Union!Next]_(Union!vars)
  <2> SUFFICES ASSUME IInv, [Next]_vars
               PROVE  Union!Next \/ UNCHANGED Union!vars
    OBVIOUS
  <2>1. CASE EndTurn
    BY <2>1, TurnInUnion DEF Union!Next
  <2>2. ASSUME NEW r \in Regions, RequestReferendum(r)
        PROVE  Union!Next
    BY <2>2, RequestInUnion DEF Union!Next
  <2>3. CASE UNCHANGED vars
    <3>1. /\ turn' = turn /\ owner' = owner /\ country' = country /\ refs' = refs
      BY <2>3 DEF vars
    <3>2. \A r \in Regions : Standing(r)' = Standing(r)
      BY <3>1 DEF Standing, Last, Of, StandsBy
    <3> QED BY <3>1, <3>2 DEF Union!vars
  <2> QED BY <2>1, <2>2, <2>3 DEF Next
<1> QED BY <1>1, <1>2, Invariance, PTL DEF Spec, UnionKept, Union!Spec

=============================================================================
