------------------------- MODULE SignInWatch_proofs -------------------------
(***************************************************************************)
(* For any number of services, threads and polls: a claim is held exactly  *)
(* while one thread works for its service, and nobody is left on a remote  *)
(* page.  A page of a service is only put up by a thread that holds the    *)
(* claim of that service, and that thread ends only after it has seen the  *)
(* page gone or has taken it home itself; single flight is what keeps a    *)
(* second thread from putting the page up again behind the first one's     *)
(* back, so NeverStranded is inductive only together with it.              *)
(***************************************************************************)
EXTENDS SignInWatch, TLAPS

\* Single flight: a service's claim is held exactly while one command past it,
\* or one watch, of that service is alive, and never by two.
SingleFlight ==
    \A s \in Services :
       /\ claim[s] <=> \E t \in Threads : Held(t, s)
       /\ \A t, u \in Threads : Held(t, s) /\ Held(u, s) => t = u

Inv == TypeOK /\ SingleFlight /\ NeverStranded

-----------------------------------------------------------------------------
\* A step of a thread gives it new locals.

Sound(l) ==
    /\ l \in [at : Places, serves : Services \cup {"none"}, left : Nat, signedIn : BOOLEAN]
    /\ l.at # "idle" => l.serves \in Services
    /\ l.at = "asleep" => l.left > 0

\* It changes this thread's alone, and they stay sound.
LEMMA SetSound ==
    ASSUME TypeOK, NEW t \in Threads, NEW l, Sound(l), Set(t, l)
    PROVE  /\ thread'[t] = l
           /\ \A u \in Threads : u # t => thread'[u] = thread[u]
           /\ \A u \in Threads : Sound(thread'[u])
           /\ thread' \in [Threads -> [at : Places, serves : Services \cup {"none"},
                                       left : Nat, signedIn : BOOLEAN]]
BY DEF TypeOK, Set, Sound

\* A thread that works for a service before and after the step, or for none,
\* leaves every claim as it is held.
LEMMA SameHolders ==
    ASSUME TypeOK, SingleFlight, NEW t \in Threads, NEW l, Sound(l), Set(t, l),
           l.at \in Holding <=> thread[t].at \in Holding,
           l.at \in Holding => l.serves = thread[t].serves,
           UNCHANGED claim
    PROVE  /\ SingleFlight'
           /\ \A u \in Threads, s \in Services : Held(u, s)' <=> Held(u, s)
<1>1. \A u \in Threads, s \in Services : Held(u, s)' <=> Held(u, s)
  BY SetSound DEF Held
<1> QED BY <1>1 DEF SingleFlight

\* A thread that ends and gives the claim of its service back.
LEMMA HolderGone ==
    ASSUME TypeOK, SingleFlight, NEW t \in Threads, thread[t].at \in Holding,
           Set(t, Idle), SetClaim(t, FALSE)
    PROVE  /\ SingleFlight'
           /\ \A u \in Threads, s \in Services : Held(u, s)' <=> (u # t /\ Held(u, s))
<1> DEFINE mine == thread[t].serves
<1>1. mine \in Services /\ Sound(Idle)
  BY DEF TypeOK, Holding, Sound, Idle, Places
<1>2. \A u \in Threads, s \in Services : Held(u, s)' <=> (u # t /\ Held(u, s))
  BY <1>1, SetSound DEF Held, Idle, Holding
<1>3. Held(t, mine) /\ \A s \in Services : Held(t, s) => s = mine
  BY DEF Held
<1>4. claim' = [claim EXCEPT ![mine] = FALSE]
  BY DEF SetClaim
<1> HIDE DEF mine
<1> QED BY <1>1, <1>2, <1>3, <1>4 DEF SingleFlight, TypeOK

\* A step that leaves the page as it is strands nobody, unless it ends the
\* watch of the very page.
LEMMA StillWatched ==
    ASSUME TypeOK, NeverStranded, NEW t \in Threads, NEW l, Sound(l), Set(t, l),
           page' = page,
           (/\ page \in Services /\ Held(t, page)
            /\ thread[t].at \notin {"claimed", "ending"})
           => /\ l.serves = page
              /\ l.at \in Holding \ {"claimed", "ending"}
    PROVE  NeverStranded'
<1> SUFFICES ASSUME page \in Services
             PROVE  \E u \in Threads : Held(u, page)' /\ thread'[u].at \notin {"claimed", "ending"}
  BY DEF NeverStranded
<1>1. PICK u \in Threads : Held(u, page) /\ thread[u].at \notin {"claimed", "ending"}
  BY DEF NeverStranded
<1>2. CASE u = t
  BY <1>1, <1>2, SetSound DEF Held
<1>3. CASE u # t
  BY <1>1, <1>3, SetSound DEF Held
<1> QED BY <1>2, <1>3

-----------------------------------------------------------------------------
\* The actions

LEMMA InitInv == Init => Inv
BY PollsAssumption DEF Init, Inv, TypeOK, SingleFlight, NeverStranded, Held, Holding, Places, Idle

LEMMA OpenInv ==
    ASSUME Inv, NEW t \in Threads, NEW s \in Services, Open(t, s) PROVE Inv'
<1> DEFINE l == [Idle EXCEPT !.at = "probed", !.serves = s]
<1>1. Sound(l) /\ Set(t, l) /\ l.at = "probed" /\ thread[t].at = "idle"
  BY DEF Sound, Idle, Open, At, Places, Holding
<1>2. UNCHANGED <<page, cookie, claim>> /\ page = "app"
  BY DEF Open
<1> HIDE DEF l
<1>3. TypeOK'
  BY <1>1, <1>2, SetSound DEF Inv, TypeOK, Sound
<1>4. SingleFlight'
  BY <1>1, <1>2, SameHolders DEF Inv, Holding
<1>5. NeverStranded'
  BY <1>2, PollsAssumption DEF NeverStranded
<1> QED BY <1>3, <1>4, <1>5 DEF Inv

LEMMA ClaimInv ==
    ASSUME Inv, NEW t \in Threads, Claim(t) PROVE Inv'
<1> DEFINE s == thread[t].serves
           c == [thread[t] EXCEPT !.at = "claimed"]
<1>0. s \in Services /\ thread[t].at = "probed" /\ UNCHANGED <<page, cookie>>
  BY DEF Inv, TypeOK, Claim, At
<1>1. CASE claim[s] /\ Set(t, Idle) /\ UNCHANGED claim
  <2>1. Sound(Idle) /\ Idle.at = "idle"
    BY DEF Sound, Idle, Places
  <2>2. TypeOK'
    BY <1>0, <1>1, <2>1, SetSound DEF Inv, TypeOK, Sound
  <2>3. SingleFlight'
    BY <1>0, <1>1, <2>1, SameHolders DEF Inv, Holding
  <2>4. NeverStranded'
    BY <1>0, <1>1, <2>1, StillWatched DEF Inv, Held, Holding
  <2> QED BY <2>2, <2>3, <2>4 DEF Inv
<1>2. CASE ~ claim[s] /\ Set(t, c) /\ SetClaim(t, TRUE)
  <2>1. Sound(c) /\ c.at = "claimed" /\ c.serves = s
    BY <1>0 DEF Inv, TypeOK, Sound, Places, Holding
  <2>2. claim' = [claim EXCEPT ![s] = TRUE]
    BY <1>2 DEF SetClaim
  <2> HIDE DEF s, c
  <2>3. TypeOK'
    BY <1>0, <1>2, <2>1, <2>2, SetSound DEF Inv, TypeOK, Sound
  <2>4. /\ \A r \in Services : Held(t, r)' <=> r = s
        /\ \A u \in Threads, r \in Services : u # t => (Held(u, r)' <=> Held(u, r))
    BY <1>2, <2>1, SetSound DEF Inv, Held, Holding
  <2>5. \A r \in Services : ~ Held(t, r)
    BY <1>0 DEF Held, Holding
  <2>6. \A u \in Threads : ~ Held(u, s)
    BY <1>0, <1>2 DEF Inv, SingleFlight
  <2>7. SingleFlight'
    BY <1>0, <2>2, <2>4, <2>5, <2>6 DEF Inv, TypeOK, SingleFlight
  <2>8. NeverStranded'
    BY <1>0, <1>2, <2>1, StillWatched DEF Inv, Held, Holding
  <2> QED BY <2>3, <2>7, <2>8 DEF Inv
<1> QED BY <1>1, <1>2 DEF Claim, Go

LEMMA BorrowInv ==
    ASSUME Inv, NEW t \in Threads, Borrow(t) PROVE Inv'
<1> DEFINE s == thread[t].serves
           l == [thread[t] EXCEPT !.at = "asleep", !.left = Polls[thread[t].serves]]
<1>0. s \in Services /\ thread[t].at = "claimed" /\ UNCHANGED cookie
  BY DEF Inv, TypeOK, Borrow, At
<1>1. CASE page = "closed" /\ Set(t, Idle) /\ SetClaim(t, FALSE) /\ UNCHANGED page
  <2>1. Sound(Idle)
    BY DEF Sound, Idle, Places
  <2>2. TypeOK'
    BY <1>0, <1>1, <2>1, SetSound DEF Inv, TypeOK, Sound, SetClaim
  <2>3. SingleFlight'
    BY <1>0, <1>1, HolderGone DEF Inv, Holding
  <2>4. NeverStranded'
    BY <1>1, PollsAssumption DEF NeverStranded
  <2> QED BY <2>2, <2>3, <2>4 DEF Inv
<1>2. CASE page # "closed" /\ Set(t, l) /\ page' = s /\ UNCHANGED claim
  <2>0. Polls[s] \in Nat /\ Polls[s] > 0
    BY <1>0, PollsAssumption
  <2>1. Sound(l) /\ l.at = "asleep" /\ l.serves = s
    BY <1>0, <2>0 DEF Inv, TypeOK, Sound, Places, Holding
  <2> HIDE DEF l
  <2>2. TypeOK'
    BY <1>0, <1>2, <2>1, SetSound DEF Inv, TypeOK, Sound
  <2>3. SingleFlight'
    BY <1>0, <1>2, <2>1, SameHolders DEF Inv, Holding
  <2>4. NeverStranded'
    BY <1>2, <2>1, SetSound DEF Inv, NeverStranded, Held, Holding
  <2> QED BY <2>2, <2>3, <2>4 DEF Inv
<1> QED BY <1>1, <1>2 DEF Borrow

LEMMA PollInv ==
    ASSUME Inv, NEW t \in Threads, Poll(t) PROVE Inv'
<1> DEFINE l == [thread[t] EXCEPT !.at = "polled", !.left = @ - 1,
                                  !.signedIn = cookie[thread[t].serves]]
<1>1. thread[t].at = "asleep" /\ Set(t, l) /\ UNCHANGED <<page, cookie, claim>>
  BY DEF Poll, At
<1>2. /\ thread[t].serves \in Services /\ thread[t].left - 1 \in Nat
      /\ cookie[thread[t].serves] \in BOOLEAN
  BY <1>1 DEF Inv, TypeOK
<1>3. Sound(l) /\ l.at = "polled" /\ l.serves = thread[t].serves
  BY <1>1, <1>2 DEF Inv, TypeOK, Sound, Places, Holding
<1> HIDE DEF l
<1>4. TypeOK'
  BY <1>1, <1>3, SetSound DEF Inv, TypeOK, Sound
<1>5. SingleFlight'
  BY <1>1, <1>3, SameHolders DEF Inv, Holding
<1>6. NeverStranded'
  BY <1>1, <1>3, StillWatched DEF Inv, Held, Holding
<1> QED BY <1>4, <1>5, <1>6 DEF Inv

\* A thread that only moves on within its watch.
LEMMA MoveInv ==
    ASSUME Inv, NEW t \in Threads, NEW there \in Holding, Go(t, there),
           thread[t].at \in Holding, UNCHANGED <<page, cookie, claim>>,
           there = "asleep" => thread[t].left > 0,
           there \in {"claimed", "ending"} => page = "app"
    PROVE  Inv'
<1> DEFINE l == [thread[t] EXCEPT !.at = there]
<1>1. Set(t, l) /\ Sound(l) /\ l.at = there /\ l.serves = thread[t].serves
  BY DEF Go, Inv, TypeOK, Sound, Places, Holding
<1> HIDE DEF l
<1>2. TypeOK'
  BY <1>1, SetSound DEF Inv, TypeOK, Sound
<1>3. SingleFlight'
  BY <1>1, SameHolders DEF Inv
<1>4. NeverStranded'
  BY <1>1, StillWatched, PollsAssumption DEF Inv, Held
<1> QED BY <1>2, <1>3, <1>4 DEF Inv

LEMMA LookInv ==
    ASSUME Inv, NEW t \in Threads, Look(t) PROVE Inv'
<1> DEFINE there == IF thread[t].signedIn THEN "landing"
                    ELSE IF OnAppOrigin THEN "ending"
                    ELSE IF thread[t].left = 0 THEN "givingUp" ELSE "asleep"
<1>1. /\ thread[t].at = "polled" /\ Go(t, there) /\ UNCHANGED <<page, cookie, claim>>
  BY DEF Look, At
<1>2. /\ there \in Holding
      /\ there = "asleep" => thread[t].left > 0
      /\ there \in {"claimed", "ending"} => page = "app"
  BY DEF Inv, TypeOK, Holding, OnAppOrigin
<1> HIDE DEF there
<1> QED BY <1>1, <1>2, MoveInv DEF Holding

LEMMA GiveUpInv ==
    ASSUME Inv, NEW t \in Threads, GiveUp(t) PROVE Inv'
<1> DEFINE there == IF OnAppOrigin THEN "ending" ELSE "landing"
<1>1. /\ thread[t].at = "givingUp" /\ Go(t, there) /\ UNCHANGED <<page, cookie, claim>>
  BY DEF GiveUp, At
<1>2. /\ there \in Holding /\ there # "asleep"
      /\ there \in {"claimed", "ending"} => page = "app"
  BY DEF Holding, OnAppOrigin
<1> HIDE DEF there
<1> QED BY <1>1, <1>2, MoveInv DEF Holding

LEMMA LandInv ==
    ASSUME Inv, NEW t \in Threads, Land(t) PROVE Inv'
<1> DEFINE l == [thread[t] EXCEPT !.at = "ending"]
<1>1. /\ thread[t].at = "landing" /\ Set(t, l) /\ UNCHANGED <<cookie, claim>>
      /\ page' \in {"app", "closed"}
  BY DEF Land, At, Go
<1>2. Sound(l) /\ l.at = "ending" /\ l.serves = thread[t].serves
  BY <1>1 DEF Inv, TypeOK, Sound, Places, Holding
<1> HIDE DEF l
<1>3. TypeOK'
  BY <1>1, <1>2, SetSound DEF Inv, TypeOK, Sound
<1>4. SingleFlight'
  BY <1>1, <1>2, SameHolders DEF Inv, Holding
<1>5. NeverStranded'
  BY <1>1, PollsAssumption DEF NeverStranded
<1> QED BY <1>3, <1>4, <1>5 DEF Inv

LEMMA ReleaseInv ==
    ASSUME Inv, NEW t \in Threads, Release(t) PROVE Inv'
<1>1. /\ thread[t].at = "ending" /\ Set(t, Idle) /\ SetClaim(t, FALSE)
      /\ UNCHANGED <<page, cookie>>
  BY DEF Release, At
<1>2. Sound(Idle)
  BY DEF Sound, Idle, Places
<1>3. TypeOK'
  BY <1>1, <1>2, SetSound DEF Inv, TypeOK, Sound, SetClaim
<1>4. SingleFlight'
  BY <1>1, HolderGone DEF Inv, Holding
<1>5. NeverStranded'
  BY <1>1, <1>2, StillWatched DEF Inv
<1> QED BY <1>3, <1>4, <1>5 DEF Inv

\* The player and the world leave the threads and the claims alone, and put up
\* no page of a service.
LEMMA WorldInv ==
    ASSUME Inv, (\E s \in Services : SignIn(s) \/ LoseSession(s)) \/ GoBack \/ Close
    PROVE  Inv'
<1>1. /\ UNCHANGED <<claim, thread>> /\ cookie' \in [Services -> BOOLEAN]
      /\ page' = page \/ page' \in {"app", "closed"}
  BY DEF SignIn, LoseSession, GoBack, Close, Inv, TypeOK
<1>2. TypeOK'
  BY <1>1 DEF Inv, TypeOK
<1>3. SingleFlight'
  BY <1>1 DEF Inv, SingleFlight, Held
<1>4. NeverStranded'
  BY <1>1, PollsAssumption DEF Inv, NeverStranded, Held
<1> QED BY <1>2, <1>3, <1>4 DEF Inv

-----------------------------------------------------------------------------
LEMMA NextInv == Inv /\ [Next]_vars => Inv'
<1> SUFFICES ASSUME Inv, [Next]_vars PROVE Inv'
  OBVIOUS
<1>1. ASSUME NEW t \in Threads, Step(t) PROVE Inv'
  BY <1>1, ClaimInv, BorrowInv, PollInv, LookInv, GiveUpInv, LandInv, ReleaseInv DEF Step
<1>2. ASSUME NEW t \in Threads, NEW s \in Services, Open(t, s) PROVE Inv'
  BY <1>2, OpenInv
<1>3. CASE UNCHANGED vars
  BY <1>3 DEF vars, Inv, TypeOK, SingleFlight, NeverStranded, Held
<1> QED BY <1>1, <1>2, <1>3, WorldInv DEF Next

LEMMA SpecInv == Spec => []Inv
BY InitInv, NextInv, PTL DEF Spec

\* The state keeps its shape, and no watch polls more often than it may.
THEOREM TypeCorrect == Spec => []TypeOK
BY SpecInv, PTL DEF Inv

\* However the commands, the watches and the player interleave, each service
\* has at most one watch, and its claim is held exactly while that one lives.
THEOREM OneWatchPerService == Spec => []SingleFlight
BY SpecInv, PTL DEF Inv

\* A service's page is never shown without a watch of that service that has
\* still to bring the app back or to see that it is back.
THEOREM NobodyStranded == Spec => []NeverStranded
BY SpecInv, PTL DEF Inv
=============================================================================
