---------------------------- MODULE SignInWatch ----------------------------
(***************************************************************************)
(* Signing in on a phone (src-tauri/src/ask.rs and lib.rs).  There is one  *)
(* webview: to sign in to Ask or to multiplayer the app navigates it away  *)
(* to the provider's page, and with it destroys its own page script.  A    *)
(* native thread per service, guarded by a claim, polls for the session    *)
(* cookie and brings the app back.                                         *)
(*                                                                         *)
(* Each thread is a command that becomes a watch.  Every read of the       *)
(* cookies, of the page, every use of the claim and every navigation is a  *)
(* step of its own; the commands, the two watches and the player           *)
(* interleave freely.  A page asked for is taken to be shown before the    *)
(* first poll.                                                             *)
(***************************************************************************)
EXTENDS Integers

CONSTANTS
    Services,          \* the two sign-ins: ask and mp
    Threads,           \* bound: commands and watches at one time
    Polls              \* of each service: AUTH_WATCH_POLLS for ask, 600 for mp

ASSUME PollsAssumption ==
    /\ Polls \in [Services -> Nat \ {0}]
    /\ "app" \notin Services /\ "closed" \notin Services /\ "none" \notin Services

VARIABLES
    page,      \* what the webview shows: the app, a service's page, or it is gone
    cookie,    \* per service: a session cookie is in the jar
    claim,     \* ASK_SIGNIN_WATCH_ACTIVE and MP_SIGNIN_WATCH_ACTIVE
    thread     \* each thread: where it is, for whom, and its locals

vars == <<page, cookie, claim, thread>>

\* left counts the polls to come, signedIn is the last look into the jar.
Idle == [at |-> "idle", serves |-> "none", left |-> 0, signedIn |-> FALSE]

At(t, here) == thread[t].at = here
Set(t, local) == thread' = [thread EXCEPT ![t] = local]
Go(t, there) == Set(t, [thread[t] EXCEPT !.at = there])
SetClaim(t, held) == claim' = [claim EXCEPT ![thread[t].serves] = held]

-----------------------------------------------------------------------------
\* The command

\* open_ask_window, open_mp_sign_in, called by the app's own page: a session in
\* the jar needs no bounce.
Open(t, s) ==
    /\ At(t, "idle") /\ page = "app" /\ ~ cookie[s]
    /\ Set(t, [Idle EXCEPT !.at = "probed", !.serves = s])
    /\ UNCHANGED <<page, cookie, claim>>

\* The compare-and-exchange: who loses returns and joins the earlier bounce.
Claim(t) ==
    /\ At(t, "probed")
    /\ \/ claim[thread[t].serves] /\ Set(t, Idle) /\ UNCHANGED claim
       \/ ~ claim[thread[t].serves] /\ Go(t, "claimed") /\ SetClaim(t, TRUE)
    /\ UNCHANGED <<page, cookie>>

\* Mutant: the error exit keeps the claim.
BorrowWedged(t) ==
    /\ At(t, "claimed")
    /\ IF page = "closed" THEN Set(t, Idle) /\ UNCHANGED page
       ELSE /\ Set(t, [thread[t] EXCEPT !.at = "asleep", !.left = Polls[thread[t].serves]])
            /\ page' = thread[t].serves
    /\ UNCHANGED <<cookie, claim>>
\* The one webview is taken to the provider's page and the watch starts.
Borrow(t) ==
    /\ At(t, "claimed")
    /\ \/ page = "closed" /\ Set(t, Idle) /\ SetClaim(t, FALSE) /\ UNCHANGED page
       \/ /\ page # "closed"
          /\ Set(t, [thread[t] EXCEPT !.at = "asleep", !.left = Polls[thread[t].serves]])
          /\ page' = thread[t].serves
          /\ UNCHANGED claim
    /\ UNCHANGED cookie

-----------------------------------------------------------------------------
\* The watch

\* A poll begins with the cookie ...
Poll(t) ==
    /\ At(t, "asleep")
    /\ Set(t, [thread[t] EXCEPT !.at = "polled", !.left = @ - 1,
                                !.signedIn = cookie[thread[t].serves]])
    /\ UNCHANGED <<page, cookie, claim>>

OnAppOrigin == page = "app"

\* Mutant: a session ends the watch and leaves the provider's page shown.
LookOnly(t) ==
    /\ At(t, "polled")
    /\ Go(t, IF thread[t].signedIn \/ OnAppOrigin THEN "ending"
             ELSE IF thread[t].left = 0 THEN "givingUp" ELSE "asleep")
    /\ UNCHANGED <<page, cookie, claim>>
\* ... and ends with the page.  A session takes the view home, even one that is
\* there already; a last poll without either leads to giving up.
Look(t) ==
    /\ At(t, "polled")
    /\ Go(t, IF thread[t].signedIn THEN "landing"
             ELSE IF OnAppOrigin THEN "ending"
             ELSE IF thread[t].left = 0 THEN "givingUp" ELSE "asleep")
    /\ UNCHANGED <<page, cookie, claim>>

\* The end of a watch without a session: a remote page is brought home.
GiveUp(t) ==
    /\ At(t, "givingUp")
    /\ Go(t, IF OnAppOrigin THEN "ending" ELSE "landing")
    /\ UNCHANGED <<page, cookie, claim>>

\* main.navigate; when the view is gone its error is dropped.
Land(t) ==
    /\ At(t, "landing")
    /\ Go(t, "ending")
    /\ page' = IF page = "closed" THEN page ELSE "app"
    /\ UNCHANGED <<cookie, claim>>

Release(t) ==
    /\ At(t, "ending")
    /\ Set(t, Idle) /\ SetClaim(t, FALSE)
    /\ UNCHANGED <<page, cookie>>

-----------------------------------------------------------------------------
\* The player and the world

\* The service's page sets the cookie; the page stays.
SignIn(s) ==
    /\ page = s
    /\ cookie' = [cookie EXCEPT ![s] = TRUE]
    /\ UNCHANGED <<page, claim, thread>>

\* A session runs out, or signing out evicts it.
LoseSession(s) ==
    /\ cookie[s]
    /\ cookie' = [cookie EXCEPT ![s] = FALSE]
    /\ UNCHANGED <<page, claim, thread>>

\* Back in the view's history, from a service's page to the launcher.
GoBack ==
    /\ page \in Services
    /\ page' = "app"
    /\ UNCHANGED <<cookie, claim, thread>>

\* The main webview is gone; the threads live on.
Close ==
    /\ page # "closed"
    /\ page' = "closed"
    /\ UNCHANGED <<cookie, claim, thread>>

-----------------------------------------------------------------------------
Init ==
    /\ page = "app"
    /\ cookie \in [Services -> BOOLEAN]
    /\ claim = [s \in Services |-> FALSE]
    /\ thread = [t \in Threads |-> Idle]

Step(t) ==
    \/ Claim(t) \/ Borrow(t)
    \/ Poll(t) \/ Look(t) \/ GiveUp(t) \/ Land(t) \/ Release(t)

Next ==
    \/ \E t \in Threads : Step(t) \/ \E s \in Services : Open(t, s)
    \/ \E s \in Services : SignIn(s) \/ LoseSession(s)
    \/ GoBack \/ Close

\* The operating system runs every thread; the player owes nothing.
Fairness == \A t \in Threads : WF_vars(Step(t))

Spec == Init /\ [][Next]_vars /\ Fairness

-----------------------------------------------------------------------------
\* Properties

Holding == {"claimed", "asleep", "polled", "landing", "givingUp", "ending"}
Places == Holding \cup {"idle", "probed"}

\* The shape of the state; no watch polls more often than it may.
TypeOK ==
    /\ page \in {"app", "closed"} \cup Services
    /\ cookie \in [Services -> BOOLEAN]
    /\ claim \in [Services -> BOOLEAN]
    /\ thread \in [Threads -> [at : Places, serves : Services \cup {"none"},
                               left : Nat, signedIn : BOOLEAN]]
    /\ \A t \in Threads : thread[t].at # "idle" => thread[t].serves \in Services
    /\ \A t \in Threads : thread[t].at = "asleep" => thread[t].left > 0

Held(t, s) == thread[t].serves = s /\ thread[t].at \in Holding

\* Nobody is left on a remote page: while a service's page is shown, a watch of
\* that same service is alive and has not yet settled to leave it there.
NeverStranded ==
    page \in Services =>
       \E t \in Threads : Held(t, page) /\ thread[t].at \notin {"claimed", "ending"}

\* Whether the player signs in, loses the session, goes back, closes the view or
\* does nothing, the remote page a sign-in showed is left in the end and its claim is
\* given back, so that Sign in works again.
SignInComesHome ==
    \A s \in Services :
       /\ (page = s) ~> (page # s)
       /\ claim[s] ~> ~ claim[s]
=============================================================================
