------------------------------ MODULE AskPanel ------------------------------
(***************************************************************************)
(* The Ask panel, src/ask/AskPanel.tsx, on top of the streams of           *)
(* AskStream: sending a question, the two steps from a request id to the   *)
(* ref the listener compares with, the listener itself, Stop, and the      *)
(* thread on screen (New chat, opening a stored conversation, a change of  *)
(* account).                                                               *)
(*                                                                         *)
(* A question stands for one call of send and its placeholder.  What an    *)
(* answer says, quota figures, notices and the sign-in phases are left     *)
(* out, and so is convId, which no guard reads.                            *)
(***************************************************************************)
EXTENDS AskStream

CONSTANTS
  MaxQuestions,\* bound: questions sent
  Conv,        \* stored conversations
  Account,     \* accounts that may be signed in
  CachedAccount, \* the account of the cached session summary
  Owner,       \* the account a conversation belongs to
  None,        \* null
  MaxOpens     \* bound: threads opened, chats cleared, accounts changed

ASSUME OwnerAssumption ==
  /\ \A c \in Conv : Owner[c] \in Account
  /\ CachedAccount \in Account

ASSUME NoneAssumption ==
  /\ MaxQuestions \in Nat
  /\ None \notin Req \union Conv \union 1 .. MaxQuestions
  /\ Req \intersect (1 .. MaxQuestions) = {}
  /\ MaxOpens \in Nat

Question == 1 .. MaxQuestions    \* in the order they are sent

VARIABLES
  asked,       \* asked[k]: how far the ask_send of question k is
  reqOf,       \* reqOf[k]: the id ask_send drew for it
  msg,         \* msg[k]: its placeholder in the thread, if shown
  activeReq,   \* the state: the request the Stop button is for
  activeReqRef,\* the ref, set to the state by each render
  history,     \* the stored conversation whose turns are on screen
  loads,       \* conversations requested and not yet received
  account,     \* accountRef
  opens        \* MaxOpens counts these

panelVars ==
  <<asked, reqOf, msg, activeReq, activeReqRef, history, loads, account, opens>>

thread == <<history, loads, account, opens>>

vars == <<streamVars, panelVars>>

Hidden == [id |-> None, streaming |-> FALSE, answer |-> None]

Msg == [id : Question \union Req \union {None}, streaming : BOOLEAN,
        answer : Req \union {None}]

Init ==
  /\ StreamInit
  /\ asked = [k \in Question |-> "no"]
  /\ reqOf = [k \in Question |-> None]
  /\ msg = [k \in Question |-> Hidden]
  /\ activeReq = None
  /\ activeReqRef = None
  /\ history = None
  /\ loads = {}
  /\ account = CachedAccount
  /\ opens = 0

-----------------------------------------------------------------------------
(* send, up to its await: the lock is the ref. *)
Send(k) ==
  /\ asked[k] = "no"
  /\ \A j \in 1 .. k - 1 : asked[j] # "no"
  /\ activeReqRef = None
  /\ asked' = [asked EXCEPT ![k] = "asking"]
  /\ msg' = [msg EXCEPT ![k] = [id |-> k, streaming |-> TRUE, answer |-> None]]
  /\ UNCHANGED <<streamVars, reqOf, activeReq, activeReqRef, thread>>

(* The command draws an id and starts a pump.  Ids are random, so it does  *)
(* not matter which unused one it draws.                                   *)
Command(k) ==
  LET r == CHOOSE r \in Req : pump[r] = "unused"
  IN
  /\ asked[k] = "asking"
  /\ r \in Req
  /\ AskSend(r)
  /\ reqOf' = [reqOf EXCEPT ![k] = r]
  /\ asked' = [asked EXCEPT ![k] = "started"]
  /\ UNCHANGED <<msg, activeReq, activeReqRef, thread>>

(* Mutant: the id goes to every placeholder still without one. *)
RekeyAll(old, r) ==
  [k \in Question |->
     IF msg[k].id \in Question THEN [msg[k] EXCEPT !.id = r] ELSE msg[k]]

(* The messages whose id is old, under their new id. *)
Rekey(old, r) ==
  [k \in Question |-> IF msg[k].id = old THEN [msg[k] EXCEPT !.id = r] ELSE msg[k]]

(* Mutant: the state gets the placeholder's local key, not the request id. *)
ResolveByKey(k) ==
  /\ asked[k] = "started"
  /\ asked' = [asked EXCEPT ![k] = "settled"]
  /\ msg' = Rekey(k, reqOf[k])
  /\ activeReq' = k
  /\ UNCHANGED <<streamVars, reqOf, activeReqRef, thread>>

(* After the await: re-key the placeholder, then setActiveReq. *)
Resolve(k) ==
  /\ asked[k] = "started"
  /\ asked' = [asked EXCEPT ![k] = "settled"]
  /\ msg' = Rekey(k, reqOf[k])
  /\ activeReq' = reqOf[k]
  /\ UNCHANGED <<streamVars, reqOf, activeReqRef, thread>>

(* A short question, no session or no entropy: the command starts nothing  *)
(* and the placeholder goes.                                               *)
Reject(k) ==
  /\ asked[k] = "asking"
  /\ asked' = [asked EXCEPT ![k] = "settled"]
  /\ msg' = [msg EXCEPT ![k] = Hidden]
  /\ UNCHANGED <<streamVars, reqOf, activeReq, activeReqRef, thread>>

(* A render copies the state into the ref. *)
Render ==
  /\ activeReqRef # activeReq
  /\ activeReqRef' = activeReq
  /\ UNCHANGED <<streamVars, asked, reqOf, msg, activeReq, thread>>

-----------------------------------------------------------------------------
(* The listener. *)

(* patchAssistant: the message whose id is r, if the thread has one. *)
Patch(r, answer) ==
  [k \in Question |->
     IF msg[k].id = r THEN [id |-> r, streaming |-> FALSE, answer |-> answer]
                      ELSE msg[k]]

(* Mutant: an answer that is not understood returns before finish(). *)
HearFinishingAnswers(e) ==
  CASE e.kind = "progress" -> UNCHANGED <<msg, activeReq>>
    [] e.kind = "done" ->
         \/ msg' = Patch(e.req, e.req) /\ activeReq' = None
         \/ UNCHANGED <<msg, activeReq>>
    [] e.kind = "final" ->
         \E answer \in {e.req, None} :
           msg' = Patch(e.req, answer) /\ activeReq' = None
    [] e.kind \in {"error", "stopped"} ->
         msg' = Patch(e.req, None) /\ activeReq' = None

(***************************************************************************)
(* What an event for the active request does.  "done" patches only if its  *)
(* answer is understood; "final" and the failures always do; finish()      *)
(* clears the state whatever it holds by now.                              *)
(***************************************************************************)
Hear(e) ==
  CASE e.kind = "progress" -> UNCHANGED <<msg, activeReq>>
    [] e.kind = "done" ->
         /\ msg' \in {msg, Patch(e.req, e.req)}
         /\ activeReq' = None
    [] e.kind = "final" ->
         \E answer \in {e.req, None} :
           msg' = Patch(e.req, answer) /\ activeReq' = None
    [] e.kind \in {"error", "stopped"} ->
         msg' = Patch(e.req, None) /\ activeReq' = None

(* Events for any other request than the ref's are dropped. *)
Listen ==
  /\ events # <<>>
  /\ events' = Tail(events)
  /\ IF Head(events).req = activeReqRef
       THEN Hear(Head(events))
       ELSE UNCHANGED <<msg, activeReq>>
  /\ UNCHANGED <<pump, tracked, stop, ended, lines>>
  /\ UNCHANGED <<asked, reqOf, activeReqRef, thread>>

(* The Stop button. *)
Stop ==
  /\ activeReqRef # None
  /\ AskStop(activeReqRef)
  /\ UNCHANGED panelVars

-----------------------------------------------------------------------------
(* The thread on screen. *)

Opening ==
  /\ opens < MaxOpens
  /\ opens' = opens + 1
  /\ UNCHANGED <<streamVars, asked, reqOf, activeReq, activeReqRef>>

NoMessages == [k \in Question |-> Hidden]

(* openThread(null) *)
NewChat ==
  /\ Opening
  /\ msg' = NoMessages
  /\ history' = None
  /\ UNCHANGED <<loads, account>>

(* openThread(c), up to its await: the list shows the account's own. *)
OpenThread(c) ==
  /\ Opening
  /\ Owner[c] = account
  /\ loads' = loads \union {c}
  /\ UNCHANGED <<msg, history, account>>

(* Its response replaces the thread, whatever was opened since; an error   *)
(* only leaves a notice.                                                   *)
ThreadLoaded(c) ==
  /\ c \in loads
  /\ loads' = loads \ {c}
  /\ \/ history' = c /\ msg' = NoMessages
     \/ UNCHANGED <<history, msg>>
  /\ UNCHANGED <<streamVars, asked, reqOf, activeReq, activeReqRef, account, opens>>

(* remember, when the session turns out to be another account's. *)
ChangeAccount(a) ==
  /\ Opening
  /\ a # account
  /\ account' = a
  /\ msg' = NoMessages
  /\ history' = None
  /\ UNCHANGED loads

-----------------------------------------------------------------------------
RunPump(r) == Pump(r) /\ UNCHANGED panelVars

Next ==
  \/ \E r \in Req : RunPump(r)
  \/ \E k \in Question : Send(k) \/ Command(k) \/ Resolve(k) \/ Reject(k)
  \/ Render \/ Listen \/ Stop
  \/ NewChat
  \/ \E c \in Conv : OpenThread(c) \/ ThreadLoaded(c)
  \/ \E a \in Account : ChangeAccount(a)

Spec == Init /\ [][Next]_vars

(* Pumps, commands and the panel's event loop run; players need not act.   *)
FairSpec ==
  /\ Spec
  /\ \A r \in Req : WF_vars(RunPump(r))
  /\ \A k \in Question : WF_vars(Command(k) \/ Resolve(k) \/ Reject(k))
  /\ WF_vars(Render)
  /\ WF_vars(Listen)

-----------------------------------------------------------------------------
(* Every variable keeps its type. *)
TypeOK ==
  /\ StreamTypeOK
  /\ asked \in [Question -> {"no", "asking", "started", "settled"}]
  /\ reqOf \in [Question -> Req \union {None}]
  /\ msg \in [Question -> Msg]
  /\ activeReq \in Req \union {None}
  /\ activeReqRef \in Req \union {None}
  /\ history \in Conv \union {None}
  /\ loads \in SUBSET Conv
  /\ account \in Account
  /\ opens \in 0 .. MaxOpens

(***************************************************************************)
(* An answer lands in the placeholder of the question it answers, in       *)
(* whatever order the ids of several questions and their events arrive.    *)
(***************************************************************************)
AnswersMatchQuestions ==
  \A k \in Question : msg[k].answer # None => msg[k].answer = reqOf[k]

(***************************************************************************)
(* A question the panel listens to while it is live does not keep the      *)
(* panel locked: its terminal event comes and is understood as the end,    *)
(* unless Stop was pressed.                                                *)
(***************************************************************************)
ListenedQuestionEnds ==
  \A r \in Req :
    (activeReqRef = r /\ r \notin ended) ~> (activeReq # r \/ stop[r])

(* "nothing from the old account may stay visible". *)
OldAccountGone == history # None => Owner[history] = account
=============================================================================
