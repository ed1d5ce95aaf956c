--------------------------- MODULE AskPanel_proofs ---------------------------
(* Proofs about AskPanel and the streams below it, for every number of       *)
(* questions, requests, conversations, accounts and events.                  *)
EXTENDS AskPanel, SequenceTheorems, TLAPS

(* A request that had its terminal event has a pump with nothing to say.     *)
EndedPumps == \A r \in ended : pump[r] \in {"forget", "over"}

(* A placeholder goes by its question's own key until the id of the request  *)
(* is known, and by that id from then on; it has no answer before.           *)
OwnPlaceholders ==
  \A k \in Question :
    /\ msg[k].id \in {k, None} \/ (asked[k] = "settled" /\ msg[k].id = reqOf[k])
    /\ asked[k] # "settled" => msg[k].answer = None
    /\ asked[k] = "started" => reqOf[k] \in Req

PanelTypeOK ==
  /\ asked \in [Question -> {"no", "asking", "started", "settled"}]
  /\ reqOf \in [Question -> Req \union {None}]
  /\ msg \in [Question -> Msg]
  /\ activeReq \in Req \union {None}
  /\ activeReqRef \in Req \union {None}
  /\ history \in Conv \union {None}
  /\ loads \in SUBSET Conv
  /\ account \in Account
  /\ opens \in 0 .. MaxOpens

StreamInv == StreamTypeOK /\ EndedPumps
Placed == OwnPlaceholders /\ AnswersMatchQuestions

IInv == StreamInv /\ PanelTypeOK /\ Placed

LEMMA InitIInv == Init => IInv
BY OwnerAssumption, NoneAssumption, LinesAssumption
   DEF Init, StreamInit, IInv, StreamInv, PanelTypeOK, Placed, StreamTypeOK, PumpStep,
       Hidden, Msg, EndedPumps, OwnPlaceholders, AnswersMatchQuestions, Event

-----------------------------------------------------------------------------
(* The streams. *)

LEMMA EmitKeeps ==
  ASSUME NEW r \in Req, NEW kind \in Kind, Emit(r, kind), StreamTypeOK
  PROVE  /\ events' \in Seq(Event) /\ ended' \in SUBSET Req
         /\ ended' \subseteq ended \union {r}
         /\ kind \notin Terminal => ended' = ended
BY DEF Emit, StreamTypeOK, Event

LEMMA PumpKeeps ==
  ASSUME NEW r \in Req, StreamInv, Pump(r)
  PROVE  StreamInv'
<1> USE DEF StreamInv, StreamTypeOK, EndedPumps, PumpStep
<1>1. CASE Post(r)
  BY <1>1, EmitKeeps DEF Post, Kind, Terminal
<1>2. CASE Stopped(r)
  BY <1>2, EmitKeeps DEF Stopped, Kind, Terminal
<1>3. CASE Line(r)
  <2>1. CASE Emit(r, "progress") /\ UNCHANGED pump
    BY <1>3, <2>1, EmitKeeps, LinesAssumption DEF Line, Kind, Terminal
  <2>2. CASE /\ \E kind \in {"done", "error"} : Emit(r, kind)
             /\ pump' = [pump EXCEPT ![r] = "forget"]
    BY <1>3, <2>2, EmitKeeps, LinesAssumption DEF Line, Kind, Terminal
  <2> QED
    BY <1>3, <2>1, <2>2 DEF Line
<1>4. CASE EndOfStream(r)
  BY <1>4 DEF EndOfStream
<1>5. CASE Drained(r)
  BY <1>5, EmitKeeps DEF Drained, Kind, Terminal
<1>6. CASE Forget(r)
  BY <1>6 DEF Forget
<1> QED
  BY <1>1, <1>2, <1>3, <1>4, <1>5, <1>6 DEF Pump

-----------------------------------------------------------------------------
(* The panel. *)

LEMMA SendKeeps ==
  ASSUME NEW k \in Question, IInv, Send(k)
  PROVE  IInv'
<1>1. StreamInv'
  BY DEF IInv, Send, streamVars, StreamInv, StreamTypeOK, EndedPumps
<1>2. PanelTypeOK'
  BY DEF IInv, Send, thread, PanelTypeOK, Msg
<1>3. Placed'
  BY NoneAssumption DEF IInv, Send, PanelTypeOK, Placed, OwnPlaceholders, AnswersMatchQuestions, Msg
<1> QED
  BY <1>1, <1>2, <1>3 DEF IInv

LEMMA CommandKeeps ==
  ASSUME NEW k \in Question, IInv, Command(k)
  PROVE  IInv'
<1> PICK r \in Req : /\ asked[k] = "asking" /\ AskSend(r)
                     /\ reqOf' = [reqOf EXCEPT ![k] = r]
                     /\ asked' = [asked EXCEPT ![k] = "started"]
                     /\ UNCHANGED <<msg, activeReq, activeReqRef, thread>>
  BY DEF Command
<1>1. StreamInv'
  BY DEF IInv, AskSend, StreamInv, StreamTypeOK, EndedPumps, PumpStep
<1>2. PanelTypeOK'
  BY DEF IInv, thread, PanelTypeOK
<1>3. Placed'
  BY NoneAssumption DEF IInv, PanelTypeOK, Placed, OwnPlaceholders, AnswersMatchQuestions
<1> QED
  BY <1>1, <1>2, <1>3 DEF IInv

LEMMA ResolveKeeps ==
  ASSUME NEW k \in Question, IInv, Resolve(k)
  PROVE  IInv'
<1>0. reqOf[k] \in Req
  BY DEF IInv, Placed, OwnPlaceholders, Resolve
<1>1. StreamInv'
  BY DEF IInv, Resolve, streamVars, StreamInv, StreamTypeOK, EndedPumps
<1>2. \A j \in Question : msg[j].id = k => j = k
  BY NoneAssumption DEF IInv, PanelTypeOK, Placed, OwnPlaceholders, Question
<1>3. PanelTypeOK'
  BY <1>0 DEF IInv, Resolve, Rekey, thread, PanelTypeOK, Msg
<1>4. Placed'
  BY <1>0, <1>2, NoneAssumption
     DEF IInv, Resolve, Rekey, PanelTypeOK, Placed, OwnPlaceholders, AnswersMatchQuestions, Msg
<1> QED
  BY <1>1, <1>3, <1>4 DEF IInv

LEMMA RejectKeeps ==
  ASSUME NEW k \in Question, IInv, Reject(k)
  PROVE  IInv'
<1>1. StreamInv'
  BY DEF IInv, Reject, streamVars, StreamInv, StreamTypeOK, EndedPumps
<1>2. PanelTypeOK'
  BY DEF IInv, Reject, thread, PanelTypeOK, Msg, Hidden
<1>3. Placed'
  BY DEF IInv, Reject, PanelTypeOK, Placed, OwnPlaceholders, AnswersMatchQuestions, Hidden
<1> QED
  BY <1>1, <1>2, <1>3 DEF IInv

(* The panel without its thread and its streams, which the render changes. *)
LEMMA RenderKeeps ==
  ASSUME IInv, Render
  PROVE  IInv'
<1>1. StreamInv'
  BY DEF IInv, Render, streamVars, StreamInv, StreamTypeOK, EndedPumps
<1>2. PanelTypeOK' /\ Placed'
  BY DEF IInv, Render, thread, PanelTypeOK, Placed, OwnPlaceholders, AnswersMatchQuestions
<1> QED
  BY <1>1, <1>2 DEF IInv

(* An answer only goes to the placeholder that has its request's id. *)
LEMMA PatchKeeps ==
  ASSUME NEW r \in Req, NEW answer \in {r, None}, PanelTypeOK, Placed,
         msg' = Patch(r, answer), UNCHANGED <<asked, reqOf>>
  PROVE  msg' \in [Question -> Msg] /\ Placed'
<1>1. msg' \in [Question -> Msg]
  BY DEF Patch, PanelTypeOK, Msg
<1>2. ASSUME NEW k \in Question, msg[k].id = r
      PROVE  asked[k] = "settled" /\ reqOf[k] = r
  BY <1>2, NoneAssumption DEF Placed, OwnPlaceholders, Question
<1> QED
  BY <1>1, <1>2 DEF Patch, PanelTypeOK, Placed, OwnPlaceholders, AnswersMatchQuestions

LEMMA ListenKeeps ==
  ASSUME IInv, Listen
  PROVE  IInv'
<1> DEFINE e == Head(events)
<1>1. e \in Event /\ events' \in Seq(Event)
  BY HeadTailProperties DEF IInv, StreamInv, StreamTypeOK, Listen
<1>2. StreamInv'
  BY <1>1 DEF IInv, Listen, StreamInv, StreamTypeOK, EndedPumps
<1>3. CASE UNCHANGED msg /\ activeReq' \in {activeReq, None}
  BY <1>2, <1>3 DEF IInv, Listen, thread, PanelTypeOK, Placed, OwnPlaceholders,
     AnswersMatchQuestions
<1>4. CASE \E answer \in {e.req, None} : msg' = Patch(e.req, answer) /\ activeReq' = None
  <2>1. msg' \in [Question -> Msg] /\ Placed'
    BY <1>1, <1>4, PatchKeeps DEF IInv, Listen, Event
  <2> QED
    BY <1>2, <1>4, <2>1 DEF IInv, Listen, thread, PanelTypeOK
<1> QED
  BY <1>1, <1>3, <1>4 DEF Listen, Hear, Event, Kind, Terminal

LEMMA StopKeeps ==
  ASSUME IInv, Stop
  PROVE  IInv'
<1>1. StreamInv'
  BY DEF IInv, Stop, AskStop, StreamInv, StreamTypeOK, EndedPumps
<1>2. PanelTypeOK' /\ Placed'
  BY DEF IInv, Stop, panelVars, PanelTypeOK, Placed, OwnPlaceholders, AnswersMatchQuestions
<1> QED
  BY <1>1, <1>2 DEF IInv

(* Whatever thread is opened, its placeholders are kept or all gone. *)
LEMMA ThreadKeeps ==
  ASSUME IInv,
         \/ NewChat
         \/ \E c \in Conv : OpenThread(c) \/ ThreadLoaded(c)
         \/ \E a \in Account : ChangeAccount(a)
  PROVE  IInv'
<1>1. /\ UNCHANGED <<streamVars, asked, reqOf, activeReq, activeReqRef>>
      /\ msg' \in {msg, NoMessages}
  BY DEF NewChat, OpenThread, ThreadLoaded, ChangeAccount, Opening
<1>2. StreamInv'
  BY <1>1 DEF IInv, streamVars, StreamInv, StreamTypeOK, EndedPumps
<1>3. /\ history' \in Conv \union {None} /\ loads' \in SUBSET Conv
      /\ account' \in Account /\ opens' \in 0 .. MaxOpens
  BY NoneAssumption
     DEF IInv, PanelTypeOK, NewChat, OpenThread, ThreadLoaded, ChangeAccount, Opening
<1>4. PanelTypeOK' /\ Placed'
  <2>1. CASE msg' = msg
    BY <1>1, <1>3, <2>1
       DEF IInv, PanelTypeOK, Placed, OwnPlaceholders, AnswersMatchQuestions
  <2>2. CASE msg' = NoMessages
    BY <1>1, <1>3, <2>2
       DEF IInv, PanelTypeOK, Placed, OwnPlaceholders, AnswersMatchQuestions, NoMessages,
           Hidden, Msg
  <2> QED
    BY <1>1, <2>1, <2>2
<1> QED
  BY <1>2, <1>4 DEF IInv

LEMMA RunPumpKeeps ==
  ASSUME NEW r \in Req, IInv, RunPump(r)
  PROVE  IInv'
<1>1. PanelTypeOK' /\ Placed'
  BY DEF IInv, RunPump, panelVars, PanelTypeOK, Placed, OwnPlaceholders,
     AnswersMatchQuestions
<1> QED
  BY <1>1, PumpKeeps DEF IInv, RunPump

LEMMA NextIInv == IInv /\ [Next]_vars => IInv'
<1> SUFFICES ASSUME IInv, [Next]_vars PROVE IInv'
    OBVIOUS
<1>1. CASE UNCHANGED vars
  BY <1>1 DEF vars, streamVars, panelVars, IInv, StreamInv, StreamTypeOK, EndedPumps,
     PanelTypeOK, Placed, OwnPlaceholders, AnswersMatchQuestions
<1> QED
  BY <1>1, RunPumpKeeps, SendKeeps, CommandKeeps, ResolveKeeps, RejectKeeps, RenderKeeps,
     ListenKeeps, StopKeeps, ThreadKeeps DEF Next

(* IInv holds in every reachable state. *)
LEMMA Invariance == Spec => []IInv
BY InitIInv, NextIInv, PTL DEF Spec

-----------------------------------------------------------------------------
(* The variables of ask.rs and of AskPanel.tsx keep their types. *)
THEOREM TypeCorrect == Spec => []TypeOK
<1>1. IInv => TypeOK
  BY DEF IInv, StreamInv, PanelTypeOK, TypeOK
<1> QED
  BY <1>1, Invariance, PTL

(* The listener of AskPanel.tsx patches the placeholder that has the         *)
(* request's id: however many questions are in flight and however their ids  *)
(* and events are ordered, an answer never lands in another question's.      *)
THEOREM AnswersLandRight == Spec => []AnswersMatchQuestions
BY Invariance, PTL DEF IInv, Placed

(* Only a pump that has not ended adds an event, and adds its own. *)
LEMMA NextEmits ==
  IInv /\ [Next]_vars => [Len(events') > Len(events) => events'[Len(events')].req \notin ended]_events
<1> SUFFICES ASSUME IInv, [Next]_vars, Len(events') > Len(events)
             PROVE  events'[Len(events')].req \notin ended
  OBVIOUS
<1>1. ASSUME NEW r \in Req, NEW kind \in Kind, Emit(r, kind), r \notin ended
      PROVE  events'[Len(events')].req \notin ended
  BY <1>1, AppendProperties DEF IInv, StreamInv, StreamTypeOK, Emit, Event
<1>2. ASSUME NEW r \in Req, RunPump(r)
      PROVE  events'[Len(events')].req \notin ended
  <2>1. pump[r] \in {"post", "read", "drained"} /\ \E kind \in Kind : Emit(r, kind)
    BY <1>2 DEF RunPump, Pump, Post, Stopped, Line, EndOfStream, Drained, Forget,
       Kind, Terminal
  <2>2. r \notin ended
    BY <2>1 DEF IInv, StreamInv, EndedPumps
  <2> QED
    BY <1>1, <2>1, <2>2
<1>3. Listen => Len(events') <= Len(events)
  BY HeadTailProperties DEF IInv, StreamInv, StreamTypeOK, Listen
<1>4. Listen \/ events' = events \/ \E r \in Req : RunPump(r)
  BY DEF Next, vars, streamVars, Send, Command, AskSend, Resolve, Reject, Render, Stop,
     AskStop, NewChat, OpenThread, ThreadLoaded, ChangeAccount, Opening
<1> QED
  BY <1>2, <1>3, <1>4 DEF IInv, StreamInv, StreamTypeOK

(* ask.rs's pump has five exits and a flag that may go up between any two of *)
(* its steps: whichever it takes, no event follows a request's terminal one. *)
THEOREM TerminalEventsAreLast == Spec => NothingAfterTerminal
BY Invariance, NextEmits, PTL DEF Spec, NothingAfterTerminal
=============================================================================
