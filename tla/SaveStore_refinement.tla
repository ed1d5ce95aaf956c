------------------------- MODULE SaveStore_refinement -------------------------
(* Proof that SaveStore implements SlotRegister under the mapping Register,  *)
(* for every number of instances, threads, slots, payloads and crashes.      *)
(* The invariant of SaveStore_proofs supplies most of what the mapping       *)
(* relies on: the bytes under a slot name are those of a whole save, and the *)
(* temp a write renames holds its own payload.  The rest is StepsFit.        *)
EXTENDS SaveStore_proofs

(* The three variables of SlotRegister, as SaveStore shows them. *)
Values == [s \in Slot |-> Contents(dir[s])]
Stables == [s \in Slot |-> Contents(disk[s])]
Replies == [c \in Caller |-> Reply(c)]

Waiting(c) == call[c].step # "idle"

SaveSteps == {"claim", "write", "sync", "rename", "syncDir", "discard"}
Done(c) == call[c].step \in {"syncDir", "sweep"}

(* A call is at a step of the operation it was asked for. *)
StepsFit ==
  \A c \in Caller :
    /\ call[c].step \in SaveSteps => call[c].op = "save"
    /\ call[c].step \in {"stat", "read"} => call[c].op = "load"
    /\ call[c].step \in {"remove", "sweep"} => call[c].op = "delete"
    /\ (Waiting(c) /\ call[c].op = "delete") => call[c].data = Absent

RInv == IInv /\ StepsFit

-----------------------------------------------------------------------------
(* StepsFit is kept. *)

(* One call goes on to a step of its own operation, or is over. *)
LEMMA OneCallFits ==
  ASSUME StepsFit, NEW c \in Caller,
         \A b \in Caller \ {c} : call'[b] = call[b],
         \/ call'[c].step = "idle"
         \/ /\ call'[c].op = call[c].op /\ call'[c].data = call[c].data /\ Waiting(c)
            /\ call'[c].step \in SaveSteps => call[c].op = "save"
            /\ call'[c].step \in {"stat", "read"} => call[c].op = "load"
            /\ call'[c].step \in {"remove", "sweep"} => call[c].op = "delete"
  PROVE  StepsFit'
BY DEF StepsFit, Waiting, SaveSteps

LEMMA GotoFits ==
  ASSUME TypeOK, StepsFit, NEW c \in Caller, Waiting(c), NEW st \in Step, Goto(c, st),
         st \in SaveSteps => call[c].op = "save",
         st \in {"stat", "read"} => call[c].op = "load",
         st \in {"remove", "sweep"} => call[c].op = "delete"
  PROVE  StepsFit'
<1>1. /\ call'[c].op = call[c].op /\ call'[c].data = call[c].data /\ call'[c].step = st
      /\ \A b \in Caller \ {c} : call'[b] = call[b]
  BY DEF TypeOK, Call, Goto
<1> QED
  BY <1>1, OneCallFits

LEMMA WorkFits ==
  ASSUME TypeOK, StepsFit, NEW c \in Caller, Work(c)
  PROVE  StepsFit'
<1>1. ASSUME NEW r, NEW d, Return(c, r, d)
      PROVE  StepsFit'
  <2>1. /\ call'[c].step = "idle"
        /\ \A b \in Caller \ {c} : call'[b] = call[b]
    BY <1>1 DEF TypeOK, Return, Idle
  <2> QED
    BY <2>1, OneCallFits
<1>2. CASE Acquire(c)
  <2>1. Waiting(c) /\ Goto(c, FirstStep(call[c].op)) /\ call[c].op \in {"save", "load", "delete"}
    BY <1>2 DEF Acquire, Waiting, At, TypeOK, Call
  <2>2. /\ call[c].op = "save" => FirstStep(call[c].op) = "claim"
        /\ call[c].op = "load" => FirstStep(call[c].op) = "stat"
        /\ call[c].op = "delete" => FirstStep(call[c].op) = "remove"
    BY DEF FirstStep
  <2> QED
    BY <2>1, <2>2, GotoFits DEF SaveSteps, Step
<1>3. CASE Claim(c)
  <2>1. At(c, "claim")
    BY <1>3 DEF Claim, Draw
  <2>2. /\ call'[c].op = call[c].op /\ call'[c].data = call[c].data
        /\ call'[c].step \in {"claim", "write"}
        /\ \A b \in Caller \ {c} : call'[b] = call[b]
    BY <1>3, <2>1 DEF Claim, TypeOK, Call, At
  <2> QED
    BY <2>1, <2>2, OneCallFits DEF StepsFit, SaveSteps, At, Waiting
<1>4. CASE Write(c) \/ SyncAll(c)
  BY <1>4, GotoFits DEF Write, SyncAll, At, Waiting, StepsFit, SaveSteps, Step
<1>5. CASE Rename(c)
  <2>1. At(c, "rename")
    BY <1>5 DEF Rename
  <2>2. /\ call'[c].op = call[c].op /\ call'[c].data = call[c].data
        /\ call'[c].step \in {"syncDir", "discard"}
        /\ \A b \in Caller \ {c} : call'[b] = call[b]
    BY <1>5 DEF Rename, Goto, TypeOK, Call
  <2> QED
    BY <2>1, <2>2, OneCallFits DEF StepsFit, SaveSteps, At, Waiting
<1>6. CASE Stat(c) \/ Remove(c)
  BY <1>6, GotoFits DEF Stat, Remove, At, Waiting, StepsFit, SaveSteps, Step
<1>7. CASE IoError(c) \/ ClaimError(c) \/ GiveUp(c) \/ Discard(c)
  BY <1>1, <1>7 DEF IoError, ClaimError, GiveUp, Discard, Fail
<1>8. CASE SyncDir(c) \/ Missing(c) \/ Sweep(c)
  BY <1>1, <1>8 DEF SyncDir, Missing, Sweep
<1>9. CASE Read(c)
  BY <1>1, <1>9 DEF Read
<1> QED
  BY <1>2, <1>3, <1>4, <1>5, <1>6, <1>7, <1>8, <1>9 DEF Work

LEMMA FitsNext == IInv /\ StepsFit /\ [Next]_vars => StepsFit'
<1> SUFFICES ASSUME IInv, StepsFit, [Next]_vars
             PROVE  StepsFit'
  OBVIOUS
<1>0. TypeOK
  BY DEF IInv
<1>1. CASE UNCHANGED vars \/ (\E i \in Instance : Open(i)) \/ \E s \in Slot : WriteBack(s)
  BY <1>1 DEF StepsFit, Waiting, vars, Open, WriteBack
<1>2. CASE PowerLoss \/ \E i \in Instance : CrashProcess(i)
  BY <1>2 DEF StepsFit, Waiting, SaveSteps, PowerLoss, CrashProcess, Killed, Idle
<1>3. ASSUME NEW c \in Caller, Request(c)
      PROVE  StepsFit'
  <2>1. \A b \in Caller \ {c} : call'[b] = call[b]
    BY <1>0, <1>3 DEF Request, Refuse, Begin, TypeOK
  <2>2. CASE Refuse(c)
    BY <1>0, <2>1, <2>2 DEF Refuse, StepsFit, Waiting, SaveSteps, TypeOK, Idle
  <2>3. ASSUME NEW s \in Slot, NEW op, NEW d, Begin(c, op, s, d),
               op = "delete" => d = Absent
        PROVE  StepsFit'
    <3>1. call'[c].step = "lock" /\ call'[c].op = op /\ call'[c].data = d
      BY <1>0, <2>3 DEF Begin, TypeOK, Idle
    <3> QED
      BY <2>1, <2>3, <3>1 DEF StepsFit, Waiting, SaveSteps
  <2> QED
    BY <1>3, <2>2, <2>3 DEF Request
<1>4. CASE \E c \in Caller : Work(c)
  BY <1>0, <1>4, WorkFits
<1> QED
  BY <1>1, <1>2, <1>3, <1>4 DEF Next

LEMMA RInvariance == Spec => []RInv
<1>1. Init => StepsFit
  BY DEF Init, StepsFit, Waiting, SaveSteps, Idle
<1> QED
  BY <1>1, FitsNext, Invariance, PTL DEF Spec, RInv

-----------------------------------------------------------------------------
(* What the file and call records look like through the mapping.             *)

LEMMA ContentsAreData ==
  ASSUME IInv, NEW s \in Slot
  PROVE  /\ Values[s] = dir[s].data /\ Stables[s] = disk[s].data
         /\ Values[s] \in Payload \union {Absent}
BY DEF IInv, TypeOK, SlotsWhole, Values, Stables, Contents, Entry

LEMMA WaitingIsPending ==
  ASSUME IInv, NEW c \in Caller
  PROVE  /\ Register!Waits(c) <=> Waiting(c)
         /\ Waiting(c) =>
              /\ Replies[c].op = call[c].op /\ Replies[c].slot = call[c].slot
              /\ Replies[c].data = call[c].data /\ (Replies[c].done <=> Done(c))
BY DEF IInv, TypeOK, Call, Result, Replies, Reply, At, Waiting, Done, Register!Waits

(* A step of a call that stays under way is no news to its caller. *)
LEMMA StillWaiting ==
  ASSUME IInv, NEW c \in Caller, Waiting(c), Waiting(c)', Done(c)' = Done(c),
         call'[c].op = call[c].op, call'[c].slot = call[c].slot,
         call'[c].data = call[c].data,
         \A b \in Caller \ {c} : call'[b] = call[b]
  PROVE  Replies' = Replies
<1>1. \A b \in Caller : Reply(b)' = Reply(b)
  BY DEF Reply, At, Waiting, Done
<1> QED
  BY <1>1 DEF Replies

(* A call that returns tells its caller the result. *)
LEMMA ReturnTells ==
  ASSUME IInv, NEW c \in Caller, Waiting(c), NEW r \in Result,
         NEW d \in Payload \union {Absent}, Return(c, r, d)
  PROVE  Register!Tell(c, r, d)
<1>1. /\ call'[c].step = "idle" /\ call'[c].result = r /\ call'[c].data = d
      /\ \A b \in Caller \ {c} : call'[b] = call[b]
  BY DEF IInv, TypeOK, Return, Idle
<1>2. Replies' = [Replies EXCEPT ![c] = [told |-> r, data |-> d]]
  BY <1>1 DEF Replies, Reply, At
<1> QED
  BY <1>2, WaitingIsPending DEF Register!Tell, Register!Answer, Replies

LEMMA InitImplements == Init => Register!Init
BY DEF Init, Register!Init, Register!Held, Register!Silence, Register!Answer, Contents, Reply,
       At, Idle

-----------------------------------------------------------------------------
(* The life of a process. *)

LEMMA CrashImplements ==
  ASSUME NEW i \in Instance, IInv, CrashProcess(i)
  PROVE  Register!Crash
<1> DEFINE dead == {c \in Caller : InstanceOf[c] = i}
<1>1. Replies' = Register!Forgotten(dead)
  BY DEF CrashProcess, Killed, Replies, Reply, At, Idle, Register!Forgotten,
    Register!Silence, Register!Answer
<1>2. Values' = Values /\ Stables' = Stables
  BY DEF CrashProcess, fs, Values, Stables
<1>3. dead \in SUBSET Caller
  OBVIOUS
<1> QED
  BY <1>1, <1>2, <1>3 DEF Register!Crash, Values, Stables, Replies

LEMMA PowerLossImplements ==
  ASSUME IInv, PowerLoss
  PROVE  Register!PowerLoss
<1>1. Replies' = Register!Forgotten(Caller)
  BY DEF PowerLoss, Killed, Replies, Reply, At, Idle, Register!Forgotten,
    Register!Silence, Register!Answer
<1>2. \A s \in Slot : dir'[s] = disk[s] /\ disk'[s] = disk[s]
  BY DEF IInv, SlotsWhole, PowerLoss, Survivor
<1>3. Values' = Stables /\ Stables' = Stables
  BY <1>2 DEF Values, Stables
<1> QED
  BY <1>1, <1>3 DEF Register!PowerLoss, Values, Stables, Replies

LEMMA WriteBackImplements ==
  ASSUME NEW s \in Slot, IInv, WriteBack(s)
  PROVE  Register!Settle(s)
<1>1. Stables' = [Stables EXCEPT ![s] = Values[s]]
  BY DEF IInv, TypeOK, WriteBack, Stables, Values
<1>2. Values' = Values /\ Replies' = Replies
  BY DEF WriteBack, Values, Replies, Reply, At
<1> QED
  BY <1>1, <1>2 DEF Register!Settle, Values, Stables, Replies

-----------------------------------------------------------------------------
(* A call comes in. *)

LEMMA BeginImplements ==
  ASSUME NEW c \in Caller, NEW op, NEW s, NEW d, IInv, Begin(c, op, s, d),
         [op |-> op, slot |-> s, data |-> d] \in Register!Asked
  PROVE  \E ask \in Register!Asked : Register!Begin(c, ask)
<1> DEFINE ask == [op |-> op, slot |-> s, data |-> d]
<1>1. ~Register!Waits(c)
  BY WaitingIsPending DEF Begin, At, Waiting
<1>2. /\ call'[c].step = "lock" /\ call'[c].op = op /\ call'[c].slot = s /\ call'[c].data = d
      /\ \A b \in Caller \ {c} : call'[b] = call[b]
  BY DEF IInv, TypeOK, Begin, Idle
<1>3. /\ Reply(c)' = Register!Pending(ask, call'[c].step \in {"syncDir", "sweep"})
      /\ \A b \in Caller \ {c} : Reply(b)' = Reply(b)
  BY <1>2 DEF Reply, At, Register!Pending
<1>4. Replies' = [Replies EXCEPT ![c] = Register!Pending(ask, FALSE)]
  <2>1. (call'[c].step \in {"syncDir", "sweep"}) = FALSE
    BY <1>2
  <2> QED
    BY <1>3, <2>1 DEF Replies
<1>5. Values' = Values /\ Stables' = Stables
  BY DEF Begin, fs, Values, Stables
<1>6. Register!Begin(c, ask)
  BY <1>1, <1>4, <1>5 DEF Register!Begin, Values, Stables, Replies
<1> QED
  BY <1>6

LEMMA RefuseImplements ==
  ASSUME NEW c \in Caller, IInv, Refuse(c)
  PROVE  Register!Refused(c)
<1>1. ~Register!Waits(c)
  BY WaitingIsPending DEF Refuse, At, Waiting
<1>2. /\ call'[c].step = "idle" /\ call'[c].result = "failed"
      /\ call'[c].data = Absent
      /\ \A b \in Caller \ {c} : call'[b] = call[b]
  BY DEF IInv, TypeOK, Refuse, Idle
<1>3. Replies' = [Replies EXCEPT ![c] = [told |-> "failed", data |-> Absent]]
  BY <1>2 DEF Replies, Reply, At
<1>4. Values' = Values /\ Stables' = Stables
  BY DEF Refuse, fs, Values, Stables
<1> QED
  BY <1>1, <1>3, <1>4 DEF Register!Refused, Register!Answer, Values, Stables, Replies

LEMMA RequestImplements ==
  ASSUME NEW c \in Caller, IInv, Request(c)
  PROVE  Register!Refused(c) \/ \E ask \in Register!Asked : Register!Begin(c, ask)
<1>1. CASE Refuse(c)
  BY <1>1, RefuseImplements
<1>2. ASSUME NEW s \in Slot, NEW d \in Payload, Begin(c, "save", s, d)
      PROVE  \E ask \in Register!Asked : Register!Begin(c, ask)
  <2>1. [op |-> "save", slot |-> s, data |-> d] \in Register!Asked
    BY DEF Register!Asked
  <2> QED
    BY <1>2, <2>1, BeginImplements
<1>3. ASSUME NEW s \in Slot, NEW op \in {"load", "delete"}, Begin(c, op, s, Absent)
      PROVE  \E ask \in Register!Asked : Register!Begin(c, ask)
  <2>1. [op |-> op, slot |-> s, data |-> Absent] \in Register!Asked
    BY DEF Register!Asked
  <2> QED
    BY <1>3, <2>1, BeginImplements
<1> QED
  BY <1>1, <1>2, <1>3 DEF Request

-----------------------------------------------------------------------------
(* Steps of a call that change its slot, or tell its caller.                 *)

LEMMA FailImplements ==
  ASSUME NEW c \in Caller, RInv, Waiting(c), Fail(c), Done(c) => call[c].op = "save",
         UNCHANGED <<dir, disk>>
  PROVE  Register!Failed(c)
<1>0. IInv
  BY DEF RInv
<1>1. Register!Tell(c, "failed", Absent)
  BY <1>0, ReturnTells DEF Fail, Result
<1>2. Replies[c].done => Replies[c].op = "save"
  BY <1>0, WaitingIsPending
<1>3. Values' = Values /\ Stables' = Stables
  BY DEF Values, Stables
<1> QED
  BY <1>1, <1>2, <1>3 DEF Register!Failed, Values, Stables, Replies

(* A call takes effect: its slot shows what it was to hold, and it goes on. *)
LEMMA ShowImplements ==
  ASSUME NEW c \in Caller, IInv, Waiting(c), ~Done(c), call[c].slot \in Slot,
         call[c].data \in Payload \union {Absent},
         call[c].op = "save" \/ (call[c].op = "delete" /\ dir[call[c].slot].data # Absent),
         Done(c)', call'[c].op = call[c].op, call'[c].slot = call[c].slot,
         call'[c].data = call[c].data,
         \A b \in Caller \ {c} : call'[b] = call[b],
         Show(call[c].slot, call[c].data, "synced"), disk' = disk
  PROVE  Register!Change(c)
<1> DEFINE s == call[c].slot
<1>1. /\ Register!Waits(c) /\ ~Replies[c].done /\ Replies[c].op = call[c].op
      /\ Replies[c].slot = s /\ Replies[c].data = call[c].data
  BY WaitingIsPending
<1>2. Values' = [Values EXCEPT ![s] = call[c].data] /\ Stables' = Stables
  BY DEF IInv, TypeOK, Show, Values, Stables, Contents
<1>3. Reply(c)' = Register!Pending(Replies[c], TRUE) /\ \A b \in Caller \ {c} : Reply(b)' = Reply(b)
  BY <1>1 DEF Reply, At, Done, Register!Pending
<1>4. Replies' = [Replies EXCEPT ![c] = Register!Pending(Replies[c], TRUE)]
  BY <1>3 DEF Replies
<1>5. Replies[c].op = "save" \/ (Replies[c].op = "delete" /\ Values[s] # Absent)
  BY <1>1, ContentsAreData
<1> QED
  BY <1>1, <1>2, <1>4, <1>5 DEF Register!Change, Values, Stables, Replies

LEMMA RenameImplements ==
  ASSUME NEW c \in Caller, RInv, Rename(c)
  PROVE  Register!Change(c) \/ UNCHANGED <<Values, Stables, Replies>>
<1> DEFINE s == call[c].slot
           t == call[c].tmp
<1>0. IInv /\ StepsFit /\ TypeOK
  BY DEF RInv, IInv
<1>1. /\ s \in Slot /\ Waiting(c) /\ ~Done(c) /\ call[c].op = "save"
      /\ temp[t].data = call[c].data /\ call[c].data \in Payload
      /\ temp[t].bytes = "synced"
  BY <1>0 DEF IInv, CallsArmed, TempsReady, TempsOwned, StepsFit, SaveSteps, Writing, At,
     Rename, Waiting, Done
<1>2. /\ \A b \in Caller \ {c} : call'[b] = call[b]
      /\ call'[c].op = call[c].op /\ call'[c].slot = s /\ call'[c].data = call[c].data
  BY <1>0 DEF TypeOK, Call, Rename, Goto
<1>3. CASE Show(s, temp[t].data, temp[t].bytes) /\ call'[c].step = "syncDir"
  <2>1. Done(c)' /\ disk' = disk /\ Show(s, call[c].data, "synced")
    BY <1>1, <1>3 DEF Done, Rename
  <2> QED
    BY <1>0, <1>1, <1>2, <2>1, ShowImplements
<1>4. CASE dir' = dir /\ call'[c].step = "discard"
  <2>1. Replies' = Replies
    BY <1>0, <1>1, <1>2, <1>4, StillWaiting DEF Waiting, Done
  <2> QED
    BY <1>4, <2>1 DEF Rename, Values, Stables
<1> QED
  BY <1>0, <1>3, <1>4 DEF TypeOK, Call, Rename, Goto

LEMMA RemoveImplements ==
  ASSUME NEW c \in Caller, RInv, Remove(c)
  PROVE  Register!Change(c)
<1>0. IInv /\ StepsFit /\ TypeOK
  BY DEF RInv, IInv
<1>1. /\ call[c].slot \in Slot /\ Waiting(c) /\ ~Done(c)
      /\ call[c].op = "delete" /\ call[c].data = Absent /\ dir[call[c].slot].data # Absent
  BY <1>0 DEF IInv, CallsArmed, StepsFit, At, Remove, Waiting, Done
<1>2. /\ call'[c].step = "sweep" /\ call'[c].op = call[c].op
      /\ call'[c].slot = call[c].slot /\ call'[c].data = call[c].data
      /\ \A b \in Caller \ {c} : call'[b] = call[b]
  BY <1>0 DEF TypeOK, Call, Remove, Goto
<1>3. Done(c)' /\ disk' = disk /\ Show(call[c].slot, call[c].data, "synced")
  BY <1>1, <1>2 DEF Done, Remove
<1> QED
  BY <1>0, <1>1, <1>2, <1>3, ShowImplements

LEMMA SyncDirImplements ==
  ASSUME NEW c \in Caller, RInv, SyncDir(c)
  PROVE  Register!Saved(c)
<1>0. IInv /\ Waiting(c) /\ Done(c) /\ call[c].op = "save"
  BY DEF RInv, StepsFit, SaveSteps, SyncDir, At, Waiting, Done
<1>1. Register!Tell(c, "saved", Absent)
  BY <1>0, ReturnTells DEF SyncDir, Result
<1>2. Replies[c].op = "save" /\ Replies[c].done
  BY <1>0, WaitingIsPending
<1>3. Stables' = Values /\ Values' = Values
  BY DEF SyncDir, Values, Stables
<1> QED
  BY <1>1, <1>2, <1>3 DEF Register!Saved, Values, Stables, Replies

LEMMA MissingImplements ==
  ASSUME NEW c \in Caller, RInv, Missing(c)
  PROVE  Register!Missing(c)
<1> DEFINE s == call[c].slot
<1>1. IInv /\ s \in Slot /\ Waiting(c) /\ ~Done(c) /\ call[c].op # "save"
  BY DEF RInv, IInv, CallsArmed, StepsFit, At, Missing, Waiting, Done
<1>2. Register!Tell(c, "missing", Absent)
  BY <1>1, ReturnTells DEF Missing, Result
<1>3. Values[s] = Absent /\ Values' = Values /\ Stables' = Stables
  BY <1>1, ContentsAreData DEF Missing, fs, Values, Stables
<1>4. Replies[c].op # "save" /\ ~Replies[c].done /\ Replies[c].slot = s
  BY <1>1, WaitingIsPending
<1> QED
  BY <1>2, <1>3, <1>4 DEF Register!Missing, Values, Stables, Replies

LEMMA ReadImplements ==
  ASSUME NEW c \in Caller, RInv, Read(c)
  PROVE  Register!Loaded(c)
<1> DEFINE s == call[c].slot
<1>1. IInv /\ s \in Slot /\ Waiting(c) /\ call[c].op = "load"
  BY DEF RInv, IInv, CallsArmed, StepsFit, At, Read, Waiting
<1>2. /\ Values[s] = dir[s].data /\ Values[s] # Absent
      /\ Values[s] \in Payload \union {Absent}
  BY <1>1, ContentsAreData DEF Read
<1>3. Register!Tell(c, "loaded", Values[s])
  BY <1>1, <1>2, ReturnTells DEF Read, Result
<1>4. Values' = Values /\ Stables' = Stables
  BY DEF Read, fs, Values, Stables
<1>5. Replies[c].op = "load" /\ Replies[c].slot = s
  BY <1>1, WaitingIsPending
<1> QED
  BY <1>2, <1>3, <1>4, <1>5 DEF Register!Loaded, Values, Stables, Replies

LEMMA SweepImplements ==
  ASSUME NEW c \in Caller, RInv, Sweep(c)
  PROVE  Register!Deleted(c)
<1>0. IInv /\ Waiting(c) /\ Done(c) /\ call[c].op = "delete"
  BY DEF RInv, StepsFit, Sweep, At, Waiting, Done
<1>1. Register!Tell(c, "deleted", Absent)
  BY <1>0, ReturnTells DEF Sweep, Result
<1>2. Replies[c].op = "delete" /\ Replies[c].done
  BY <1>0, WaitingIsPending
<1>3. Values' = Values /\ Stables' = Stables
  BY DEF Sweep, Values, Stables
<1> QED
  BY <1>1, <1>2, <1>3 DEF Register!Deleted, Values, Stables, Replies

-----------------------------------------------------------------------------
(* Steps inside a call that nobody outside can see.                          *)

LEMMA InnerStepsStutter ==
  ASSUME NEW c \in Caller, RInv,
         Acquire(c) \/ Claim(c) \/ Write(c) \/ SyncAll(c) \/ Stat(c)
  PROVE  UNCHANGED <<Values, Stables, Replies>>
<1>0. IInv /\ TypeOK
  BY DEF RInv, IInv
<1>1. Waiting(c) /\ ~Done(c)
  BY DEF Waiting, Done, At, Acquire, Claim, Draw, Write, SyncAll, Stat
<1>2. /\ call'[c].step \notin {"idle", "syncDir", "sweep"}
      /\ call'[c].op = call[c].op /\ call'[c].slot = call[c].slot
      /\ call'[c].data = call[c].data
      /\ \A b \in Caller \ {c} : call'[b] = call[b]
  <2>1. CASE Acquire(c)
    <3>1. call[c].op \in {"save", "load", "delete"}
      BY <1>0 DEF TypeOK, Call
    <3>2. FirstStep(call[c].op) \notin {"idle", "syncDir", "sweep"}
      BY <3>1, FirstSteps
    <3> QED
      BY <1>0, <2>1, <3>2 DEF TypeOK, Call, Acquire, Goto
  <2>2. CASE Claim(c)
    BY <1>0, <2>2 DEF TypeOK, Call, Claim, Draw, At
  <2>3. CASE Write(c) \/ SyncAll(c) \/ Stat(c)
    BY <1>0, <2>3 DEF TypeOK, Call, Write, SyncAll, Stat, Goto
  <2> QED
    BY <2>1, <2>2, <2>3
<1>3. Replies' = Replies
  BY <1>0, <1>1, <1>2, StillWaiting DEF Waiting, Done
<1>4. dir' = dir /\ disk' = disk
  BY DEF Acquire, Claim, Draw, Write, SyncAll, Stat, fs
<1> QED
  BY <1>3, <1>4 DEF Values, Stables

LEMMA FailuresImplement ==
  ASSUME NEW c \in Caller, RInv,
         IoError(c) \/ ClaimError(c) \/ GiveUp(c) \/ Discard(c)
  PROVE  Register!Failed(c)
<1>1. Waiting(c) /\ Fail(c) /\ UNCHANGED <<dir, disk>>
  BY DEF Waiting, At, IoError, ClaimError, Draw, GiveUp, Discard, fs
<1>2. Done(c) => call[c].op = "save"
  BY DEF RInv, StepsFit, SaveSteps, Done, At, IoError, ClaimError, Draw, GiveUp, Discard
<1> QED
  BY <1>1, <1>2, FailImplements

LEMMA WorkImplements ==
  ASSUME NEW c \in Caller, RInv, Work(c)
  PROVE  Register!Proceed(c) \/ UNCHANGED <<Values, Stables, Replies>>
<1>0. Register!Waits(c)
  <2>1. IInv /\ TypeOK
    BY DEF RInv, IInv
  <2>2. Waiting(c)
    BY <2>1, WorkForms DEF Acquire, At, Inside, Waiting
  <2> QED
    BY <2>1, <2>2, WaitingIsPending
<1>1. CASE Acquire(c) \/ Claim(c) \/ Write(c) \/ SyncAll(c) \/ Stat(c)
  BY <1>1, InnerStepsStutter
<1>2. CASE IoError(c) \/ ClaimError(c) \/ GiveUp(c) \/ Discard(c)
  BY <1>0, <1>2, FailuresImplement DEF Register!Proceed
<1>3. CASE Rename(c)
  BY <1>0, <1>3, RenameImplements DEF Register!Proceed
<1>4. CASE Remove(c)
  BY <1>0, <1>4, RemoveImplements DEF Register!Proceed
<1>5. CASE SyncDir(c)
  BY <1>0, <1>5, SyncDirImplements DEF Register!Proceed
<1>6. CASE Missing(c)
  BY <1>0, <1>6, MissingImplements DEF Register!Proceed
<1>7. CASE Read(c)
  BY <1>0, <1>7, ReadImplements DEF Register!Proceed
<1>8. CASE Sweep(c)
  BY <1>0, <1>8, SweepImplements DEF Register!Proceed
<1> QED
  BY <1>1, <1>2, <1>3, <1>4, <1>5, <1>6, <1>7, <1>8 DEF Work

(* Every step of the store is a step of the registers, or none. *)
LEMMA NextImplements == RInv /\ [Next]_vars => [Register!Next]_(Register!vars)
<1> SUFFICES ASSUME RInv, [Next]_vars
             PROVE  Register!Next \/ UNCHANGED <<Values, Stables, Replies>>
  BY DEF Register!vars, Values, Stables, Replies
<1>0. IInv
  BY DEF RInv
<1>1. ASSUME NEW i \in Instance, Open(i)
      PROVE  UNCHANGED <<Values, Stables, Replies>>
  BY <1>1 DEF Open, fs, Values, Stables, Replies, Reply, At
<1>2. CASE \E i \in Instance : CrashProcess(i)
  BY <1>0, <1>2, CrashImplements DEF Register!Next
<1>3. CASE PowerLoss
  BY <1>0, <1>3, PowerLossImplements DEF Register!Next
<1>4. CASE \E s \in Slot : WriteBack(s)
  BY <1>0, <1>4, WriteBackImplements DEF Register!Next
<1>5. CASE \E c \in Caller : Request(c)
  BY <1>0, <1>5, RequestImplements DEF Register!Next
<1>6. CASE \E c \in Caller : Work(c)
  BY <1>6, WorkImplements DEF Register!Next
<1>7. CASE UNCHANGED vars
  BY <1>7 DEF vars, fs, Values, Stables, Replies, Reply, At
<1> QED
  BY <1>1, <1>2, <1>3, <1>4, <1>5, <1>6, <1>7 DEF Next

(* save_store.rs keeps what its callers rely on: under every interleaving of *)
(* threads and processes, failed file operation, crash and power loss, each  *)
(* call changes its own slot at most once, in one step and to its own        *)
(* payload; Ok of save or delete means that it did, and of save that it is   *)
(* on the disk; a load answers with what its slot holds; and a save that     *)
(* fails before its rename leaves the slot alone.                            *)
THEOREM StoreIsRegister == Spec => RegisterKept
BY RInvariance, InitImplements, NextImplements, PTL DEF Spec, RegisterKept, Register!Spec
=============================================================================
