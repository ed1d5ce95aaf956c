-------------------------- MODULE SaveStore_proofs --------------------------
(* Proofs about SaveStore: its types, and the safety invariants that       *)
(* MCSaveStore_safety.cfg checks on a small instance, for every number of  *)
(* instances, threads, slots, payloads and crashes.                        *)
EXTENDS SaveStore, FiniteSetTheorems, TLAPS

(* A call in progress has a live process and a slot; a save has a payload, *)
(* and a temp name from create_new until that file is renamed or gone.     *)
CallsArmed ==
  \A c \in Caller :
    /\ ~At(c, "idle") => Running(c) /\ call[c].slot \in Slot
    /\ (At(c, "lock") /\ call[c].op = "save") => call[c].data \in Payload
    /\ At(c, "claim") => call[c].data \in Payload
    /\ Writing(c) => call[c].tmp \in TempName /\ call[c].data \in Payload

(* The file of a write in flight exists and has got as far as the write. *)
TempsReady ==
  \A c \in Caller :
    /\ Writing(c) => temp[call[c].tmp] # NoFile
    /\ At(c, "rename") => temp[call[c].tmp].bytes = "synced"

(* The disk trails the directory, and so does a write that just renamed. *)
DiskTrails ==
  /\ \A s \in Slot : disk[s].change <= dir[s].change
  /\ \A c \in Caller : At(c, "syncDir") => call[c].change <= dir[call[c].slot].change

IInv ==
  /\ TypeOK
  /\ CallsArmed
  /\ TempsReady
  /\ TempsOwned
  /\ SlotsWhole
  /\ DiskTrails
  /\ AckedDurable

LEMMA InitIInv == Init => IInv
<1> SUFFICES ASSUME Init PROVE IInv
    OBVIOUS
<1>1. TypeOK
  BY BoundAssumption DEF Init, TypeOK, Call, Idle, Step, Result, Entry, Bytes
<1>2. CallsArmed /\ TempsReady /\ TempsOwned
  BY DEF Init, CallsArmed, TempsReady, TempsOwned, Writing, At, Idle
<1>3. SlotsWhole /\ DiskTrails /\ AckedDurable
  BY DEF Init, SlotsWhole, DiskTrails, AckedDurable, At, Idle
<1> QED
  BY <1>1, <1>2, <1>3 DEF IInv

-----------------------------------------------------------------------------
(* What each way of leaving a step does to the types of the call records.  *)

LEMMA IdleIsCall == Idle \in Call
BY BoundAssumption DEF Idle, Call, Step, Result

LEMMA IdleType ==
  ASSUME NEW r \in Result, NEW d \in Payload \union {Absent}
  PROVE  [Idle EXCEPT !.result = r, !.data = d] \in Call
BY IdleIsCall DEF Call

LEMMA GotoType ==
  ASSUME NEW c \in Caller, NEW st \in Step, call \in [Caller -> Call], Goto(c, st)
  PROVE  call' \in [Caller -> Call]
BY DEF Goto, Call

LEMMA ReturnType ==
  ASSUME NEW c \in Caller, NEW r \in Result, NEW d \in Payload \union {Absent},
         call \in [Caller -> Call], lock \in [Instance -> Caller \union {Free}],
         Return(c, r, d)
  PROVE  /\ call' \in [Caller -> Call]
         /\ lock' \in [Instance -> Caller \union {Free}]
BY IdleType DEF Return

LEMMA KilledType ==
  ASSUME NEW dead, call \in [Caller -> Call]
  PROVE  Killed(dead) \in [Caller -> Call]
BY IdleIsCall DEF Killed

-----------------------------------------------------------------------------
(* Each action keeps the invariant. *)

LEMMA OpenKeeps ==
  ASSUME NEW i \in Instance, IInv, Open(i)
  PROVE  IInv'
<1>1. TypeOK'
  BY BoundAssumption DEF IInv, TypeOK, fs, Open
<1>2. CallsArmed'
  BY DEF IInv, CallsArmed, Running, Writing, At, Open
<1>3. TempsReady' /\ TempsOwned'
  BY DEF IInv, TempsReady, TempsOwned, Writing, At, fs, Open
<1>4. SlotsWhole' /\ DiskTrails' /\ AckedDurable'
  BY DEF IInv, SlotsWhole, DiskTrails, AckedDurable, At, fs, Open
<1> QED
  BY <1>1, <1>2, <1>3, <1>4 DEF IInv

LEMMA CrashProcessKeeps ==
  ASSUME NEW i \in Instance, IInv, CrashProcess(i)
  PROVE  IInv'
<1>1. TypeOK'
  BY KilledType, BoundAssumption DEF IInv, TypeOK, fs, CrashProcess
<1>2. CallsArmed'
  BY DEF IInv, CallsArmed, Running, Writing, At, CrashProcess, Killed, Idle
<1>3. TempsReady' /\ TempsOwned'
  BY DEF IInv, TempsReady, TempsOwned, Writing, At, fs, CrashProcess, Killed,
    Idle
<1>4. SlotsWhole' /\ DiskTrails' /\ AckedDurable'
  BY DEF IInv, SlotsWhole, DiskTrails, AckedDurable, At, fs, CrashProcess,
    Killed, Idle
<1> QED
  BY <1>1, <1>2, <1>3, <1>4 DEF IInv

LEMMA PowerLossKeeps ==
  ASSUME IInv, PowerLoss
  PROVE  IInv'
<1>1. TypeOK'
  <2>1. call' \in [Caller -> Call]
    BY KilledType DEF IInv, TypeOK, PowerLoss
  <2>2. dir' \in [Slot -> Entry] /\ disk' \in [Slot -> Entry]
    BY DEF IInv, TypeOK, PowerLoss, Survivor, Entry, Bytes
  <2>3. temp' \in [TempName -> TempFile \union {NoFile}]
    <3>1. \A t \in TempName : temp[t] # NoFile => Survivor(temp[t]) \in TempFile
      BY DEF IInv, TypeOK, Survivor, TempFile, Bytes
    <3> QED
      BY <3>1 DEF PowerLoss
  <2> QED
    BY <2>1, <2>2, <2>3, BoundAssumption DEF IInv, TypeOK, PowerLoss
<1>2. CallsArmed'
  BY DEF CallsArmed, Writing, At, PowerLoss, Killed, Idle
<1>3. TempsReady' /\ TempsOwned'
  BY DEF TempsReady, TempsOwned, Writing, At, PowerLoss, Killed, Idle
<1>4. SlotsWhole' /\ DiskTrails' /\ AckedDurable'
  BY DEF IInv, TypeOK, SlotsWhole, DiskTrails, AckedDurable, At, Entry,
    PowerLoss, Killed, Idle, Survivor
<1> QED
  BY <1>1, <1>2, <1>3, <1>4 DEF IInv

LEMMA WriteBackKeeps ==
  ASSUME NEW s \in Slot, IInv, WriteBack(s)
  PROVE  IInv'
<1>1. TypeOK'
  BY DEF IInv, TypeOK, WriteBack
<1>2. CallsArmed'
  BY DEF IInv, CallsArmed, Running, Writing, At, WriteBack
<1>3. TempsReady' /\ TempsOwned'
  BY DEF IInv, TempsReady, TempsOwned, Writing, At, WriteBack
<1>4. SlotsWhole' /\ DiskTrails' /\ AckedDurable'
  BY DEF IInv, TypeOK, SlotsWhole, DiskTrails, AckedDurable, At, Entry,
    WriteBack
<1> QED
  BY <1>1, <1>2, <1>3, <1>4 DEF IInv

LEMMA BeginKeeps ==
  ASSUME NEW c \in Caller, NEW s \in Slot, NEW op \in {"save", "load", "delete"},
         NEW d \in Payload \union {Absent}, op = "save" => d \in Payload,
         IInv, Begin(c, op, s, d)
  PROVE  IInv'
<1>1. TypeOK'
  <2>1. call' \in [Caller -> Call]
    BY IdleIsCall DEF IInv, TypeOK, Begin, Call, Step
  <2> QED
    BY <2>1, BoundAssumption DEF IInv, TypeOK, Begin, fs
<1>2. CallsArmed'
  BY DEF IInv, CallsArmed, Running, Writing, At, Begin
<1>3. TempsReady' /\ TempsOwned'
  BY DEF IInv, TempsReady, TempsOwned, Writing, At, fs, Begin
<1>4. SlotsWhole' /\ DiskTrails' /\ AckedDurable'
  BY DEF IInv, SlotsWhole, DiskTrails, AckedDurable, At, fs, Begin
<1> QED
  BY <1>1, <1>2, <1>3, <1>4 DEF IInv

LEMMA RefuseKeeps ==
  ASSUME NEW c \in Caller, IInv, Refuse(c)
  PROVE  IInv'
<1>1. TypeOK'
  BY BoundAssumption DEF IInv, TypeOK, Call, Step, Result, fs, Refuse, Idle
<1>2. CallsArmed'
  BY DEF IInv, CallsArmed, Running, Writing, At, Refuse, Idle
<1>3. TempsReady' /\ TempsOwned'
  BY DEF IInv, TempsReady, TempsOwned, Writing, At, fs, Refuse, Idle
<1>4. SlotsWhole' /\ DiskTrails' /\ AckedDurable'
  BY DEF IInv, SlotsWhole, DiskTrails, AckedDurable, At, fs, Refuse, Idle
<1> QED
  BY <1>1, <1>2, <1>3, <1>4 DEF IInv

LEMMA AcquireKeeps ==
  ASSUME NEW c \in Caller, IInv, Acquire(c)
  PROVE  IInv'
<1>1. TypeOK'
  <2>1. FirstStep(call[c].op) \in Step
    BY DEF IInv, TypeOK, Call, FirstStep, Step
  <2>2. call' \in [Caller -> Call]
    BY <2>1, GotoType DEF IInv, TypeOK, Acquire
  <2> QED
    BY <2>2 DEF IInv, TypeOK, Acquire, fs
<1>2. CallsArmed'
  BY DEF IInv, TypeOK, CallsArmed, Running, Writing, At, Call, Acquire, Goto,
    FirstStep
<1>3. TempsReady' /\ TempsOwned'
  BY DEF IInv, TypeOK, TempsReady, TempsOwned, Writing, At, Call, fs, Acquire,
    Goto, FirstStep
<1>4. SlotsWhole' /\ DiskTrails' /\ AckedDurable'
  BY DEF IInv, TypeOK, SlotsWhole, DiskTrails, AckedDurable, At, Call, fs,
    Acquire, Goto, FirstStep
<1> QED
  BY <1>1, <1>2, <1>3, <1>4 DEF IInv

(* A call that returns and leaves every file alone keeps the invariant. *)
LEMMA LeaveKeeps ==
  ASSUME NEW c \in Caller, NEW r \in Result, NEW d \in Payload \union {Absent},
         IInv, Return(c, r, d), seq' \in [Instance -> 0 .. MaxSeq],
         legacy' \in SUBSET Slot,
         UNCHANGED <<pid, dir, disk, temp, acked, calls, crashes>>
  PROVE  IInv'
<1>1. TypeOK'
  <2>1. /\ call' \in [Caller -> Call]
        /\ lock' \in [Instance -> Caller \union {Free}]
    BY ReturnType DEF IInv, TypeOK
  <2> QED
    BY <2>1 DEF IInv, TypeOK
<1>2. /\ call'[c].step = "idle"
      /\ \A b \in Caller \ {c} : call'[b] = call[b]
  BY DEF IInv, TypeOK, Return, Idle
<1>3. CallsArmed'
  BY <1>2 DEF IInv, CallsArmed, Running, Writing, At
<1>4. TempsReady' /\ TempsOwned'
  BY <1>2 DEF IInv, TempsReady, TempsOwned, Writing, At
<1>5. SlotsWhole' /\ DiskTrails' /\ AckedDurable'
  BY <1>2 DEF IInv, SlotsWhole, DiskTrails, AckedDurable, At
<1> QED
  BY <1>1, <1>3, <1>4, <1>5 DEF IInv

LEMMA IoErrorKeeps ==
  ASSUME NEW c \in Caller, IInv, IoError(c)
  PROVE  IInv'
BY LeaveKeeps DEF IoError, Fail, fs, Result, IInv, TypeOK

LEMMA ClaimErrorKeeps ==
  ASSUME NEW c \in Caller, IInv, ClaimError(c)
  PROVE  IInv'
<1>1. seq' \in [Instance -> 0 .. MaxSeq]
  BY CallerAssumption, BoundAssumption DEF ClaimError, Draw, IInv, TypeOK
<1> QED
  BY <1>1, LeaveKeeps DEF ClaimError, Fail, fs, Result, IInv, TypeOK

LEMMA GiveUpKeeps ==
  ASSUME NEW c \in Caller, IInv, GiveUp(c)
  PROVE  IInv'
BY LeaveKeeps DEF GiveUp, Fail, fs, Result, IInv, TypeOK

LEMMA MissingKeeps ==
  ASSUME NEW c \in Caller, IInv, Missing(c)
  PROVE  IInv'
BY LeaveKeeps DEF Missing, fs, Result, IInv, TypeOK

LEMMA ReadKeeps ==
  ASSUME NEW c \in Caller, IInv, Read(c)
  PROVE  IInv'
<1>1. dir[call[c].slot].data \in Payload \union {Absent}
  BY DEF IInv, TypeOK, CallsArmed, At, Entry, Read
<1> QED
  BY <1>1, LeaveKeeps DEF Read, fs, Result, IInv, TypeOK

LEMMA SweepKeeps ==
  ASSUME NEW c \in Caller, IInv, Sweep(c)
  PROVE  IInv'
BY LeaveKeeps DEF Sweep, Result, IInv, TypeOK

LEMMA ClaimKeeps ==
  ASSUME NEW c \in Caller, IInv, Claim(c)
  PROVE  IInv'
<1> DEFINE t == DrawnName(c)
<1>0. t \in TempName /\ call[c].slot \in Slot /\ call[c].data \in Payload
  BY CallerAssumption DEF IInv, TypeOK, CallsArmed, Running, At, Claim, Draw,
    DrawnName, TempName
<1>1. TypeOK'
  <2>1. call' \in [Caller -> Call]
    BY BoundAssumption DEF IInv, TypeOK, Call, Step, Claim, Draw, t
  <2>2. temp' \in [TempName -> TempFile \union {NoFile}]
    BY <1>0 DEF IInv, TypeOK, TempFile, Bytes, Claim
  <2> QED
    BY <2>1, <2>2, CallerAssumption, BoundAssumption DEF IInv, TypeOK, Claim,
      Draw
<1>2. CallsArmed'
  BY <1>0, CallerAssumption DEF IInv, TypeOK, CallsArmed, Running, Writing,
    At, Call, Step, Claim, Draw
<1>3. TempsReady' /\ TempsOwned'
  <2>1. CASE temp[t] # NoFile
    BY <2>1, <1>0 DEF IInv, TypeOK, CallsArmed, TempsReady, TempsOwned,
      Writing, At, Call, Claim, Draw
  <2>2. CASE temp[t] = NoFile
    <3>1. /\ call'[c].step = "write" /\ call'[c].tmp = t
          /\ call'[c].data = call[c].data
          /\ \A b \in Caller \ {c} : call'[b] = call[b]
      BY <2>2 DEF IInv, TypeOK, Call, Claim
    <3>2. /\ temp'[t].data = call[c].data /\ temp'[t] # NoFile
          /\ \A u \in TempName \ {t} : temp'[u] = temp[u]
      BY <2>2, <1>0, CallerAssumption DEF IInv, TypeOK, NoFile, Claim
    <3>3. \A b \in Caller \ {c} : Writing(b) => call[b].tmp # t
      BY <2>2 DEF IInv, TempsReady
    <3> QED
      BY <3>1, <3>2, <3>3 DEF IInv, CallsArmed, TempsReady, TempsOwned,
        Writing, At
  <2> QED
    BY <2>1, <2>2
<1>4. SlotsWhole' /\ DiskTrails' /\ AckedDurable'
  BY <1>0 DEF IInv, TypeOK, TempsReady, SlotsWhole, DiskTrails, AckedDurable,
    Writing, At, Call, Entry, NoFile, Bytes, Claim, Draw
<1> QED
  BY <1>1, <1>2, <1>3, <1>4 DEF IInv

LEMMA WriteKeeps ==
  ASSUME NEW c \in Caller, IInv, Write(c)
  PROVE  IInv'
<1>1. TypeOK'
  <2>1. call' \in [Caller -> Call]
    BY GotoType DEF IInv, TypeOK, Step, Write
  <2>2. temp' \in [TempName -> TempFile \union {NoFile}]
    BY DEF IInv, TypeOK, TempsReady, Writing, At, TempFile, Bytes, Write
  <2> QED
    BY <2>1, <2>2 DEF IInv, TypeOK, Write
<1>2. CallsArmed'
  BY CallerAssumption DEF IInv, TypeOK, CallsArmed, Running, Writing, At,
    Call, Write, Goto
<1>3. TempsReady' /\ TempsOwned'
  <2> DEFINE t == call[c].tmp
  <2>1. t \in TempName /\ temp[t] \in TempFile
    BY DEF IInv, TypeOK, CallsArmed, TempsReady, Writing, At, Write
  <2>2. /\ \A b \in Caller : call'[b].tmp = call[b].tmp /\ call'[b].data = call[b].data
        /\ \A b \in Caller \ {c} : call'[b] = call[b]
        /\ call'[c].step \in {"sync", "discard"}
    BY DEF IInv, TypeOK, Call, Goto, Write
  <2>3. /\ temp'[t].data = temp[t].data /\ temp'[t] # NoFile
        /\ \A u \in TempName \ {t} : temp'[u] = temp[u]
    BY <2>1, CallerAssumption DEF IInv, TypeOK, TempFile, NoFile, Write
  <2> QED
    <3>1. Writing(c)
      BY DEF Writing, At, Write
    <3>2. \A b \in Caller : Writing(b)' => Writing(b)
      BY <2>2, <3>1 DEF Writing
    <3>3. \A b \in Caller \ {c} : Writing(b) => call[b].tmp \in TempName \ {t}
      BY <3>1 DEF IInv, CallsArmed, TempsOwned
    <3>4. TempsReady'
      BY <2>2, <2>3, <3>3 DEF IInv, TempsReady, At, Writing
    <3>5. TempsOwned'
      BY <2>2, <2>3, <3>2, <3>3 DEF IInv, TempsOwned
    <3> QED
      BY <3>4, <3>5
<1>4. SlotsWhole' /\ DiskTrails' /\ AckedDurable'
  BY DEF IInv, TypeOK, CallsArmed, TempsReady, SlotsWhole, DiskTrails,
    AckedDurable, Writing, At, Call, Entry, TempFile, NoFile, Write, Goto
<1> QED
  BY <1>1, <1>2, <1>3, <1>4 DEF IInv

LEMMA SyncAllKeeps ==
  ASSUME NEW c \in Caller, IInv, SyncAll(c)
  PROVE  IInv'
<1>1. TypeOK'
  <2>1. call' \in [Caller -> Call]
    BY GotoType DEF IInv, TypeOK, Step, SyncAll
  <2>2. temp' \in [TempName -> TempFile \union {NoFile}]
    BY DEF IInv, TypeOK, TempsReady, Writing, At, TempFile, Bytes, SyncAll
  <2> QED
    BY <2>1, <2>2 DEF IInv, TypeOK, SyncAll
<1>2. CallsArmed'
  BY CallerAssumption DEF IInv, TypeOK, CallsArmed, Running, Writing, At,
    Call, SyncAll, Goto
<1>3. TempsReady' /\ TempsOwned'
  <2> DEFINE t == call[c].tmp
  <2>1. t \in TempName /\ temp[t] \in TempFile
    BY DEF IInv, TypeOK, CallsArmed, TempsReady, Writing, At, SyncAll
  <2>2. /\ \A b \in Caller : call'[b].tmp = call[b].tmp /\ call'[b].data = call[b].data
        /\ \A b \in Caller \ {c} : call'[b] = call[b]
        /\ call'[c].step \in {"rename", "discard"}
    BY DEF IInv, TypeOK, Call, Goto, SyncAll
  <2>3. /\ temp'[t].data = temp[t].data /\ temp'[t] # NoFile
        /\ At(c, "rename")' => temp'[t].bytes = "synced"
        /\ \A u \in TempName \ {t} : temp'[u] = temp[u]
    <3>1. CASE temp' = [temp EXCEPT ![t].bytes = "synced"]
      BY <2>1, <3>1, CallerAssumption DEF IInv, TypeOK, TempFile, NoFile
    <3>2. CASE temp' = temp /\ Goto(c, "discard")
      BY <2>1, <3>2, CallerAssumption DEF IInv, TypeOK, TempFile, NoFile, At, Goto, Call
    <3> QED
      BY <3>1, <3>2 DEF SyncAll
  <2> QED
    <3>1. Writing(c)
      BY DEF Writing, At, SyncAll
    <3>2. \A b \in Caller : Writing(b)' => Writing(b)
      BY <2>2, <3>1 DEF Writing
    <3>3. \A b \in Caller \ {c} : Writing(b) => call[b].tmp \in TempName \ {t}
      BY <3>1 DEF IInv, CallsArmed, TempsOwned
    <3>4. TempsReady'
      BY <2>2, <2>3, <3>3 DEF IInv, TempsReady, At, Writing
    <3>5. TempsOwned'
      BY <2>2, <2>3, <3>2, <3>3 DEF IInv, TempsOwned
    <3> QED
      BY <3>4, <3>5
<1>4. SlotsWhole' /\ DiskTrails' /\ AckedDurable'
  BY DEF IInv, TypeOK, CallsArmed, TempsReady, SlotsWhole, DiskTrails,
    AckedDurable, Writing, At, Call, Entry, TempFile, NoFile, SyncAll, Goto
<1> QED
  BY <1>1, <1>2, <1>3, <1>4 DEF IInv

LEMMA RenameKeeps ==
  ASSUME NEW c \in Caller, IInv, Rename(c)
  PROVE  IInv'
<1> DEFINE s == call[c].slot
           t == call[c].tmp
<1>0. s \in Slot /\ t \in TempName /\ temp[t] \in TempFile /\ temp[t].bytes = "synced"
  BY DEF IInv, TypeOK, CallsArmed, TempsReady, Writing, At, Rename
<1>1. TypeOK'
  <2>1. call' \in [Caller -> Call]
    <3>1. dir[s].change + 1 \in Nat
      BY <1>0 DEF IInv, TypeOK, Entry
    <3> QED
      BY DEF IInv, TypeOK, Call, Step, Goto, Rename
  <2>2. dir' \in [Slot -> Entry]
    BY <1>0 DEF IInv, TypeOK, TempFile, Entry, Show, Rename
  <2>3. temp' \in [TempName -> TempFile \union {NoFile}]
    BY DEF IInv, TypeOK, Rename
  <2> QED
    BY <2>1, <2>2 DEF IInv, TypeOK, Rename
<1>2. CallsArmed'
  BY CallerAssumption DEF IInv, TypeOK, CallsArmed, Running, Writing, At,
    Call, Step, Rename, Goto, Show
<1>3. TempsReady' /\ TempsOwned'
  <2>1. \A b \in Caller \ {c} : call'[b] = call[b]
    BY DEF IInv, TypeOK, Goto, Rename
  <2>2. CASE call' = [call EXCEPT ![c].step = "discard"] /\ temp' = temp
    BY <2>2 DEF IInv, TempsReady, TempsOwned, Writing, At, Rename
  <2>3. CASE call'[c].step = "syncDir" /\ temp' = [temp EXCEPT ![t] = NoFile]
    <3>1. \A b \in Caller \ {c} : Writing(b) => call[b].tmp # t
      BY DEF IInv, TempsOwned, Writing, At, Rename
    <3> QED
      BY <2>1, <2>3, <3>1 DEF IInv, TempsReady, TempsOwned, Writing, At
  <2> QED
    BY <2>2, <2>3 DEF IInv, TypeOK, Call, Goto, Rename
<1>4. SlotsWhole' /\ DiskTrails' /\ AckedDurable'
  <2>1. /\ dir[s].change \in Nat /\ disk[s].change \in Nat
        /\ \A r \in Slot : dir[r].change \in Nat /\ disk[r].change \in Nat
        /\ \A b \in Caller : call[b].change \in Nat
    BY <1>0 DEF IInv, TypeOK, Entry, Call
  <2>2. \A b \in Caller \ {c} : call'[b] = call[b]
    BY DEF IInv, TypeOK, Goto, Rename
  <2>3. CASE call'[c].step = "discard" /\ dir' = dir
    BY <2>2, <2>3 DEF IInv, SlotsWhole, DiskTrails, AckedDurable, At, Rename
  <2>4. CASE /\ dir' = [dir EXCEPT ![s] = [data |-> temp[t].data,
                        bytes |-> temp[t].bytes, change |-> dir[s].change + 1]]
             /\ call'[c].change = dir[s].change + 1 /\ call'[c].slot = s
    <3>1. /\ dir'[s].change = dir[s].change + 1 /\ dir'[s].bytes = "synced"
          /\ \A r \in Slot \ {s} : dir'[r] = dir[r]
      BY <1>0, <2>4 DEF IInv, TypeOK
    <3>2. \A b \in Caller \ {c} : At(b, "syncDir") => call[b].slot \in Slot
      BY DEF IInv, CallsArmed, At
    <3> QED
      BY <1>0, <2>1, <2>2, <2>4, <3>1, <3>2 DEF IInv, SlotsWhole, DiskTrails,
        AckedDurable, At, Rename
  <2> QED
    BY <2>3, <2>4 DEF IInv, TypeOK, Call, Goto, Show, Rename
<1> QED
  BY <1>1, <1>2, <1>3, <1>4 DEF IInv

LEMMA SyncDirKeeps ==
  ASSUME NEW c \in Caller, IInv, SyncDir(c)
  PROVE  IInv'
<1>1. TypeOK'
  <2>1. /\ call' \in [Caller -> Call]
        /\ lock' \in [Instance -> Caller \union {Free}]
    BY ReturnType DEF IInv, TypeOK, Result, SyncDir
  <2> QED
    BY <2>1 DEF IInv, TypeOK, SyncDir, Call
<1>2. CallsArmed'
  BY DEF IInv, CallsArmed, Running, Writing, At, SyncDir, Return, Idle
<1>3. TempsReady' /\ TempsOwned'
  BY DEF IInv, TempsReady, TempsOwned, Writing, At, SyncDir, Return, Idle
<1>4. SlotsWhole' /\ DiskTrails' /\ AckedDurable'
  BY DEF IInv, TypeOK, SlotsWhole, DiskTrails, AckedDurable, At, Entry,
    SyncDir, Return, Idle
<1> QED
  BY <1>1, <1>2, <1>3, <1>4 DEF IInv

LEMMA DiscardKeeps ==
  ASSUME NEW c \in Caller, IInv, Discard(c)
  PROVE  IInv'
<1>1. TypeOK'
  <2>1. /\ call' \in [Caller -> Call]
        /\ lock' \in [Instance -> Caller \union {Free}]
    BY ReturnType DEF IInv, TypeOK, Result, Fail, Discard
  <2> QED
    BY <2>1 DEF IInv, TypeOK, Discard
<1>2. CallsArmed'
  BY DEF IInv, CallsArmed, Running, Writing, At, Discard, Fail, Return, Idle
<1>3. TempsReady' /\ TempsOwned'
  BY DEF IInv, TypeOK, CallsArmed, TempsReady, TempsOwned, Writing, At,
    Discard, Fail, Return, Idle
<1>4. SlotsWhole' /\ DiskTrails' /\ AckedDurable'
  BY DEF IInv, SlotsWhole, DiskTrails, AckedDurable, At, Discard, Fail,
    Return, Idle
<1> QED
  BY <1>1, <1>2, <1>3, <1>4 DEF IInv

LEMMA StatKeeps ==
  ASSUME NEW c \in Caller, IInv, Stat(c)
  PROVE  IInv'
<1>1. TypeOK'
  <2>1. call' \in [Caller -> Call]
    BY GotoType DEF IInv, TypeOK, Step, Stat
  <2> QED
    BY <2>1 DEF IInv, TypeOK, fs, Stat
<1>2. CallsArmed'
  BY DEF IInv, CallsArmed, Running, Writing, At, Stat, Goto
<1>3. TempsReady' /\ TempsOwned'
  BY DEF IInv, TempsReady, TempsOwned, Writing, At, fs, Stat, Goto
<1>4. SlotsWhole' /\ DiskTrails' /\ AckedDurable'
  BY DEF IInv, SlotsWhole, DiskTrails, AckedDurable, At, fs, Stat, Goto
<1> QED
  BY <1>1, <1>2, <1>3, <1>4 DEF IInv

LEMMA RemoveKeeps ==
  ASSUME NEW c \in Caller, IInv, Remove(c)
  PROVE  IInv'
<1>1. TypeOK'
  <2>1. call' \in [Caller -> Call]
    BY GotoType DEF IInv, TypeOK, Step, Remove
  <2>2. dir' \in [Slot -> Entry]
    BY DEF IInv, TypeOK, CallsArmed, At, Entry, Bytes, Show, Remove
  <2> QED
    BY <2>1, <2>2 DEF IInv, TypeOK, Remove
<1>2. CallsArmed'
  BY DEF IInv, CallsArmed, Running, Writing, At, Remove, Goto
<1>3. TempsReady' /\ TempsOwned'
  BY DEF IInv, TempsReady, TempsOwned, Writing, At, Remove, Goto
<1>4. SlotsWhole' /\ DiskTrails' /\ AckedDurable'
  BY DEF IInv, TypeOK, SlotsWhole, DiskTrails, AckedDurable, At, Call, Entry,
    Remove, Goto, Show
<1> QED
  BY <1>1, <1>2, <1>3, <1>4 DEF IInv

-----------------------------------------------------------------------------
(* Every action keeps the invariant, and so does a stuttering step. *)
LEMMA NextIInv == IInv /\ [Next]_vars => IInv'
<1> SUFFICES ASSUME IInv, [Next]_vars PROVE IInv'
    OBVIOUS
<1>1. CASE \E i \in Instance : Open(i) \/ CrashProcess(i)
  BY <1>1, OpenKeeps, CrashProcessKeeps
<1>2. CASE PowerLoss
  BY <1>2, PowerLossKeeps
<1>3. CASE \E s \in Slot : WriteBack(s)
  BY <1>3, WriteBackKeeps
<1>4. CASE \E c \in Caller : Request(c)
  BY <1>4, BeginKeeps, RefuseKeeps DEF Request
<1>5. CASE \E c \in Caller : Work(c)
  BY <1>5, AcquireKeeps, IoErrorKeeps, ClaimKeeps, ClaimErrorKeeps,
    GiveUpKeeps, WriteKeeps, SyncAllKeeps, RenameKeeps, SyncDirKeeps,
    DiscardKeeps, MissingKeeps, StatKeeps, ReadKeeps, RemoveKeeps, SweepKeeps
    DEF Work
<1>6. CASE UNCHANGED vars
  BY <1>6 DEF vars, IInv, TypeOK, CallsArmed, TempsReady, TempsOwned,
    SlotsWhole, DiskTrails, AckedDurable, Writing, Running, At
<1> QED
  BY <1>1, <1>2, <1>3, <1>4, <1>5, <1>6 DEF Next

(* IInv holds in every reachable state. *)
LEMMA Invariance == Spec => []IInv
BY InitIInv, NextIInv, PTL DEF Spec

(* The variables of save_store.rs and of its directory keep their types. *)
THEOREM TypeCorrect == Spec => []TypeOK
BY Invariance, PTL DEF IInv

(* No interleaving, failure, crash or power loss leaves a torn save under a *)
(* slot name: write_atomic renames a temp only once its bytes are synced,   *)
(* and no other write can have touched that temp.                           *)
THEOREM SlotsStayWhole == Spec => []SlotsWhole
BY Invariance, PTL DEF IInv

(* An Ok from save stands until the slot changes again, power losses and    *)
(* the writes of other instances included: sync_dir comes before the Ok.    *)
THEOREM AcknowledgedSavesSurvive == Spec => []AckedDurable
BY Invariance, PTL DEF IInv

(* Two writes in flight never share a temp, even when pids are reused. *)
THEOREM TempsNeverShared == Spec => []TempsOwned
BY Invariance, PTL DEF IInv

-----------------------------------------------------------------------------
(* A step that changes a temp file belongs to the write that made it, or   *)
(* is a power loss.                                                        *)
LEMMA NextTouchesOwn == IInv /\ [Next]_vars => TouchesOwnTemps
<1> SUFFICES ASSUME IInv, [Next]_vars,
                    NEW t \in TempName, temp[t] # NoFile, temp'[t] # temp[t]
             PROVE  \/ \E c \in Caller : Writing(c) /\ call[c].tmp = t
                    \/ \A i \in Instance : pid'[i] = NotRunning
  BY DEF TouchesOwnTemps
<1>1. CASE PowerLoss
  BY <1>1 DEF PowerLoss
<1>2. ASSUME NEW c \in Caller, Claim(c)
      PROVE  FALSE
  BY <1>2 DEF IInv, TypeOK, Claim
<1>3. ASSUME NEW c \in Caller, Write(c) \/ SyncAll(c) \/ Rename(c) \/ Discard(c)
      PROVE  Writing(c) /\ call[c].tmp = t
  BY <1>3 DEF IInv, TypeOK, Write, SyncAll, Rename, Discard, Writing, At
<1>4. ASSUME NEW c \in Caller, Request(c)
      PROVE  temp' = temp
  BY <1>4 DEF Request, Begin, Refuse, fs
<1>5. ASSUME NEW c \in Caller, Work(c),
             ~(Claim(c) \/ Write(c) \/ SyncAll(c) \/ Rename(c) \/ Discard(c))
      PROVE  temp' = temp
  BY <1>5 DEF Work, Acquire, IoError, ClaimError, GiveUp, SyncDir, Missing, Stat, Read,
     Remove, Sweep, fs
<1>6. CASE \/ \E i \in Instance : Open(i) \/ CrashProcess(i)
           \/ \E s \in Slot : WriteBack(s)
           \/ UNCHANGED vars
  BY <1>6 DEF Open, CrashProcess, WriteBack, vars, fs
<1> QED
  BY <1>1, <1>2, <1>3, <1>4, <1>5, <1>6 DEF Next

(* "foreign temps are left alone": opening the store, discarding a failed   *)
(* temp and sweeping a deleted slot never touch a file that another write   *)
(* has made and will rename.                                                *)
THEOREM ForeignTempsStay == Spec => ForeignTempsKept
<1>1. IInv /\ [Next]_vars => [TouchesOwnTemps]_vars
  BY NextTouchesOwn
<1> QED
  BY <1>1, Invariance, PTL DEF Spec, ForeignTempsKept

-----------------------------------------------------------------------------
(* Calls come to an end: what of it is safety.  The mutex is never left     *)
(* behind, the bound on temp names is never met, and each step of a call    *)
(* brings it nearer to its return.                                          *)

LEMMA MutexReturn ==
  ASSUME TypeOK, MutexHeld, NEW c \in Caller, Inside(c), NEW r, NEW d, Return(c, r, d)
  PROVE  MutexHeld'
<1>1. lock[InstanceOf[c]] = c /\ InstanceOf[c] \in Instance
  BY CallerAssumption DEF MutexHeld
<1>2. /\ \A b \in Caller : call'[b] = IF b = c THEN [Idle EXCEPT !.result = r, !.data = d]
                                      ELSE call[b]
      /\ \A i \in Instance : lock'[i] = IF i = InstanceOf[c] THEN Free ELSE lock[i]
  BY <1>1 DEF Return, TypeOK
<1>3. \A b \in Caller : Inside(b)' <=> b # c /\ Inside(b)
  BY <1>2 DEF Inside, Idle
<1>4. ASSUME NEW b \in Caller, Inside(b)'
      PROVE  lock'[InstanceOf[b]] = b
  BY <1>1, <1>2, <1>3, <1>4, CallerAssumption DEF MutexHeld
<1>5. ASSUME NEW i \in Instance, lock'[i] # Free
      PROVE  InstanceOf[lock'[i]] = i /\ Inside(lock[i])' /\ lock'[i] = lock[i]
  <2>1. i # InstanceOf[c] /\ lock'[i] = lock[i] /\ lock[i] \in Caller
    BY <1>2, <1>5 DEF TypeOK
  <2>2. InstanceOf[lock[i]] = i /\ Inside(lock[i])
    BY <1>5, <2>1 DEF MutexHeld
  <2> QED BY <1>3, <2>1, <2>2
<1> QED BY <1>4, <1>5 DEF MutexHeld, Inside

\* A thread that goes on inside, with whatever else of its call changed.
LEMMA MutexStay ==
  ASSUME TypeOK, MutexHeld, NEW c \in Caller, Inside(c), lock' = lock, NEW x,
         call' = [call EXCEPT ![c] = x], x.step \notin {"idle", "lock"}
  PROVE  MutexHeld'
<1>1. \A b \in Caller : Inside(b)' <=> Inside(b)
  BY DEF Inside, TypeOK
<1> QED BY <1>1 DEF MutexHeld, Inside, TypeOK

LEMMA FirstSteps ==
  ASSUME NEW op \in {"save", "load", "delete"}
  PROVE  FirstStep(op) \in {"claim", "stat", "remove"}
<1>1. CASE op = "save"
  BY <1>1 DEF FirstStep
<1>2. CASE op = "load"
  BY <1>2 DEF FirstStep
<1>3. CASE op = "delete"
  BY <1>3 DEF FirstStep
<1> QED BY <1>1, <1>2, <1>3

LEMMA MutexAcquire ==
  ASSUME TypeOK, MutexHeld, NEW c \in Caller, Acquire(c)
  PROVE  MutexHeld'
<1>1. /\ lock[InstanceOf[c]] = Free /\ InstanceOf[c] \in Instance /\ ~Inside(c)
      /\ call[c].op \in {"save", "load", "delete"}
  BY CallerAssumption DEF Acquire, At, Inside, TypeOK, Call
<1>2. /\ \A b \in Caller \ {c} : call'[b] = call[b]
      /\ call'[c].step = FirstStep(call[c].op)
      /\ \A i \in Instance : lock'[i] = IF i = InstanceOf[c] THEN c ELSE lock[i]
  <2>1. /\ lock' = [lock EXCEPT ![InstanceOf[c]] = c]
        /\ call' = [call EXCEPT ![c].step = FirstStep(call[c].op)]
    BY DEF Acquire, Goto
  <2>2. lock \in [Instance -> Caller \union {Free}] /\ call \in [Caller -> Call]
    BY DEF TypeOK
  <2> QED BY <1>1, <2>1, <2>2 DEF Call
<1>6. FirstStep(call[c].op) \notin {"idle", "lock"}
  BY <1>1, FirstSteps
<1>3. Inside(c)' /\ \A b \in Caller \ {c} : Inside(b)' <=> Inside(b)
  BY <1>1, <1>2, <1>6 DEF Inside
<1>4. ASSUME NEW b \in Caller, Inside(b)'
      PROVE  lock'[InstanceOf[b]] = b
  BY <1>1, <1>2, <1>3, <1>4, CallerAssumption DEF MutexHeld
<1>5. ASSUME NEW i \in Instance, lock'[i] # Free
      PROVE  InstanceOf[lock'[i]] = i /\ Inside(lock[i])'
  <2>1. CASE i = InstanceOf[c]
    BY <1>2, <1>3, <2>1 DEF Inside
  <2>2. CASE i # InstanceOf[c]
    <3>1. lock'[i] = lock[i] /\ lock[i] \in Caller
      BY <1>2, <1>5, <2>2 DEF TypeOK
    <3>2. InstanceOf[lock[i]] = i /\ Inside(lock[i])
      BY <1>5, <3>1 DEF MutexHeld
    <3> QED BY <1>3, <2>2, <3>1, <3>2 DEF Inside
  <2> QED BY <2>1, <2>2
<1> QED BY <1>4, <1>5 DEF MutexHeld, Inside

\* Every step of a call enters, leaves or goes on.
LEMMA WorkForms ==
  ASSUME TypeOK, NEW c \in Caller, Work(c)
  PROVE  \/ Acquire(c)
         \/ Inside(c) /\ \E r, d : Return(c, r, d)
         \/ /\ Inside(c) /\ lock' = lock
            /\ \E x : call' = [call EXCEPT ![c] = x] /\ x.step \notin {"idle", "lock"}
<1> DEFINE Leaves == Inside(c) /\ \E r, d : Return(c, r, d)
           Stays == /\ Inside(c) /\ lock' = lock
                    /\ \E x : call' = [call EXCEPT ![c] = x] /\ x.step \notin {"idle", "lock"}
<1>0. call \in [Caller -> Call]
  BY DEF TypeOK
<1>1. IoError(c) \/ ClaimError(c) \/ GiveUp(c) \/ Discard(c) => Leaves
  BY DEF IoError, ClaimError, Draw, GiveUp, Discard, Fail, Inside, At
<1>2. SyncDir(c) \/ Missing(c) \/ Sweep(c) => Leaves
  BY DEF SyncDir, Missing, Sweep, Inside, At
<1>3. Read(c) => Leaves
  BY DEF Read, Inside, At
<1>4. ASSUME NEW st \in {"sync", "rename", "discard", "read", "sweep"}, Goto(c, st)
      PROVE  \E x : call' = [call EXCEPT ![c] = x] /\ x.step \notin {"idle", "lock"}
  <2>1. call' = [call EXCEPT ![c] = [call[c] EXCEPT !.step = st]]
    BY <1>0, <1>4 DEF Goto
  <2>2. [call[c] EXCEPT !.step = st].step = st
    BY <1>0 DEF Call
  <2> QED BY <2>1, <2>2
<1>5. Write(c) \/ SyncAll(c) \/ Stat(c) \/ Remove(c) => Stays
  BY <1>4 DEF Write, SyncAll, Stat, Remove, Inside, At
<1>6. ASSUME Claim(c) PROVE Stays
  <2>1. At(c, "claim") /\ lock' = lock
    BY <1>6 DEF Claim, Draw
  <2>2. CASE call' = [call EXCEPT ![c].step = "write", ![c].tmp = DrawnName(c)]
    <3>1. call' = [call EXCEPT ![c] = [call[c] EXCEPT !.step = "write", !.tmp = DrawnName(c)]]
      BY <1>0, <2>2
    <3>2. [call[c] EXCEPT !.step = "write", !.tmp = DrawnName(c)].step = "write"
      BY <1>0 DEF Call
    <3> QED BY <2>1, <3>1, <3>2 DEF Inside, At
  <2>3. CASE call' = [call EXCEPT ![c].tries = call[c].tries + 1]
    <3>1. call' = [call EXCEPT ![c] = [call[c] EXCEPT !.tries = call[c].tries + 1]]
      BY <1>0, <2>3
    <3>2. [call[c] EXCEPT !.tries = call[c].tries + 1].step = "claim"
      BY <1>0, <2>1 DEF Call, At
    <3> QED BY <2>1, <3>1, <3>2 DEF Inside, At
  <2> QED BY <1>6, <2>2, <2>3 DEF Claim
<1>7. ASSUME Rename(c) PROVE Stays
  <2>1. At(c, "rename") /\ lock' = lock
    BY <1>7 DEF Rename
  <2>2. CASE Goto(c, "discard")
    BY <1>4, <2>1, <2>2 DEF Inside, At
  <2>3. CASE call' = [call EXCEPT ![c].step = "syncDir", ![c].change = dir[call[c].slot].change + 1]
    <3>1. call' = [call EXCEPT ![c] = [call[c] EXCEPT !.step = "syncDir",
                                         !.change = dir[call[c].slot].change + 1]]
      BY <1>0, <2>3
    <3>2. [call[c] EXCEPT !.step = "syncDir", !.change = dir[call[c].slot].change + 1].step
            = "syncDir"
      BY <1>0 DEF Call
    <3> QED BY <2>1, <3>1, <3>2 DEF Inside, At
  <2> QED BY <1>7, <2>2, <2>3 DEF Rename
<1> HIDE DEF Leaves, Stays
<1>8. Acquire(c) \/ Leaves \/ Stays
  BY <1>1, <1>2, <1>3, <1>5, <1>6, <1>7 DEF Work
<1> QED BY <1>8 DEF Leaves, Stays

LEMMA MutexNext == IInv /\ MutexHeld /\ [Next]_vars => MutexHeld'
<1> SUFFICES ASSUME IInv, MutexHeld, [Next]_vars
             PROVE  MutexHeld'
  OBVIOUS
<1>0. TypeOK
  BY DEF IInv
<1>1. CASE UNCHANGED vars \/ \E i \in Instance : Open(i)
  BY <1>1 DEF MutexHeld, Inside, vars, Open
<1>2. CASE \E s \in Slot : WriteBack(s)
  BY <1>2 DEF MutexHeld, Inside, WriteBack
<1>3. ASSUME NEW i \in Instance, CrashProcess(i)
      PROVE  MutexHeld'
  <2>1. /\ \A c \in Caller : call'[c] = IF InstanceOf[c] = i THEN Idle ELSE call[c]
        /\ \A j \in Instance : lock'[j] = IF j = i THEN Free ELSE lock[j]
    BY <1>0, <1>3 DEF CrashProcess, Killed, TypeOK
  <2>2. \A c \in Caller : Inside(c)' <=> InstanceOf[c] # i /\ Inside(c)
    BY <2>1 DEF Inside, Idle
  <2>3. \A j \in Instance : lock'[j] # Free =>
          j # i /\ lock'[j] = lock[j] /\ lock[j] \in Caller
    BY <1>0, <2>1 DEF TypeOK
  <2> QED BY <2>1, <2>2, <2>3, CallerAssumption DEF MutexHeld, Inside
<1>4. CASE PowerLoss
  BY <1>4 DEF MutexHeld, Inside, PowerLoss, Killed, Idle
<1>5. ASSUME NEW c \in Caller, Request(c)
      PROVE  MutexHeld'
  <2>1. /\ lock' = lock /\ ~Inside(c) /\ ~Inside(c)'
        /\ \A b \in Caller \ {c} : call'[b] = call[b]
    BY <1>0, <1>5 DEF Request, Begin, Refuse, Inside, At, Idle, TypeOK
  <2>2. \A b \in Caller : Inside(b)' <=> Inside(b)
    BY <2>1 DEF Inside
  <2> QED BY <1>0, <2>1, <2>2 DEF MutexHeld, Inside, TypeOK
<1>6. ASSUME NEW c \in Caller, Work(c)
      PROVE  MutexHeld'
  BY <1>0, <1>6, WorkForms, MutexAcquire, MutexReturn, MutexStay
<1> QED BY <1>1, <1>2, <1>3, <1>4, <1>5, <1>6 DEF Next

LEMMA MutexInvariance == Spec => []MutexHeld
<1>1. Init => MutexHeld
  BY DEF Init, MutexHeld, Inside, Idle
<1> QED BY <1>1, MutexNext, Invariance, PTL DEF Spec

-----------------------------------------------------------------------------
\* Temp names: whoever waits for the mutex may yet draw ATTEMPTS of them, and the
\* thread that claims what is left of its own.

Queued(i) == {c \in Caller : InstanceOf[c] = i /\ At(c, "lock")}
Left(i) ==
  IF lock[i] # Free /\ At(lock[i], "claim") THEN ATTEMPTS - call[lock[i]].tries ELSE 0

DrawsBound ==
  \A i \in Instance :
    /\ IsFiniteSet(Queued(i))
    /\ seq[i] + Left(i) + ATTEMPTS * Cardinality(Queued(i)) <= ATTEMPTS * calls

LEMMA Products ==
  ASSUME NEW n \in Nat, NEW m \in Nat
  PROVE  /\ ATTEMPTS \in Nat /\ ATTEMPTS > 0
         /\ ATTEMPTS * n \in Nat /\ ATTEMPTS * (n + 1) = ATTEMPTS * n + ATTEMPTS
         /\ m <= n => ATTEMPTS * m <= ATTEMPTS * n
<1>1. ATTEMPTS \in Nat /\ ATTEMPTS > 0
  BY BoundAssumption
<1>2. ATTEMPTS * n \in Nat /\ ATTEMPTS * (n + 1) = ATTEMPTS * n + ATTEMPTS
  BY <1>1
<1>3. ASSUME m <= n
      PROVE  ATTEMPTS * m <= ATTEMPTS * n
  BY <1>1, <1>3
<1> QED BY <1>1, <1>2, <1>3

\* What an instance has left to draw, whatever happens elsewhere.
LEMMA LeftType ==
  ASSUME TypeOK, MutexHeld, NEW i \in Instance
  PROVE  Left(i) \in 0 .. ATTEMPTS /\ seq[i] \in Nat /\ seq[i] <= MaxSeq /\ calls \in Nat
<1>1. \A c \in Caller : call[c].tries \in 0 .. ATTEMPTS
  BY DEF TypeOK, Call
<1>2. lock[i] # Free => lock[i] \in Caller
  BY DEF TypeOK
<1> QED BY <1>1, <1>2, BoundAssumption DEF Left, TypeOK

\* An instance keeps its bound when it has no more to draw and no more wait.
LEMMA BoundKept ==
  ASSUME TypeOK, TypeOK', MutexHeld, MutexHeld', DrawsBound, NEW i \in Instance,
         seq'[i] + Left(i)' <= seq[i] + Left(i),
         Queued(i)' \subseteq Queued(i), calls' >= calls
  PROVE  /\ IsFiniteSet(Queued(i)')
         /\ seq'[i] + Left(i)' + ATTEMPTS * Cardinality(Queued(i)') <= ATTEMPTS * calls'
<1> DEFINE n == Cardinality(Queued(i))
           m == Cardinality(Queued(i)')
<1>1. /\ IsFiniteSet(Queued(i)) /\ seq[i] + Left(i) + ATTEMPTS * n <= ATTEMPTS * calls
  BY DEF DrawsBound
<1>2. /\ IsFiniteSet(Queued(i)') /\ m <= n /\ m \in Nat /\ n \in Nat
  BY <1>1, FS_Subset, FS_CardinalityType
<1>3. /\ Left(i) \in Int /\ seq[i] \in Int /\ calls \in Nat
      /\ Left(i)' \in Int /\ seq'[i] \in Int /\ calls' \in Nat
  <2>1. /\ Left(i) \in 0 .. ATTEMPTS /\ seq[i] \in Nat /\ calls \in Nat
    BY LeftType
  <2>2. Left(i)' \in Int /\ seq'[i] \in Int /\ calls' \in Nat
    <3>1. \A c \in Caller : call'[c].tries \in 0 .. ATTEMPTS
      BY DEF TypeOK, Call
    <3>2. lock'[i] # Free => lock'[i] \in Caller
      BY DEF TypeOK
    <3> QED BY <3>1, <3>2, BoundAssumption DEF Left, TypeOK
  <2> QED BY <2>1, <2>2, BoundAssumption
<1>4. ATTEMPTS * m <= ATTEMPTS * n /\ ATTEMPTS * calls <= ATTEMPTS * calls'
      /\ ATTEMPTS * m \in Nat /\ ATTEMPTS * n \in Nat /\ ATTEMPTS * calls \in Nat
      /\ ATTEMPTS * calls' \in Nat
  BY <1>2, <1>3, Products
<1> HIDE DEF n, m
<1>5. seq'[i] + Left(i)' + ATTEMPTS * m <= ATTEMPTS * calls'
  <2> DEFINE p == ATTEMPTS * m
             q == ATTEMPTS * n
             u == ATTEMPTS * calls
             v == ATTEMPTS * calls'
             a == Left(i)
             b == Left(i)'
             s == seq[i]
             t == seq'[i]
  <2>1. /\ p <= q /\ u <= v /\ s + a + q <= u /\ t + b <= s + a
        /\ p \in Int /\ q \in Int /\ u \in Int /\ v \in Int /\ a \in Int /\ b \in Int
        /\ s \in Int /\ t \in Int
    BY <1>1, <1>3, <1>4 DEF n
  <2> HIDE DEF p, q, u, v, a, b, s, t
  <2>2. t + b + p <= v
    BY <2>1
  <2> QED BY <2>2 DEF p, v, b, t
<1> QED BY <1>2, <1>5 DEF m

\* The instance of the thread that works, and the others.
LEMMA BoundWork ==
  ASSUME IInv, IInv', MutexHeld, MutexHeld', DrawsBound, NEW c \in Caller,
         Work(c), ~Acquire(c)
  PROVE  DrawsBound'
<1> DEFINE h == InstanceOf[c]
<1>0. TypeOK /\ TypeOK' /\ h \in Instance /\ call \in [Caller -> Call]
  BY CallerAssumption DEF IInv, TypeOK
<1>1. /\ Inside(c) /\ lock[h] = c /\ calls' = calls
      /\ \A b \in Caller \ {c} : call'[b] = call[b]
      /\ call'[c].step # "lock"
      /\ \A i \in Instance \ {h} : lock'[i] = lock[i]
      /\ lock'[h] \in {c, Free}
  <2>1. Inside(c) /\ lock[h] = c
    BY <1>0, WorkForms DEF MutexHeld
  <2>2. calls' = calls
    BY DEF Work, Acquire, IoError, Claim, ClaimError, Draw, GiveUp, Write, SyncAll, Rename,
       SyncDir, Discard, Missing, Stat, Read, Remove, Sweep
  <2>3. ASSUME NEW r, NEW d, Return(c, r, d)
        PROVE  /\ \A b \in Caller \ {c} : call'[b] = call[b]
               /\ call'[c].step # "lock"
               /\ \A i \in Instance \ {h} : lock'[i] = lock[i]
               /\ lock'[h] \in {c, Free}
    BY <1>0, <2>3 DEF Return, TypeOK, Idle
  <2>4. ASSUME lock' = lock, NEW x, call' = [call EXCEPT ![c] = x], x.step \notin {"idle", "lock"}
        PROVE  /\ \A b \in Caller \ {c} : call'[b] = call[b]
               /\ call'[c].step # "lock"
               /\ \A i \in Instance \ {h} : lock'[i] = lock[i]
               /\ lock'[h] \in {c, Free}
    BY <1>0, <2>1, <2>4
  <2> QED BY <1>0, <2>1, <2>2, <2>3, <2>4, WorkForms
<1>2. \A i \in Instance : Queued(i)' = Queued(i)
  BY <1>1 DEF Queued, At, Inside
<1>3. ASSUME NEW i \in Instance, i # h
      PROVE  seq'[i] + Left(i)' <= seq[i] + Left(i)
  <2>1. seq'[i] = seq[i]
    BY <1>0, <1>3 DEF Work, Acquire, IoError, Claim, ClaimError, Draw, GiveUp, Write, SyncAll,
       Rename, SyncDir, Discard, Missing, Stat, Read, Remove, Sweep, TypeOK
  <2>2. lock'[i] = lock[i] /\ (lock[i] # Free => lock[i] \in Caller \ {c})
    BY <1>0, <1>1, <1>3 DEF MutexHeld, TypeOK
  <2>3. Left(i)' = Left(i)
    BY <1>1, <2>2 DEF Left, At
  <2>4. Left(i) \in Int /\ seq[i] \in Int
    BY <1>0, LeftType, BoundAssumption
  <2> QED BY <2>1, <2>3, <2>4
<1>4. seq'[h] + Left(h)' <= seq[h] + Left(h)
  <2>1. seq[h] \in Nat /\ call[c].tries \in 0 .. ATTEMPTS /\ call'[c].tries \in 0 .. ATTEMPTS
        /\ ATTEMPTS \in Nat /\ c # Free
    BY <1>0, BoundAssumption, CallerAssumption DEF TypeOK, Call
  <2>2. /\ Left(h) = IF At(c, "claim") THEN ATTEMPTS - call[c].tries ELSE 0
        /\ Left(h)' = IF lock'[h] = c /\ At(c, "claim")' THEN ATTEMPTS - call'[c].tries ELSE 0
    BY <1>1, <2>1 DEF Left, At
  <2>3. CASE Claim(c)
    <3>1. /\ At(c, "claim") /\ call[c].tries < ATTEMPTS /\ seq'[h] = seq[h] + 1
      BY <1>0, <2>3 DEF Claim, Draw, TypeOK
    <3>2. \/ call'[c].step = "write"
          \/ call'[c].tries = call[c].tries + 1
      BY <1>0, <2>3 DEF Claim, Call
    <3>3. Left(h) = ATTEMPTS - call[c].tries
      BY <2>2, <3>1
    <3>4. Left(h)' = 0 \/ Left(h)' = ATTEMPTS - (call[c].tries + 1)
      BY <2>2, <3>2 DEF At
    <3> QED BY <2>1, <3>1, <3>3, <3>4
  <2>4. CASE ClaimError(c)
    <3>1. /\ At(c, "claim") /\ call[c].tries < ATTEMPTS /\ seq'[h] = seq[h] + 1
      BY <1>0, <2>4 DEF ClaimError, Draw, TypeOK
    <3>2. lock'[h] = Free
      BY <1>0, <2>4 DEF ClaimError, Fail, Return, TypeOK
    <3>3. Left(h)' = 0 /\ Left(h) = ATTEMPTS - call[c].tries
      BY <2>1, <2>2, <3>1, <3>2
    <3> QED BY <2>1, <3>1, <3>3
  <2>5. CASE ~Claim(c) /\ ~ClaimError(c)
    <3>1. seq' = seq
      BY <2>5 DEF Work, Acquire, IoError, GiveUp, Write, SyncAll, Rename, SyncDir, Discard,
         Missing, Stat, Read, Remove, Sweep
    <3>2. lock'[h] = Free \/ ~At(c, "claim")'
      <4>1. CASE IoError(c) \/ GiveUp(c) \/ SyncDir(c) \/ Discard(c) \/ Missing(c) \/ Read(c)
                 \/ Sweep(c)
        BY <1>0, <4>1 DEF IoError, GiveUp, SyncDir, Discard, Missing, Read, Sweep, Fail, Return,
           TypeOK
      <4>2. CASE Write(c) \/ SyncAll(c) \/ Rename(c) \/ Stat(c) \/ Remove(c)
        BY <1>0, <4>2 DEF Write, SyncAll, Rename, Stat, Remove, Goto, At, Call
      <4> QED BY <2>5, <4>1, <4>2 DEF Work
    <3>3. Left(h)' = 0 /\ Left(h) \in Nat
      BY <2>1, <2>2, <3>2
    <3> QED BY <2>1, <3>1, <3>3
  <2> QED BY <2>3, <2>4, <2>5
<1>5. \A i \in Instance : seq'[i] + Left(i)' <= seq[i] + Left(i)
  BY <1>3, <1>4
<1>6. calls' >= calls
  BY <1>0, <1>1 DEF TypeOK
<1> QED BY <1>0, <1>2, <1>5, <1>6, BoundKept DEF DrawsBound

LEMMA BoundAcquire ==
  ASSUME IInv, IInv', MutexHeld, MutexHeld', DrawsBound, NEW c \in Caller, Acquire(c)
  PROVE  DrawsBound'
<1> DEFINE h == InstanceOf[c]
<1>0. TypeOK /\ TypeOK' /\ h \in Instance
  BY CallerAssumption DEF IInv, TypeOK
<1>1. /\ At(c, "lock") /\ lock[h] = Free /\ seq' = seq /\ calls' = calls
      /\ lock' = [lock EXCEPT ![h] = c]
      /\ \A b \in Caller \ {c} : call'[b] = call[b]
      /\ call'[c].step = FirstStep(call[c].op)
  BY <1>0 DEF Acquire, Goto, TypeOK, Call
<1>2. call'[c].step # "lock"
  <2>1. call[c].op \in {"save", "load", "delete"}
    BY <1>0 DEF TypeOK, Call
  <2> QED BY <1>1, <2>1, FirstSteps
<1>3. \A i \in Instance : Queued(i)' = Queued(i) \ {c}
  BY <1>1, <1>2 DEF Queued, At
<1>4. ASSUME NEW i \in Instance, i # h
      PROVE  seq'[i] + Left(i)' <= seq[i] + Left(i)
  <2>1. lock'[i] = lock[i] /\ (lock[i] # Free => lock[i] \in Caller \ {c})
    BY <1>0, <1>1, <1>4 DEF MutexHeld, TypeOK
  <2>2. Left(i)' = Left(i)
    BY <1>1, <2>1 DEF Left, At
  <2>3. Left(i) \in Int /\ seq[i] \in Int
    BY <1>0, LeftType, BoundAssumption
  <2> QED BY <1>1, <2>2, <2>3
<1>5. /\ IsFiniteSet(Queued(h)')
      /\ seq'[h] + Left(h)' + ATTEMPTS * Cardinality(Queued(h)') <= ATTEMPTS * calls'
  <2> DEFINE n == Cardinality(Queued(h))
             m == Cardinality(Queued(h)')
  <2>1. /\ IsFiniteSet(Queued(h)) /\ seq[h] + Left(h) + ATTEMPTS * n <= ATTEMPTS * calls
    BY <1>0 DEF DrawsBound
  <2>2. c \in Queued(h) /\ Queued(h)' = Queued(h) \ {c}
    BY <1>0, <1>1, <1>3 DEF Queued
  <2>3. IsFiniteSet(Queued(h)') /\ m = n - 1 /\ m \in Nat /\ n \in Nat
    BY <2>1, <2>2, FS_RemoveElement, FS_CardinalityType
  <2>4. Left(h) = 0
    BY <1>1 DEF Left
  <2>5. Left(h)' \in 0 .. ATTEMPTS
    <3>1. \A b \in Caller : call'[b].tries \in 0 .. ATTEMPTS
      BY <1>0 DEF TypeOK, Call
    <3>2. lock'[h] = c
      BY <1>0, <1>1 DEF TypeOK
    <3> QED BY <3>1, <3>2, BoundAssumption DEF Left
  <2>6. /\ ATTEMPTS * n = ATTEMPTS * m + ATTEMPTS /\ ATTEMPTS * m \in Nat /\ ATTEMPTS \in Nat
        /\ ATTEMPTS * calls \in Nat
    <3>1. n = m + 1 /\ calls \in Nat
      BY <1>0, <2>3 DEF TypeOK
    <3> QED BY <2>3, <3>1, Products
  <2>7. seq[h] \in Nat
    BY <1>0, LeftType
  <2> HIDE DEF n, m
  <2>8. seq'[h] + Left(h)' + ATTEMPTS * m <= ATTEMPTS * calls'
    <3> DEFINE p == ATTEMPTS * m
               u == ATTEMPTS * calls
               l == Left(h)'
               s == seq[h]
    <3>1. s + 0 + (p + ATTEMPTS) <= u /\ l <= ATTEMPTS /\ l \in Int
          /\ p \in Int /\ u \in Int /\ s \in Int /\ ATTEMPTS \in Int
      BY <2>1, <2>4, <2>5, <2>6, <2>7 DEF n
    <3>2. seq'[h] = s /\ calls' = calls
      BY <1>1
    <3> HIDE DEF p, u, l, s
    <3>3. s + l + p <= u
      BY <3>1
    <3> QED BY <3>2, <3>3 DEF p, u, l
  <2> QED BY <2>3, <2>8 DEF m
<1>6. \A i \in Instance : Queued(i)' \subseteq Queued(i)
  BY <1>3
<1>7. calls' >= calls
  BY <1>0, <1>1 DEF TypeOK
<1> QED BY <1>0, <1>4, <1>5, <1>6, <1>7, BoundKept DEF DrawsBound

\* A call that begins brings ATTEMPTS draws with it.
LEMMA BoundRequest ==
  ASSUME IInv, IInv', MutexHeld, MutexHeld', DrawsBound, NEW c \in Caller, Request(c)
  PROVE  DrawsBound'
<1> DEFINE h == InstanceOf[c]
<1>0. TypeOK /\ TypeOK' /\ h \in Instance /\ calls \in Nat /\ calls' \in Nat
  BY CallerAssumption, BoundAssumption DEF IInv, TypeOK
<1>1. /\ At(c, "idle") /\ lock' = lock /\ seq' = seq /\ calls' = calls + 1
      /\ \A b \in Caller \ {c} : call'[b] = call[b]
      /\ call'[c].step \in {"idle", "lock"}
  BY <1>0 DEF Request, Refuse, Begin, At, Idle, TypeOK
<1>2. \A i \in Instance : lock[i] # Free => lock[i] \in Caller \ {c}
  BY <1>0, <1>1 DEF MutexHeld, Inside, At, TypeOK
<1>3. \A i \in Instance : seq'[i] + Left(i)' = seq[i] + Left(i)
  BY <1>1, <1>2 DEF Left, At
<1>4. \A i \in Instance : seq[i] + Left(i) \in Nat
  BY <1>0, LeftType, BoundAssumption
<1>5. ASSUME NEW i \in Instance, Queued(i)' \subseteq Queued(i)
      PROVE  /\ IsFiniteSet(Queued(i)')
             /\ seq'[i] + Left(i)' + ATTEMPTS * Cardinality(Queued(i)') <= ATTEMPTS * calls'
  <2>1. seq'[i] + Left(i)' <= seq[i] + Left(i)
    BY <1>3, <1>4
  <2>2. calls' >= calls
    BY <1>0, <1>1
  <2> QED BY <1>0, <1>5, <2>1, <2>2, BoundKept
<1>6. ASSUME NEW i \in Instance, ~(Queued(i)' \subseteq Queued(i))
      PROVE  /\ IsFiniteSet(Queued(i)')
             /\ seq'[i] + Left(i)' + ATTEMPTS * Cardinality(Queued(i)') <= ATTEMPTS * calls'
  <2> DEFINE n == Cardinality(Queued(i))
             m == Cardinality(Queued(i)')
  <2>1. c \notin Queued(i) /\ Queued(i)' = Queued(i) \union {c}
    BY <1>1, <1>6 DEF Queued, At
  <2>2. /\ IsFiniteSet(Queued(i)) /\ seq[i] + Left(i) + ATTEMPTS * n <= ATTEMPTS * calls
    BY DEF DrawsBound
  <2>3. IsFiniteSet(Queued(i)') /\ m = n + 1 /\ n \in Nat
    BY <2>1, <2>2, FS_AddElement, FS_CardinalityType
  <2>4. /\ ATTEMPTS * (n + 1) = ATTEMPTS * n + ATTEMPTS
        /\ ATTEMPTS * (calls + 1) = ATTEMPTS * calls + ATTEMPTS
        /\ ATTEMPTS * n \in Nat /\ ATTEMPTS * calls \in Nat /\ ATTEMPTS \in Nat
    BY <1>0, <2>3, Products
  <2>5. seq'[i] + Left(i)' = seq[i] + Left(i) /\ seq[i] + Left(i) \in Nat
    BY <1>3, <1>4
  <2>6. ATTEMPTS * m = ATTEMPTS * n + ATTEMPTS /\ ATTEMPTS * calls' = ATTEMPTS * calls + ATTEMPTS
    BY <1>1, <2>3, <2>4
  <2> DEFINE x == seq[i] + Left(i)
             p == ATTEMPTS * n
             u == ATTEMPTS * calls
  <2>7. x + p <= u /\ x \in Int /\ p \in Int /\ u \in Int /\ ATTEMPTS \in Int
    BY <2>2, <2>4, <2>5
  <2> HIDE DEF x, p, u
  <2>8. x + (p + ATTEMPTS) <= u + ATTEMPTS
    BY <2>7
  <2> QED BY <2>3, <2>5, <2>6, <2>8 DEF x, p, u
<1> QED BY <1>5, <1>6 DEF DrawsBound

LEMMA BoundNext == IInv /\ IInv' /\ MutexHeld /\ MutexHeld' /\ DrawsBound /\ [Next]_vars => DrawsBound'
<1> SUFFICES ASSUME IInv, IInv', MutexHeld, MutexHeld', DrawsBound, [Next]_vars
             PROVE  DrawsBound'
  OBVIOUS
<1>0. TypeOK /\ TypeOK'
  BY DEF IInv
<1>1. \A i \in Instance : Left(i) \in 0 .. ATTEMPTS /\ seq[i] \in Nat /\ calls \in Nat
  BY <1>0, LeftType
<1>2. CASE UNCHANGED vars \/ \E s \in Slot : WriteBack(s)
  BY <1>2 DEF DrawsBound, Left, Queued, At, vars, WriteBack
<1>3. ASSUME NEW j \in Instance, Open(j)
      PROVE  DrawsBound'
  <2>1. lock' = lock /\ call' = call /\ calls' = calls /\ \A i \in Instance : seq'[i] \in {0, seq[i]}
    BY <1>0, <1>3 DEF Open, TypeOK
  <2>2. \A i \in Instance : Left(i)' = Left(i) /\ Queued(i)' = Queued(i)
    BY <2>1 DEF Left, Queued, At
  <2>3. \A i \in Instance : seq'[i] + Left(i)' <= seq[i] + Left(i)
    BY <1>1, <2>1, <2>2, BoundAssumption
  <2>4. calls' >= calls
    BY <1>0, <2>1 DEF TypeOK
  <2> QED BY <1>0, <2>2, <2>3, <2>4, BoundKept DEF DrawsBound
<1>4. ASSUME NEW j \in Instance, CrashProcess(j)
      PROVE  DrawsBound'
  <2>1. /\ \A c \in Caller : call'[c] = IF InstanceOf[c] = j THEN Idle ELSE call[c]
        /\ \A i \in Instance : lock'[i] = IF i = j THEN Free ELSE lock[i]
        /\ calls' = calls /\ seq' = seq
    BY <1>0, <1>4 DEF CrashProcess, Killed, TypeOK
  <2>2. \A i \in Instance : Queued(i)' \subseteq Queued(i)
    BY <2>1 DEF Queued, At, Idle
  <2>3. \A i \in Instance : Left(i)' = 0 \/ Left(i)' = Left(i)
    <3>1. \A i \in Instance \ {j} : lock[i] # Free =>
            lock[i] \in Caller /\ InstanceOf[lock[i]] = i
      BY <1>0 DEF MutexHeld, TypeOK
    <3> QED BY <2>1, <3>1 DEF Left, At
  <2>4. \A i \in Instance : seq'[i] + Left(i)' <= seq[i] + Left(i)
    BY <1>1, <2>1, <2>3, BoundAssumption
  <2>5. calls' >= calls
    BY <1>0, <2>1 DEF TypeOK
  <2> QED BY <1>0, <2>2, <2>4, <2>5, BoundKept DEF DrawsBound
<1>5. CASE PowerLoss
  <2>1. /\ \A c \in Caller : call'[c] = Idle
        /\ \A i \in Instance : lock'[i] = Free
        /\ calls' = calls /\ seq' = seq
    BY <1>5 DEF PowerLoss, Killed
  <2>2. \A i \in Instance : Queued(i)' \subseteq Queued(i) /\ Left(i)' = 0
    BY <2>1 DEF Queued, Left, At, Idle
  <2>3. \A i \in Instance : seq'[i] + Left(i)' <= seq[i] + Left(i)
    BY <1>1, <2>1, <2>2, BoundAssumption
  <2>4. calls' >= calls
    BY <1>0, <2>1 DEF TypeOK
  <2> QED BY <1>0, <2>2, <2>3, <2>4, BoundKept DEF DrawsBound
<1>6. ASSUME NEW c \in Caller, Request(c) \/ Work(c)
      PROVE  DrawsBound'
  BY <1>6, BoundRequest, BoundWork, BoundAcquire
<1> QED BY <1>2, <1>3, <1>4, <1>5, <1>6 DEF Next

LEMMA DrawsInvariance == Spec => [](IInv /\ MutexHeld /\ DrawsBound)
<1>1. Init => DrawsBound
  <2> SUFFICES ASSUME Init
               PROVE  DrawsBound
    OBVIOUS
  <2>1. ASSUME NEW i \in Instance
        PROVE  Queued(i) = {} /\ Left(i) = 0 /\ seq[i] = 0 /\ calls = 0
    BY DEF Init, Queued, Left, At, Idle
  <2>2. IsFiniteSet({}) /\ Cardinality({}) = 0
    BY FS_EmptySet
  <2>3. ATTEMPTS * 0 = 0
    BY BoundAssumption
  <2> QED BY <2>1, <2>2, <2>3 DEF DrawsBound
<1> QED BY <1>1, BoundNext, Invariance, MutexInvariance, PTL DEF Spec

LEMMA GoOn == IInv /\ MutexHeld /\ DrawsBound => CallsGoOn
<1> SUFFICES ASSUME IInv, MutexHeld, DrawsBound, NEW c \in Caller, ~At(c, "idle")
             PROVE  \E b \in Caller : InstanceOf[b] = InstanceOf[c] /\ CanGoOn(b)
  BY DEF CallsGoOn
<1>0. TypeOK
  BY DEF IInv
<1>1. ASSUME NEW b \in Caller, Inside(b)
      PROVE  CanGoOn(b)
  <2> DEFINE i == InstanceOf[b]
             n == Cardinality(Queued(i))
  <2>1. i \in Instance /\ lock[i] = b
    BY <1>1, CallerAssumption DEF MutexHeld
  <2>2. ASSUME At(b, "claim"), call[b].tries < ATTEMPTS
        PROVE  seq[i] < MaxSeq
    <3>1. Left(i) = ATTEMPTS - call[b].tries /\ call[b].tries \in Nat /\ ATTEMPTS \in Nat
      BY <1>0, <2>1, <2>2, CallerAssumption, BoundAssumption DEF Left, TypeOK, Call
    <3>2. n \in Nat /\ ATTEMPTS * n \in Nat /\ seq[i] + Left(i) + ATTEMPTS * n <= ATTEMPTS * calls
      BY <2>1, FS_CardinalityType, Products DEF DrawsBound
    <3>3. /\ ATTEMPTS * calls <= ATTEMPTS * MaxCalls
          /\ ATTEMPTS * calls \in Nat /\ ATTEMPTS * MaxCalls \in Nat
      <4>1. calls \in Nat /\ MaxCalls \in Nat /\ calls <= MaxCalls
        BY <1>0, BoundAssumption DEF TypeOK
      <4> QED BY <4>1, Products
    <3>4. ATTEMPTS * MaxCalls = MaxCalls * ATTEMPTS
      BY BoundAssumption
    <3>5. seq[i] \in Nat /\ Left(i) \in Nat /\ Left(i) > 0
      BY <1>0, <2>1, <2>2, <3>1, LeftType
    <3> DEFINE p == ATTEMPTS * n
               u == ATTEMPTS * calls
               v == ATTEMPTS * MaxCalls
               l == Left(i)
    <3>6. /\ seq[i] + l + p <= u /\ u <= v /\ v <= MaxSeq
          /\ p \in Nat /\ u \in Nat /\ v \in Nat /\ l \in Nat /\ l > 0
          /\ seq[i] \in Nat /\ MaxSeq \in Nat
      BY <3>2, <3>3, <3>4, <3>5, BoundAssumption
    <3> HIDE DEF p, u, v, l
    <3> QED BY <3>6
  <2> QED BY <1>1, <2>2 DEF CanGoOn, Inside, At
<1>2. CASE Inside(c)
  BY <1>1, <1>2
<1>3. CASE At(c, "lock") /\ lock[InstanceOf[c]] = Free
  BY <1>3 DEF CanGoOn, At
<1>4. CASE At(c, "lock") /\ lock[InstanceOf[c]] # Free
  <2> DEFINE b == lock[InstanceOf[c]]
  <2>1. b \in Caller /\ InstanceOf[b] = InstanceOf[c] /\ Inside(b)
    BY <1>0, <1>4, CallerAssumption DEF MutexHeld, TypeOK
  <2> QED BY <1>1, <2>1
<1> QED BY <1>2, <1>3, <1>4 DEF Inside, At

\* A step of a call is worth one at least.
LEMMA RankForms ==
  ASSUME TypeOK, NEW c \in Caller
  PROVE  /\ call[c].tries \in 0 .. ATTEMPTS /\ ATTEMPTS \in Nat
         /\ call[c].step \in Step /\ StepsLeft[call[c].step] \in 0 .. 7
         /\ At(c, "idle") => Rank(c) = 0
         /\ call[c].step \notin {"idle", "lock", "claim"} => Rank(c) = StepsLeft[call[c].step]
         /\ call[c].step \in {"lock", "claim"} =>
              Rank(c) = StepsLeft[call[c].step] + (ATTEMPTS - call[c].tries)
         /\ ~At(c, "idle") => Rank(c) > 0
<1>1. /\ call[c].tries \in 0 .. ATTEMPTS /\ ATTEMPTS \in Nat /\ call[c].step \in Step
  BY BoundAssumption DEF TypeOK, Call
<1>2. StepsLeft[call[c].step] \in 0 .. 7 /\ (~At(c, "idle") => StepsLeft[call[c].step] > 0)
  BY <1>1 DEF Step, StepsLeft, At
<1>3. StepsLeft["idle"] = 0
  BY DEF StepsLeft
<1>4. /\ call[c].step \notin {"lock", "claim"} => Rank(c) = StepsLeft[call[c].step] + 0
      /\ call[c].step \in {"lock", "claim"} =>
            Rank(c) = StepsLeft[call[c].step] + (ATTEMPTS - call[c].tries)
  BY DEF Rank
<1>5. call[c].step \notin {"lock", "claim"} => Rank(c) = StepsLeft[call[c].step]
  BY <1>2, <1>4
<1>6. At(c, "idle") => Rank(c) = 0
  BY <1>3, <1>5 DEF At
<1>7. ~At(c, "idle") => Rank(c) > 0
  BY <1>1, <1>2, <1>4, <1>5
<1> QED BY <1>1, <1>2, <1>4, <1>5, <1>6, <1>7

LEMMA WorkAdvances ==
  ASSUME IInv, IInv', NEW c \in Caller, Work(c)
  PROVE  Rank(c)' < Rank(c)
<1>0. TypeOK /\ TypeOK'
  BY DEF IInv
<1>1. /\ call[c].tries \in 0 .. ATTEMPTS /\ ATTEMPTS \in Nat /\ call[c].step \in Step
      /\ call'[c].tries \in 0 .. ATTEMPTS /\ call'[c].step \in Step
      /\ call \in [Caller -> Call]
  BY <1>0, BoundAssumption DEF TypeOK, Call
<1>2. ASSUME ~At(c, "idle"), At(c, "idle")'
      PROVE  Rank(c)' < Rank(c)
  <2>1. Rank(c)' = 0
    BY <1>2 DEF Rank, StepsLeft, At
  <2> QED BY <1>0, <1>2, <2>1, RankForms
<1>3. ASSUME Inside(c), NEW r, NEW d, Return(c, r, d)
      PROVE  Rank(c)' < Rank(c)
  <2>1. At(c, "idle")'
    BY <1>1, <1>3 DEF Return, Idle, At
  <2> QED BY <1>2, <1>3, <2>1 DEF Inside, At
<1>4. ASSUME NEW st \in Step, Goto(c, st),
             \/ At(c, "write") /\ st \in {"sync", "discard"}
             \/ At(c, "sync") /\ st \in {"rename", "discard"}
             \/ At(c, "rename") /\ st = "discard"
             \/ At(c, "stat") /\ st = "read"
             \/ At(c, "remove") /\ st = "sweep"
      PROVE  Rank(c)' < Rank(c)
  <2>1. call'[c].step = st
    BY <1>1, <1>4 DEF Goto, Call
  <2> QED BY <1>4, <2>1 DEF Rank, StepsLeft, At
<1>5. CASE Acquire(c)
  <2>1. /\ At(c, "lock") /\ call'[c].step = FirstStep(call[c].op) /\ call'[c].tries = call[c].tries
        /\ call[c].op \in {"save", "load", "delete"}
    BY <1>1, <1>5 DEF Acquire, Goto, Call
  <2>2. call'[c].step \in {"claim", "stat", "remove"}
    BY <2>1, FirstSteps
  <2>3. Rank(c) = 7 + (ATTEMPTS - call[c].tries)
    BY <2>1 DEF Rank, StepsLeft, At
  <2>4. Rank(c)' = 6 + (ATTEMPTS - call[c].tries) \/ Rank(c)' = 2 + 0
    BY <2>1, <2>2 DEF Rank, StepsLeft
  <2> QED BY <1>1, <2>3, <2>4
<1>6. CASE Claim(c)
  <2>1. Rank(c) = 6 + (ATTEMPTS - call[c].tries) /\ call[c].tries < ATTEMPTS /\ At(c, "claim")
    BY <1>6 DEF Claim, Draw, Rank, StepsLeft, At
  <2>2. CASE call' = [call EXCEPT ![c].step = "write", ![c].tmp = DrawnName(c)]
    <3>1. call'[c].step = "write"
      BY <1>1, <2>2 DEF Call
    <3>2. Rank(c)' = 5 + 0
      BY <3>1 DEF Rank, StepsLeft
    <3> QED BY <1>1, <2>1, <3>2
  <2>3. CASE call' = [call EXCEPT ![c].tries = call[c].tries + 1]
    <3>1. call'[c].step = "claim" /\ call'[c].tries = call[c].tries + 1
      BY <1>1, <2>1, <2>3 DEF Call, At
    <3>2. Rank(c)' = 6 + (ATTEMPTS - (call[c].tries + 1))
      BY <3>1 DEF Rank, StepsLeft
    <3> QED BY <1>1, <2>1, <3>2
  <2> QED BY <1>6, <2>2, <2>3 DEF Claim
<1>7. CASE Rename(c)
  <2>1. At(c, "rename")
    BY <1>7 DEF Rename
  <2>2. CASE Goto(c, "discard")
    BY <1>4, <2>1, <2>2 DEF Step
  <2>3. CASE call' = [call EXCEPT ![c].step = "syncDir", ![c].change = dir[call[c].slot].change + 1]
    <3>1. call'[c].step = "syncDir"
      BY <1>1, <2>3 DEF Call
    <3> QED BY <2>1, <3>1 DEF Rank, StepsLeft, At
  <2> QED BY <1>7, <2>2, <2>3 DEF Rename
<1>8. CASE Write(c) \/ SyncAll(c) \/ Stat(c) \/ Remove(c)
  BY <1>4, <1>8 DEF Write, SyncAll, Stat, Remove, Step
<1>9. CASE IoError(c) \/ ClaimError(c) \/ GiveUp(c) \/ Discard(c)
  BY <1>3, <1>9 DEF IoError, ClaimError, Draw, GiveUp, Discard, Fail, Inside, At
<1>10. CASE SyncDir(c) \/ Missing(c) \/ Sweep(c)
  BY <1>3, <1>10 DEF SyncDir, Missing, Sweep, Inside, At
<1>11. CASE Read(c)
  BY <1>3, <1>11 DEF Read, Inside, At
<1> QED BY <1>5, <1>6, <1>7, <1>8, <1>9, <1>10, <1>11 DEF Work

LEMMA Ranks ==
  ASSUME TypeOK, TypeOK', NEW c \in Caller
  PROVE  Rank(c) \in Int /\ Rank(c)' \in Int
<1>1. /\ call[c].tries \in 0 .. ATTEMPTS /\ call[c].step \in Step /\ ATTEMPTS \in Nat
      /\ call'[c].tries \in 0 .. ATTEMPTS /\ call'[c].step \in Step
  BY BoundAssumption DEF TypeOK, Call
<1> QED BY <1>1 DEF Rank, StepsLeft, Step

LEMMA OthersWait ==
  ASSUME IInv, IInv', [Next]_vars, NEW c \in Caller, ~At(c, "idle"), ~Work(c)
  PROVE  Rank(c)' <= Rank(c)
<1>0. TypeOK /\ TypeOK'
  BY DEF IInv
<1>1. CASE call'[c] = call[c]
  <2>1. Rank(c)' = Rank(c)
    BY <1>1 DEF Rank
  <2> QED BY <1>0, <2>1, Ranks
<1>2. CASE call'[c] = Idle
  <2>1. Rank(c)' = 0 + 0
    BY <1>2 DEF Rank, StepsLeft, Idle
  <2>2. Rank(c) > 0
    BY <1>0, RankForms
  <2> QED BY <1>0, <2>1, <2>2, Ranks
<1>3. CASE UNCHANGED vars \/ (\E i \in Instance : Open(i)) \/ \E s \in Slot : WriteBack(s)
  BY <1>1, <1>3 DEF vars, Open, WriteBack
<1>4. CASE PowerLoss \/ \E i \in Instance : CrashProcess(i)
  BY <1>1, <1>2, <1>4 DEF PowerLoss, CrashProcess, Killed
<1>5. ASSUME NEW b \in Caller, Request(b)
      PROVE  Rank(c)' <= Rank(c)
  <2>1. b # c /\ call'[c] = call[c]
    BY <1>0, <1>5 DEF Request, Refuse, Begin, At, TypeOK
  <2> QED BY <1>1, <2>1
<1>6. ASSUME NEW b \in Caller, Work(b)
      PROVE  Rank(c)' <= Rank(c)
  <2>1. b # c
    BY <1>6
  <2>2. call'[c] = call[c]
    BY <1>0, <1>6, <2>1, WorkForms DEF Acquire, Goto, Return, TypeOK
  <2> QED BY <1>1, <2>2
<1> QED BY <1>3, <1>4, <1>5, <1>6 DEF Next

LEMMA Advance == IInv /\ IInv' /\ [Next]_vars => Nearer
<1> SUFFICES ASSUME IInv, IInv', [Next]_vars, NEW c \in Caller
             PROVE  /\ Work(c) => Rank(c)' < Rank(c)
                    /\ ~At(c, "idle") => Rank(c)' <= Rank(c)
  BY DEF Nearer
<1>1. CASE Work(c)
  <2>1. Rank(c) \in Int /\ Rank(c)' \in Int
    BY Ranks DEF IInv
  <2>2. Rank(c)' < Rank(c)
    BY <1>1, WorkAdvances
  <2> QED BY <2>1, <2>2
<1>2. CASE ~Work(c)
  BY <1>2, OthersWait
<1> QED BY <1>1, <1>2

\* Inner::lock serialises the calls of a process: the mutex is held exactly by the
\* thread inside, and no return, error, crash or power loss leaves it held.
THEOREM MutexIsHeld == Spec => []MutexHeld
BY MutexInvariance

\* Whoever waits in a call, some thread of its process can take its next step:
\* no set of calls waits on itself, and MaxSeq never keeps write_atomic from a name.
THEOREM CallsCanGoOn == Spec => []CallsGoOn
BY DrawsInvariance, GoOn, PTL

\* Each step of a call brings its return nearer, and nobody else's takes it away:
\* a save is back after ATTEMPTS + 7 steps of its own.
THEOREM CallsNearReturn == Spec => CallsAdvance
BY Invariance, Advance, PTL DEF Spec, CallsAdvance
=============================================================================
