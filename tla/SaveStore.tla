----------------------------- MODULE SaveStore ------------------------------
(***************************************************************************)
(* The native save store, src-tauri/src/save_store.rs: SaveStore::save,    *)
(* load and delete as blocking-pool threads run them, write_atomic step by *)
(* step, and the directory they share.                                     *)
(*                                                                         *)
(* Several instances of the app may share the saves directory: nothing     *)
(* makes the app single-instance, and the mutex and TMP_SEQ are each       *)
(* process's own.  A process may crash between any two steps, which drops  *)
(* its threads and keeps the files; the machine may lose power, which      *)
(* keeps only what was synced or had happened to be written back.          *)
(***************************************************************************)
EXTENDS Naturals, FiniteSets

CONSTANTS
  Instance,          \* running copies of the app
  Caller,            \* blocking-pool threads, over all instances
  InstanceOf,        \* the instance a thread belongs to
  Slot,              \* slot ids that pass validate_slot
  Payload,           \* save texts that pass validate_envelope
  Absent,            \* "no such file"
  Pid,               \* process ids the system hands out, and reuses
  NotRunning,        \* in place of a pid
  Free,              \* in place of the holder of a mutex
  ATTEMPTS,          \* temp names one write tries (8 in the code)
  MaxSeq,            \* bound: temp names one process draws (never reached)
  MaxCalls,          \* bound: calls made over the whole behaviour
  MaxCrashes         \* bound: process crashes and power losses

ASSUME CallerAssumption ==
  /\ \A c \in Caller : InstanceOf[c] \in Instance
  /\ Absent \notin Payload
  /\ NotRunning \notin Pid
  /\ Free \notin Caller

ASSUME BoundAssumption ==
  /\ ATTEMPTS \in Nat \ {0}
  /\ MaxCalls \in Nat
  /\ MaxSeq \in Nat /\ MaxSeq >= MaxCalls * ATTEMPTS
  /\ MaxCrashes \in Nat

VARIABLES
  pid,       \* pid[i]: process id of instance i
  seq,       \* seq[i]: TMP_SEQ of that process
  lock,      \* lock[i]: the thread that holds Inner::lock
  call,      \* call[c]: where thread c is in its call, and its last result
  dir,       \* dir[s]: what the name <slot>.json shows to every process
  disk,      \* disk[s]: what that name shows after a power loss
  temp,      \* temp[t]: the file under temp name t
  legacy,    \* slots with a .json.tmp or .json.bak of an older version
  acked,     \* acked[s]: newest change of s acknowledged by an Ok save
  calls,     \* calls made so far
  crashes    \* crashes so far

fs == <<dir, disk, temp, legacy>>
vars == <<pid, seq, lock, call, dir, disk, temp, legacy, acked, calls, crashes>>

(* <slot>.<pid>.<seq>.json.tmp *)
TempName == [slot : Slot, pid : Pid, seq : 0 .. MaxSeq]

(***************************************************************************)
(* A file's bytes are the payload they are meant to be once "written", and *)
(* survive a power loss once "synced"; before, they are any prefix of it.  *)
(***************************************************************************)
Bytes == {"partial", "written", "synced"}

NoFile == [data |-> Absent, bytes |-> "partial"]
TempFile == [data : Payload, bytes : Bytes]

(* What a slot name shows, and how many changes of the name led to it. *)
Entry == [data : Payload \union {Absent}, bytes : Bytes, change : Nat]

Step == {"idle", "lock", "claim", "write", "sync", "rename", "syncDir",
         "discard", "stat", "read", "remove", "sweep"}

Result == {"none", "saved", "loaded", "deleted", "missing", "failed"}

Call == [step : Step, op : {"save", "load", "delete"}, slot : Slot \union {Absent},
         data : Payload \union {Absent}, tries : 0 .. ATTEMPTS,
         tmp : TempName \union {Absent}, change : Nat, result : Result]

Idle ==
  [step |-> "idle", op |-> "load", slot |-> Absent, data |-> Absent,
   tries |-> 0, tmp |-> Absent, change |-> 0, result |-> "none"]

Init ==
  /\ pid = [i \in Instance |-> NotRunning]
  /\ seq = [i \in Instance |-> 0]
  /\ lock = [i \in Instance |-> Free]
  /\ call = [c \in Caller |-> Idle]
  /\ dir \in [Slot -> [data : Payload \union {Absent},
                       bytes : {"synced"}, change : {0}]]
  /\ disk = dir
  /\ temp = [t \in TempName |-> NoFile]
  /\ legacy \in SUBSET Slot
  /\ acked = [s \in Slot |-> 0]
  /\ calls = 0
  /\ crashes = 0

-----------------------------------------------------------------------------
(* The life of a process: run() opens the store, which deletes nothing.    *)

(* Mutant: opening sweeps every temp away, live writers' included. *)
OpenSweeping(i) ==
  /\ pid[i] = NotRunning
  /\ \E p \in Pid \ {pid[j] : j \in Instance} :
       pid' = [pid EXCEPT ![i] = p]
  /\ seq' = [seq EXCEPT ![i] = 0]
  /\ temp' = [t \in TempName |-> NoFile]
  /\ UNCHANGED <<lock, call, dir, disk, legacy, acked, calls, crashes>>

Open(i) ==
  /\ pid[i] = NotRunning
  /\ \E p \in Pid \ {pid[j] : j \in Instance} :
       pid' = [pid EXCEPT ![i] = p]
  /\ seq' = [seq EXCEPT ![i] = 0]
  /\ UNCHANGED <<lock, call, fs, acked, calls, crashes>>

(* Threads that die with their process: no result, no lock. *)
Killed(dead) ==
  [c \in Caller |-> IF c \in dead THEN Idle ELSE call[c]]

CrashProcess(i) ==
  /\ pid[i] # NotRunning
  /\ crashes < MaxCrashes
  /\ crashes' = crashes + 1
  /\ pid' = [pid EXCEPT ![i] = NotRunning]
  /\ lock' = [lock EXCEPT ![i] = Free]
  /\ call' = Killed({c \in Caller : InstanceOf[c] = i})
  /\ UNCHANGED <<seq, fs, acked, calls>>

(***************************************************************************)
(* Every process dies, the slot names fall back to the disk's, bytes that  *)
(* were not synced are lost, and so may be any of the temp names.          *)
(***************************************************************************)
Survivor(file) ==
  IF file.bytes = "synced" THEN file ELSE [file EXCEPT !.bytes = "partial"]

PowerLoss ==
  /\ crashes < MaxCrashes
  /\ crashes' = crashes + 1
  /\ pid' = [i \in Instance |-> NotRunning]
  /\ lock' = [i \in Instance |-> Free]
  /\ call' = Killed(Caller)
  /\ dir' = [s \in Slot |-> Survivor(disk[s])]
  /\ disk' = dir'
  /\ \E kept \in SUBSET {t \in TempName : temp[t] # NoFile} :
       temp' = [t \in TempName |-> IF t \in kept THEN Survivor(temp[t]) ELSE NoFile]
  /\ UNCHANGED <<seq, legacy, acked, calls>>

(* The file system writes a slot name back when it pleases. *)
WriteBack(s) ==
  /\ disk[s] # dir[s]
  /\ disk' = [disk EXCEPT ![s] = dir[s]]
  /\ UNCHANGED <<pid, seq, lock, call, dir, temp, legacy, acked, calls, crashes>>

-----------------------------------------------------------------------------
(* Entering a call, taking the mutex, and leaving.                         *)

Running(c) == pid[InstanceOf[c]] # NotRunning

At(c, step) == call[c].step = step

Goto(c, step) == call' = [call EXCEPT ![c].step = step]

Begin(c, op, s, d) ==
  /\ Running(c)
  /\ At(c, "idle")
  /\ calls < MaxCalls
  /\ calls' = calls + 1
  /\ call' = [call EXCEPT ![c] =
                [Idle EXCEPT !.step = "lock", !.op = op, !.slot = s, !.data = d]]
  /\ UNCHANGED <<pid, seq, lock, fs, acked, crashes>>

(* A slot name, size or envelope that does not validate never gets to the lock. *)
Refuse(c) ==
  /\ Running(c)
  /\ At(c, "idle")
  /\ calls < MaxCalls
  /\ calls' = calls + 1
  /\ call' = [call EXCEPT ![c] = [Idle EXCEPT !.result = "failed"]]
  /\ UNCHANGED <<pid, seq, lock, fs, acked, crashes>>

FirstStep(op) ==
  CASE op = "save"   -> "claim"
    [] op = "load"   -> "stat"
    [] op = "delete" -> "remove"

Acquire(c) ==
  /\ At(c, "lock")
  /\ lock[InstanceOf[c]] = Free
  /\ lock' = [lock EXCEPT ![InstanceOf[c]] = c]
  /\ Goto(c, FirstStep(call[c].op))
  /\ UNCHANGED <<pid, seq, fs, acked, calls, crashes>>

(* The guard is dropped when `locked` returns. *)
Return(c, result, data) ==
  /\ lock' = [lock EXCEPT ![InstanceOf[c]] = Free]
  /\ call' = [call EXCEPT ![c] =
                [Idle EXCEPT !.result = result, !.data = data]]

(* Mutant: the error path leaves the mutex locked. *)
FailLocked(c) ==
  /\ call' = [call EXCEPT ![c] = [Idle EXCEPT !.result = "failed"]]
  /\ UNCHANGED lock

Fail(c) == Return(c, "failed", Absent)

(* The steps at which an i/o error or a symlink under the slot name ends a *)
(* call, files untouched.                                                  *)
IoError(c) ==
  /\ call[c].step \in {"claim", "syncDir", "stat", "read", "remove"}
  /\ At(c, "claim") => call[c].tries = 0
  /\ Fail(c)
  /\ UNCHANGED <<pid, seq, fs, acked, calls, crashes>>

-----------------------------------------------------------------------------
(* write_atomic *)

DrawnName(c) ==
  LET i == InstanceOf[c]
  IN  [slot |-> call[c].slot, pid |-> pid[i], seq |-> seq[i]]

(* Mutant: one fixed temp name per slot, truncated when it exists. *)
ClaimFixed(c) ==
  LET t == [slot |-> call[c].slot, pid |-> CHOOSE p \in Pid : TRUE, seq |-> 0]
  IN
  /\ At(c, "claim")
  /\ call[c].tries < ATTEMPTS
  /\ temp' = [temp EXCEPT ![t] = [data |-> call[c].data, bytes |-> "partial"]]
  /\ call' = [call EXCEPT ![c].step = "write", ![c].tmp = t]
  /\ UNCHANGED <<pid, seq, lock, dir, disk, legacy, acked, calls, crashes>>

(* One turn of the loop draws a name... *)
Draw(c) ==
  LET i == InstanceOf[c]
  IN
  /\ At(c, "claim")
  /\ call[c].tries < ATTEMPTS
  /\ seq[i] < MaxSeq
  /\ seq' = [seq EXCEPT ![i] = seq[i] + 1]

(* ... and creates its file with create_new, unless the name is taken. *)
Claim(c) ==
  LET t == DrawnName(c)
  IN
  /\ Draw(c)
  /\ \/ /\ temp[t] = NoFile
        /\ temp' = [temp EXCEPT ![t] = [data |-> call[c].data, bytes |-> "partial"]]
        /\ call' = [call EXCEPT ![c].step = "write", ![c].tmp = t]
     \/ /\ temp[t] # NoFile
        /\ call' = [call EXCEPT ![c].tries = call[c].tries + 1]
        /\ UNCHANGED temp
  /\ UNCHANGED <<pid, lock, dir, disk, legacy, acked, calls, crashes>>

(* A symlink under the drawn name, or an error from create_new. *)
ClaimError(c) ==
  /\ Draw(c)
  /\ Fail(c)
  /\ UNCHANGED <<pid, fs, acked, calls, crashes>>

(* "could not claim a unique save temp name" *)
GiveUp(c) ==
  /\ At(c, "claim")
  /\ call[c].tries = ATTEMPTS
  /\ Fail(c)
  /\ UNCHANGED <<pid, seq, fs, acked, calls, crashes>>

(* Mutant: the bytes are renamed into place without sync_all. *)
WriteUnsynced(c) ==
  /\ At(c, "write")
  /\ temp' = [temp EXCEPT ![call[c].tmp].bytes = "written"]
  /\ Goto(c, "rename")
  /\ UNCHANGED <<pid, seq, lock, dir, disk, legacy, acked, calls, crashes>>

(* write_all, then sync_all; either error discards the temp. *)
Write(c) ==
  /\ At(c, "write")
  /\ \/ /\ temp' = [temp EXCEPT ![call[c].tmp].bytes = "written"]
        /\ Goto(c, "sync")
     \/ /\ Goto(c, "discard")
        /\ UNCHANGED temp
  /\ UNCHANGED <<pid, seq, lock, dir, disk, legacy, acked, calls, crashes>>

SyncAll(c) ==
  /\ At(c, "sync")
  /\ \/ /\ temp' = [temp EXCEPT ![call[c].tmp].bytes = "synced"]
        /\ Goto(c, "rename")
     \/ /\ Goto(c, "discard")
        /\ UNCHANGED temp
  /\ UNCHANGED <<pid, seq, lock, dir, disk, legacy, acked, calls, crashes>>

(* A name of the directory gets a new file, or none. *)
Show(s, data, bytes) ==
  dir' = [dir EXCEPT ![s] =
            [data |-> data, bytes |-> bytes, change |-> dir[s].change + 1]]

(* Mutant: the old save is removed to make room, the rename comes after. *)
RenameOver(c) ==
  LET s == call[c].slot
      t == call[c].tmp
  IN
  /\ At(c, "rename")
  /\ \/ /\ temp[t] # NoFile
        /\ Show(s, temp[t].data, temp[t].bytes)
        /\ temp' = [temp EXCEPT ![t] = NoFile]
        /\ call' = [call EXCEPT ![c].step = "syncDir",
                                ![c].change = dir[s].change + 1]
     \/ /\ Goto(c, "discard")
        /\ Show(s, Absent, "synced")
        /\ UNCHANGED temp
  /\ UNCHANGED <<pid, seq, lock, disk, legacy, acked, calls, crashes>>

Rename(c) ==
  LET s == call[c].slot
      t == call[c].tmp
  IN
  /\ At(c, "rename")
  /\ \/ /\ temp[t] # NoFile
        /\ Show(s, temp[t].data, temp[t].bytes)
        /\ temp' = [temp EXCEPT ![t] = NoFile]
        /\ call' = [call EXCEPT ![c].step = "syncDir",
                                ![c].change = dir[s].change + 1]
     \/ /\ Goto(c, "discard")
        /\ UNCHANGED <<dir, temp>>
  /\ UNCHANGED <<pid, seq, lock, disk, legacy, acked, calls, crashes>>

(* Mutant: Ok without waiting for the directory. *)
SyncDirSkipped(c) ==
  LET s == call[c].slot
  IN
  /\ At(c, "syncDir")
  /\ acked' = [acked EXCEPT ![s] =
                 IF call[c].change > acked[s] THEN call[c].change ELSE acked[s]]
  /\ Return(c, "saved", Absent)
  /\ UNCHANGED <<pid, seq, fs, calls, crashes>>

(* sync_dir: every name of the directory reaches the disk, then Ok. *)
SyncDir(c) ==
  LET s == call[c].slot
  IN
  /\ At(c, "syncDir")
  /\ disk' = dir
  /\ acked' = [acked EXCEPT ![s] =
                 IF call[c].change > acked[s] THEN call[c].change ELSE acked[s]]
  /\ Return(c, "saved", Absent)
  /\ UNCHANGED <<pid, seq, dir, temp, legacy, calls, crashes>>

(* `let _ = fs::remove_file(&tmp)`, then the error that led here. *)
Discard(c) ==
  /\ At(c, "discard")
  /\ temp' \in {temp, [temp EXCEPT ![call[c].tmp] = NoFile]}
  /\ Fail(c)
  /\ UNCHANGED <<pid, seq, dir, disk, legacy, acked, calls, crashes>>

-----------------------------------------------------------------------------
(* load: the size check and the read are two looks at the name.            *)

Missing(c) ==
  /\ call[c].step \in {"stat", "read", "remove"}
  /\ dir[call[c].slot].data = Absent
  /\ Return(c, "missing", Absent)
  /\ UNCHANGED <<pid, seq, fs, acked, calls, crashes>>

Stat(c) ==
  /\ At(c, "stat")
  /\ dir[call[c].slot].data # Absent
  /\ Goto(c, "read")
  /\ UNCHANGED <<pid, seq, lock, fs, acked, calls, crashes>>

Read(c) ==
  LET d == dir[call[c].slot].data
  IN
  /\ At(c, "read")
  /\ d # Absent
  /\ Return(c, "loaded", d)
  /\ UNCHANGED <<pid, seq, fs, acked, calls, crashes>>

-----------------------------------------------------------------------------
(* delete: the name goes, no directory sync follows, and the temp and      *)
(* backup names of older versions go too if they can.                      *)

Remove(c) ==
  LET s == call[c].slot
  IN
  /\ At(c, "remove")
  /\ dir[s].data # Absent
  /\ Show(s, Absent, "synced")
  /\ Goto(c, "sweep")
  /\ UNCHANGED <<pid, seq, lock, disk, temp, legacy, acked, calls, crashes>>

Sweep(c) ==
  /\ At(c, "sweep")
  /\ legacy' \in {legacy, legacy \ {call[c].slot}}
  /\ Return(c, "deleted", Absent)
  /\ UNCHANGED <<pid, seq, dir, disk, temp, acked, calls, crashes>>

-----------------------------------------------------------------------------
Work(c) ==
  \/ Acquire(c) \/ IoError(c)
  \/ Claim(c) \/ ClaimError(c) \/ GiveUp(c)
  \/ Write(c) \/ SyncAll(c) \/ Rename(c) \/ SyncDir(c) \/ Discard(c)
  \/ Missing(c) \/ Stat(c) \/ Read(c)
  \/ Remove(c) \/ Sweep(c)

Request(c) ==
  \/ Refuse(c)
  \/ \E s \in Slot :
       \/ \E d \in Payload : Begin(c, "save", s, d)
       \/ Begin(c, "load", s, Absent)
       \/ Begin(c, "delete", s, Absent)

Next ==
  \/ \E i \in Instance : Open(i) \/ CrashProcess(i)
  \/ PowerLoss
  \/ \E s \in Slot : WriteBack(s)
  \/ \E c \in Caller : Request(c) \/ Work(c)

Spec == Init /\ [][Next]_vars

(* A thread that can run runs; nobody has to call, crash or write back. *)
FairSpec == Spec /\ \A c \in Caller : WF_vars(Work(c))

-----------------------------------------------------------------------------
(* Every variable keeps its type. *)
TypeOK ==
  /\ pid \in [Instance -> Pid \union {NotRunning}]
  /\ seq \in [Instance -> 0 .. MaxSeq]
  /\ lock \in [Instance -> Caller \union {Free}]
  /\ call \in [Caller -> Call]
  /\ dir \in [Slot -> Entry]
  /\ disk \in [Slot -> Entry]
  /\ temp \in [TempName -> TempFile \union {NoFile}]
  /\ legacy \in SUBSET Slot
  /\ acked \in [Slot -> Nat]
  /\ calls \in 0 .. MaxCalls
  /\ crashes \in 0 .. MaxCrashes

(***************************************************************************)
(* A slot name shows a complete save or nothing, before and after a power  *)
(* loss at any point of any number of concurrent writes ("a torn           *)
(* <slot>.json cannot come out of this writer").                           *)
(***************************************************************************)
SlotsWhole ==
  \A s \in Slot : dir[s].bytes = "synced" /\ disk[s].bytes = "synced"

(***************************************************************************)
(* A save that returned Ok is on the disk until its slot is changed again: *)
(* what a power loss leaves is never older than the last acknowledgement.  *)
(***************************************************************************)
AckedDurable ==
  \A s \in Slot : acked[s] <= disk[s].change

(* The steps of write_atomic between create_new and the end of the temp. *)
Writing(c) == call[c].step \in {"write", "sync", "rename", "discard"}

(***************************************************************************)
(* No two writes in flight, in whichever process and whatever pids were    *)
(* reused, share a temp, and the bytes in a write's temp are its own.      *)
(***************************************************************************)
TempsOwned ==
  \A c \in Caller : Writing(c) =>
    /\ temp[call[c].tmp].data = call[c].data
    /\ \A b \in Caller \ {c} : Writing(b) => call[b].tmp # call[c].tmp

(***************************************************************************)
(* A temp file is changed or removed by the write that made it, or lost    *)
(* with the power: "foreign temps are left alone".                         *)
(***************************************************************************)
TouchesOwnTemps ==
  \A t \in TempName :
    (temp[t] # NoFile /\ temp'[t] # temp[t]) =>
      \/ \E c \in Caller : Writing(c) /\ call[c].tmp = t
      \/ \A i \in Instance : pid'[i] = NotRunning

ForeignTempsKept == [][TouchesOwnTemps]_vars

(***************************************************************************)
(* Every call returns, however the file operations fail, however many temp *)
(* names are taken and whoever holds the mutex.  std's mutex is not fair,  *)
(* so this rests on the finitely many calls of a behaviour (MaxCalls).     *)
(***************************************************************************)
CallsReturn ==
  \A c \in Caller : ~At(c, "idle") ~> At(c, "idle")

(* Past the mutex and not yet returned. *)
Inside(c) == call[c].step \notin {"idle", "lock"}

(***************************************************************************)
(* Inner::lock serialises the calls of a process: the mutex is held        *)
(* exactly by the thread that is inside, one of its own process, and no    *)
(* way out of a call, nor a crash, leaves it held.                         *)
(***************************************************************************)
MutexHeld ==
  /\ \A c \in Caller : Inside(c) => lock[InstanceOf[c]] = c
  /\ \A i \in Instance :
       lock[i] # Free => InstanceOf[lock[i]] = i /\ Inside(lock[i])

(***************************************************************************)
(* Whoever is in a call, some thread of that process can take its next     *)
(* step: the mutex is free for one that waits, and the bound on the temp   *)
(* names drawn never stops one that claims.                                *)
(***************************************************************************)
CanGoOn(c) ==
  /\ ~At(c, "idle")
  /\ At(c, "lock") => lock[InstanceOf[c]] = Free
  /\ (At(c, "claim") /\ call[c].tries < ATTEMPTS) => seq[InstanceOf[c]] < MaxSeq

CallsGoOn ==
  \A c \in Caller : ~At(c, "idle") =>
    \E b \in Caller : InstanceOf[b] = InstanceOf[c] /\ CanGoOn(b)

(***************************************************************************)
(* A call comes nearer to its return with each of its steps, and nothing   *)
(* anybody else does sends it back: it returns after ATTEMPTS + 7 steps of *)
(* its own at most, however often a temp name is taken.                    *)
(***************************************************************************)
StepsLeft ==
  [idle |-> 0, lock |-> 7, claim |-> 6, write |-> 5, sync |-> 4, rename |-> 3,
   syncDir |-> 2, discard |-> 1, stat |-> 2, read |-> 1, remove |-> 2, sweep |-> 1]

Rank(c) ==
  StepsLeft[call[c].step]
    + IF call[c].step \in {"lock", "claim"} THEN ATTEMPTS - call[c].tries ELSE 0

Nearer ==
  \A c \in Caller :
    /\ Work(c) => Rank(c)' < Rank(c)
    /\ ~At(c, "idle") => Rank(c)' <= Rank(c)

CallsAdvance == [][Nearer]_vars

(***************************************************************************)
(* The directory, the temps and the locks together behave as registers     *)
(* that change in one step.  A call has taken effect once its rename or    *)
(* its remove_file is behind it.                                           *)
(***************************************************************************)
Contents(e) == IF e.bytes = "synced" THEN e.data ELSE "torn"

Reply(c) ==
  IF At(c, "idle")
    THEN [told |-> call[c].result, data |-> call[c].data]
    ELSE [told |-> "pending", op |-> call[c].op, slot |-> call[c].slot,
          data |-> call[c].data, done |-> call[c].step \in {"syncDir", "sweep"}]

Register == INSTANCE SlotRegister WITH
  value <- [s \in Slot |-> Contents(dir[s])],
  stable <- [s \in Slot |-> Contents(disk[s])],
  reply <- [c \in Caller |-> Reply(c)]

(***************************************************************************)
(* The store keeps every promise of SlotRegister.  Each call changes its   *)
(* own slot at most once, in one step, and to its own payload; Ok means    *)
(* that it did, and of a save that it is durable; a failed write leaves    *)
(* the previous save ("failures before rename leave the prior slot         *)
(* untouched"); a load answers with what its own slot holds at that        *)
(* moment, whoever replaced it meanwhile.                                  *)
(***************************************************************************)
RegisterKept == Register!Spec
=============================================================================
