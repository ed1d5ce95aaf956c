--------------------------- MODULE AppShell_proofs ---------------------------
(* Proofs about AppShell, for every number of slots, changes and workers.    *)
EXTENDS AppShell, SequenceTheorems, TLAPS

Worker == [open : BOOLEAN, world : World \union {Absent}]

(* What the shell knows while an operation is at a step: it is the code's    *)
(* control flow, read as facts about the state it leaves behind.             *)
OpReady ==
  /\ op.step \in {"idle", "reading", "deleting"} => op.worker = 0
  /\ op.step # "idle" => message = "none"
  /\ op.step \in {"reading", "deleting", "building"} => op.slot \in Slots
  /\ op.step = "reading" => op.kind = "load"
  /\ op.step = "building" =>
       /\ op.kind \in {"create", "load"}
       /\ op.worker # 0 /\ op.worker # client
       /\ disk[op.slot] # Deleted
       /\ op.kind = "load" => op.contents \in World /\ disk[op.slot] = op.contents
  /\ op.step \in {"moving", "serializing", "writing", "noting"} =>
       op.worker = client /\ view # Absent
  /\ op.step = "moving" => view.moves < MaxMoves
  /\ op.step = "writing" =>
       op.slot = slot /\ op.contents = IF op.notice THEN Noticed(view) ELSE view
  /\ op.step = "noting" => disk[slot] = Noticed(view)

(* The world on screen is the client's, and belongs to the current slot.     *)
GameShown ==
  view # Absent =>
    /\ client # 0 /\ workers[client].world = view
    /\ view.game = slot /\ disk[slot] # Deleted
    /\ view.noticed <= view.moves + 1

(* Notices never run ahead of the changes they record.                       *)
DiskSane ==
  \A s \in Slots : disk[s] \in World =>
    disk[s].game = s /\ disk[s].noticed <= disk[s].moves + 1

IInv ==
  /\ TypeOK /\ OpReady /\ GameShown /\ DiskSane
  /\ SavedMeansSaved /\ NoStrayWorkers

USE ShellAssumption, AbsentAssumption

-----------------------------------------------------------------------------
(* Sequences of workers. *)

LEMMA WorkersSeq ==
  ASSUME TypeOK
  PROVE  /\ workers \in Seq(Worker) /\ Len(workers) \in Nat
         /\ DOMAIN workers = 1 .. Len(workers)
         /\ \A n \in 1 .. Len(workers) : workers[n] \in Worker
<1>1. workers \in Seq(Worker)
  BY DEF TypeOK, Worker
<1> QED BY <1>1, LenProperties, ElementOfSeq

LEMMA PutSeq ==
  ASSUME NEW w \in Seq(Worker), NEW n \in 1 .. Len(w), NEW e \in Worker
  PROVE  /\ [w EXCEPT ![n] = e] \in Seq(Worker)
         /\ Len([w EXCEPT ![n] = e]) = Len(w)
         /\ DOMAIN [w EXCEPT ![n] = e] = 1 .. Len(w)
         /\ \A m \in 1 .. Len(w) : [w EXCEPT ![n] = e][m] = IF m = n THEN e ELSE w[m]
<1>1. [w EXCEPT ![n] = e] \in Seq(Worker)
  BY ExceptSeq
<1> QED BY <1>1, ExceptSeq, LenProperties

LEMMA CloseKeeps ==
  ASSUME TypeOK, NEW n \in 0 .. Len(workers)
  PROVE  /\ Close(n) \in Seq(Worker)
         /\ Len(Close(n)) = Len(workers)
         /\ DOMAIN Close(n) = 1 .. Len(workers)
         /\ \A m \in 1 .. Len(workers) :
              /\ Close(n)[m].world = workers[m].world
              /\ Close(n)[m].open <=> (m # n /\ workers[m].open)
              /\ Close(n)[m] \in Worker
<1> USE WorkersSeq
<1>1. CASE n = 0
  BY <1>1 DEF Close, Worker
<1>2. CASE n # 0
  <2> DEFINE e == [workers[n] EXCEPT !.open = FALSE]
  <2>0. n \in 1 .. Len(workers) /\ workers[n] \in Worker
    BY <1>2
  <2>1. n \in 1 .. Len(workers) /\ e \in Worker
    BY <2>0 DEF Worker
  <2>2. Close(n) = [workers EXCEPT ![n] = e]
    BY <1>2 DEF Close
  <2>3. e.world = workers[n].world /\ e.open = FALSE
    BY <2>1 DEF Worker
  <2> HIDE DEF e
  <2> QED BY <2>1, <2>2, <2>3, PutSeq DEF Worker
<1> QED BY <1>1, <1>2

LEMMA PutKeeps ==
  ASSUME TypeOK, NEW n \in 1 .. Len(workers), NEW world \in World
  PROVE  /\ Put(n, world) \in Seq(Worker)
         /\ Len(Put(n, world)) = Len(workers)
         /\ DOMAIN Put(n, world) = 1 .. Len(workers)
         /\ Put(n, world)[n].world = world
         /\ \A m \in 1 .. Len(workers) : Put(n, world)[m].open = workers[m].open
<1> USE WorkersSeq
<1> DEFINE e == [workers[n] EXCEPT !.world = world]
<1>1. e \in Worker /\ e.world = world /\ e.open = workers[n].open
  BY DEF Worker
<1>2. Put(n, world) = [workers EXCEPT ![n] = e]
  BY DEF Put
<1> HIDE DEF e
<1> QED BY <1>1, <1>2, PutSeq

LEMMA NewWorkerKeeps ==
  ASSUME TypeOK
  PROVE  /\ NewWorker(Absent) \in Seq(Worker)
         /\ Len(NewWorker(Absent)) = Len(workers) + 1
         /\ DOMAIN NewWorker(Absent) = 1 .. Len(workers) + 1
         /\ \A n \in 1 .. Len(workers) : NewWorker(Absent)[n] = workers[n]
         /\ NewWorker(Absent)[Len(workers) + 1] = [open |-> TRUE, world |-> Absent]
<1>1. [open |-> TRUE, world |-> Absent] \in Worker
  BY DEF Worker
<1>2. NewWorker(Absent) \in Seq(Worker)
  BY <1>1, WorkersSeq, AppendProperties DEF NewWorker
<1> QED BY <1>1, <1>2, WorkersSeq, AppendProperties, LenProperties DEF NewWorker

LEMMA AllClosed ==
  ASSUME TypeOK
  PROVE  LET closed == [n \in DOMAIN workers |-> [workers[n] EXCEPT !.open = FALSE]]
         IN  /\ closed \in Seq(Worker) /\ Len(closed) = Len(workers)
             /\ \A n \in 1 .. Len(workers) : closed[n].open = FALSE
<1> DEFINE closed == [n \in DOMAIN workers |-> [workers[n] EXCEPT !.open = FALSE]]
<1>1. /\ closed \in [1 .. Len(workers) -> Worker]
      /\ \A n \in 1 .. Len(workers) : closed[n].open = FALSE
  BY WorkersSeq DEF Worker
<1> HIDE DEF closed
<1>2. closed \in Seq(Worker)
  BY <1>1, WorkersSeq, SeqDef
<1>3. Len(closed) = Len(workers)
  BY <1>1, <1>2, WorkersSeq, LenProperties
<1> QED BY <1>1, <1>2, <1>3 DEF closed

LEMMA InitIInv == Init => IInv
<1> SUFFICES ASSUME Init PROVE IInv
  OBVIOUS
<1>1. [open |-> TRUE, world |-> Absent] \in Worker
  BY DEF Worker
<1>2. workers \in Seq(Worker) /\ Len(workers) = 1 /\ DOMAIN workers = 1 .. 1
  BY <1>1 DEF Init
<1>3. TypeOK
  <2>1. op \in [kind : Kinds, step : Steps, worker : 0 .. Len(workers),
                slot : Slots \cup {NoSlot}, contents : World \cup {Absent},
                notice : BOOLEAN]
    BY <1>2 DEF Init, Idle, Kinds, Steps
  <2>2. disk \in [Slots -> World \cup {Absent, Deleted}]
    BY DEF Init
  <2>3. client \in 0 .. Len(workers) /\ view \in World \cup {Absent}
    BY <1>2 DEF Init
  <2> HIDE <1>1
  <2> QED BY <1>2, <2>1, <2>2, <2>3, Zenon DEF Init, TypeOK, Worker
<1>4. OpReady /\ GameShown /\ DiskSane
  BY <1>3 DEF Init, OpReady, GameShown, DiskSane, Idle
<1>5. SavedMeansSaved /\ NoStrayWorkers
  BY <1>2, <1>3 DEF Init, SavedMeansSaved, NoStrayWorkers, Idle
<1> QED BY <1>3, <1>4, <1>5 DEF IInv

-----------------------------------------------------------------------------
(* The player. *)

LEMMA StartedOp ==
  ASSUME NEW kind, NEW step, NEW n, NEW s, NEW notice, Start(kind, step, n, s, notice)
  PROVE  /\ op.step = "idle" /\ op.worker = 0 /\ message' = "none"
         /\ op' = [kind |-> kind, step |-> step, worker |-> n, slot |-> s,
                   contents |-> Absent, notice |-> notice]
BY DEF Start, Idle

LEMMA StartKeeps ==
  ASSUME IInv, NEW kind \in Kinds, NEW step \in Steps, NEW n, NEW s \in Slots \union {NoSlot},
         NEW notice \in BOOLEAN, Start(kind, step, n, s, notice),
         UNCHANGED <<workers, shell, disk>>, away' \in BOOLEAN,
         \/ step = "reading" /\ kind = "load" /\ n = 0 /\ s \in Slots
         \/ step = "deleting" /\ n = 0 /\ s \in Slots
         \/ step = "serializing" /\ n = client /\ view # Absent
         \/ step = "moving" /\ n = client /\ view # Absent /\ view.moves < MaxMoves
  PROVE  IInv'
<1> USE StartedOp DEF IInv, shell
<1>1. TypeOK'
  BY DEF TypeOK
<1>2. OpReady'
  BY DEF TypeOK, OpReady
<1>3. GameShown' /\ DiskSane' /\ SavedMeansSaved'
  BY DEF GameShown, DiskSane, SavedMeansSaved
<1>4. NoStrayWorkers'
  BY WorkersSeq DEF NoStrayWorkers
<1> QED BY <1>1, <1>2, <1>3, <1>4

LEMMA PlayerStartsKeep ==
  ASSUME IInv,
         \/ \E s \in Slots : Load(s) \/ Delete(s)
         \/ Save \/ \E notice \in BOOLEAN : Move(notice)
  PROVE  IInv'
<1> USE DEF Kinds, Steps, IInv, TypeOK, Playing
<1>1. ASSUME NEW s \in Slots, Load(s) PROVE IInv'
  BY <1>1, StartKeeps DEF Load
<1>2. ASSUME NEW s \in Slots, Delete(s) PROVE IInv'
  BY <1>2, StartKeeps DEF Delete
<1>3. CASE Save
  BY <1>3, StartKeeps DEF Save
<1>4. CASE Move(TRUE)
  BY <1>4, StartKeeps DEF Move
<1>5. CASE Move(FALSE)
  BY <1>5, StartKeeps DEF Move
<1> QED BY <1>1, <1>2, <1>3, <1>4, <1>5

LEMMA ExitKeeps ==
  ASSUME IInv, Exit
  PROVE  IInv'
<1>1. CASE Live(client)
  BY <1>1, StartKeeps DEF Exit, Playing, Kinds, Steps, IInv, TypeOK
<1>2. CASE ~ Live(client)
  BY <1>2 DEF Exit, IInv, TypeOK, OpReady, GameShown, DiskSane, SavedMeansSaved,
              NoStrayWorkers
<1> QED BY <1>1, <1>2

LEMMA ScreensKeep ==
  ASSUME IInv, ReturnToGame \/ ComeBack
  PROVE  IInv'
BY DEF IInv, TypeOK, OpReady, GameShown, DiskSane, SavedMeansSaved, NoStrayWorkers,
       ReturnToGame, ComeBack, shell

LEMMA SignInKeeps ==
  ASSUME IInv, SignIn
  PROVE  IInv'
<1>1. CASE op = Idle
  BY <1>1, StartKeeps DEF SignIn, Kinds, Steps, IInv, TypeOK
<1>2. CASE op # Idle
  BY <1>2 DEF SignIn, shell, IInv, TypeOK, OpReady, GameShown, DiskSane, SavedMeansSaved,
              NoStrayWorkers
<1> QED BY <1>1, <1>2

LEMMA CreateKeeps ==
  ASSUME IInv, NEW s \in Slots, Create(s)
  PROVE  IInv'
<1>1. op' = [kind |-> "create", step |-> "building", worker |-> Len(workers) + 1,
             slot |-> s, contents |-> Absent, notice |-> TRUE]
      /\ op.worker = 0 /\ message' = "none"
  BY StartedOp DEF Create
<1>2. workers' \in Seq(Worker) /\ DOMAIN workers' = 1 .. Len(workers) + 1
      /\ Len(workers') = Len(workers) + 1
      /\ \A n \in 1 .. Len(workers) : workers'[n] = workers[n]
  BY NewWorkerKeeps DEF Create, IInv
<1>3. disk[s] = Absent
  BY DEF Create, Minted
<1> USE <1>1, <1>2, <1>3, WorkersSeq DEF IInv, Create, shell
<1>4. TypeOK'
  BY DEF TypeOK, Kinds, Steps, Worker
<1>5. OpReady' 
  BY DEF TypeOK, OpReady
<1>6. GameShown' /\ DiskSane'
  BY DEF TypeOK, GameShown, DiskSane
<1>7. SavedMeansSaved' 
  BY DEF TypeOK, SavedMeansSaved
<1>8. NoStrayWorkers'
  BY DEF TypeOK, NoStrayWorkers
<1> QED BY <1>4, <1>5, <1>6, <1>7, <1>8

-----------------------------------------------------------------------------
(* Workers that stop, and operations that fail. *)

LEMMA ClosingKeeps ==
  ASSUME IInv, NEW n \in 0 .. Len(workers), workers' = Close(n),
         UNCHANGED <<shell, message, op, disk, away>>
  PROVE  IInv'
<1> USE CloseKeeps, WorkersSeq DEF IInv, shell
<1>1. TypeOK'
  BY DEF TypeOK, Worker
<1>2. OpReady' /\ GameShown' /\ DiskSane' /\ SavedMeansSaved'
  BY DEF TypeOK, OpReady, GameShown, DiskSane, SavedMeansSaved
<1>3. NoStrayWorkers'
  BY DEF NoStrayWorkers
<1> QED BY <1>1, <1>2, <1>3

LEMMA TimersKeep ==
  ASSUME IInv, TimedOut \/ \E n \in DOMAIN workers : WorkerFails(n)
  PROVE  IInv'
<1>1. CASE TimedOut
  BY <1>1, ClosingKeeps DEF TimedOut, IInv, TypeOK
<1>2. ASSUME NEW n \in DOMAIN workers, WorkerFails(n) PROVE IInv'
  <2>1. n \in 0 .. Len(workers)
    BY WorkersSeq DEF IInv
  <2> QED BY <1>2, <2>1, ClosingKeeps DEF WorkerFails
<1> QED BY <1>1, <1>2

LEMMA IdleOp ==
  /\ Idle.step = "idle" /\ Idle.worker = 0
  /\ \A W \in Nat : Idle \in [kind : Kinds, step : Steps, worker : 0 .. W,
                              slot : Slots \cup {NoSlot}, contents : World \cup {Absent},
                              notice : BOOLEAN]
BY DEF Idle, Kinds, Steps

LEMMA FailKeeps ==
  ASSUME IInv, op.step # "idle", Fail
  PROVE  IInv'
<1> USE CloseKeeps, WorkersSeq, IdleOp DEF IInv, Fail, Finish
<1>1. TypeOK'
  BY DEF TypeOK, Worker
<1>2. OpReady' /\ GameShown' /\ DiskSane' /\ SavedMeansSaved'
  BY DEF TypeOK, OpReady, GameShown, DiskSane, SavedMeansSaved
<1>3. NoStrayWorkers'
  BY DEF TypeOK, OpReady, NoStrayWorkers, Steps
<1> QED BY <1>1, <1>2, <1>3

-----------------------------------------------------------------------------
(* The worker answers. *)

LEMMA FinishedOp ==
  ASSUME Finish, TypeOK
  PROVE  op' = Idle /\ op'.step = "idle" /\ op'.worker = 0 /\ away' \in BOOLEAN
BY IdleOp DEF Finish, TypeOK

LEMMA ThenOp ==
  ASSUME TypeOK, NEW step, Then(step)
  PROVE  /\ op'.step = step /\ op'.worker = op.worker /\ op'.slot = op.slot
         /\ op'.contents = op.contents /\ op'.notice = op.notice /\ op'.kind = op.kind
         /\ step \in Steps => op' \in [kind : Kinds, step : Steps, worker : 0 .. Len(workers),
               slot : Slots \cup {NoSlot}, contents : World \cup {Absent}, notice : BOOLEAN]
BY DEF Then, TypeOK

LEMMA NoticedWorld ==
  ASSUME NEW w \in World, w.moves + 1 \in Nat
  PROVE  Noticed(w) \in World /\ Noticed(w).game = w.game /\ Noticed(w).moves = w.moves
         /\ Noticed(w).noticed = w.moves + 1
BY DEF Noticed, World

LEMMA NewWorldIsItsGame ==
  ASSUME IInv, op.step = "building"
  PROVE  /\ NewWorld \in World /\ NewWorld.game = op.slot
         /\ NewWorld.noticed <= NewWorld.moves + 1
         /\ NewWorld.noticed # Never =>
              disk[op.slot] \in World /\ disk[op.slot].moves + 1 >= NewWorld.noticed
         /\ NewWorld # Absent
BY DEF IInv, TypeOK, OpReady, DiskSane, NewWorld, World, Never

LEMMA ReplaceKeeps ==
  ASSUME IInv, Replace
  PROVE  IInv'
<1> DEFINE c == Close(client)
<1> DEFINE e == [c[op.worker] EXCEPT !.world = NewWorld]
<1> USE DEF IInv
<1>1. /\ op.worker \in 1 .. Len(workers) /\ workers[op.worker].open
      /\ op.step = "building" /\ op.worker # client
  BY DEF Replace, Answered, Live, OpReady, TypeOK
<1>2. /\ c \in Seq(Worker) /\ Len(c) = Len(workers)
      /\ \A n \in 1 .. Len(workers) : c[n].open <=> (n # client /\ workers[n].open)
      /\ c[op.worker] \in Worker
  BY <1>1, CloseKeeps DEF TypeOK
<1>3. e \in Worker /\ e.world = NewWorld /\ (e.open <=> workers[op.worker].open)
  BY <1>1, <1>2, NewWorldIsItsGame DEF Worker
<1>4. workers' = [c EXCEPT ![op.worker] = e]
  BY DEF Replace
<1> HIDE DEF c, e
<1>5. /\ workers' \in Seq(Worker) /\ DOMAIN workers' = 1 .. Len(workers)
      /\ Len(workers') = Len(workers)
      /\ workers'[op.worker].world = NewWorld
      /\ \A n \in 1 .. Len(workers) :
           workers'[n].open <=> (n # client /\ workers[n].open)
  BY <1>1, <1>2, <1>3, <1>4, PutSeq
<1> USE <1>1, <1>5, NewWorldIsItsGame, FinishedOp, ThenOp, IdleOp
<1>6. TypeOK'
  BY DEF Replace, TypeOK, OpReady, Worker, Steps
<1>7. OpReady'
  BY DEF Replace, TypeOK, OpReady
<1>8. GameShown' /\ DiskSane' /\ SavedMeansSaved'
  BY DEF Replace, TypeOK, OpReady, GameShown, DiskSane, SavedMeansSaved
<1>9. NoStrayWorkers'
  BY DEF Replace, TypeOK, NoStrayWorkers
<1> QED BY <1>6, <1>7, <1>8, <1>9

LEMMA MovedKeeps ==
  ASSUME IInv, Moved
  PROVE  IInv'
<1> USE DEF IInv
<1> DEFINE world == [view EXCEPT !.moves = @ + 1]
<1>1. /\ op.worker = client /\ client \in 1 .. Len(workers) /\ op.step = "moving"
      /\ view \in World /\ view # Absent /\ workers[client].world = view
  BY DEF Moved, Answered, Live, TypeOK, OpReady, GameShown
<1>2. /\ world \in World /\ world.game = view.game /\ world.moves = view.moves + 1
      /\ world.noticed = view.noticed /\ view.moves \in Nat
      /\ view.noticed \in Nat
  BY <1>1 DEF World, OpReady
<1>3. workers' = Put(client, world) /\ view' = world
  BY <1>1 DEF Moved
<1>3a. /\ op'.step = "serializing" /\ op'.worker = client
       /\ op' \in [kind : Kinds, step : Steps, worker : 0 .. Len(workers),
               slot : Slots \cup {NoSlot}, contents : World \cup {Absent}, notice : BOOLEAN]
       /\ UNCHANGED <<client, slot, screen, message, disk, away>>
  BY <1>1, ThenOp DEF Moved, Steps
<1> HIDE DEF world
<1>3b. /\ workers' \in Seq(Worker) /\ Len(workers') = Len(workers)
       /\ DOMAIN workers' = DOMAIN workers
       /\ workers'[client].world = world
       /\ \A m \in DOMAIN workers : workers'[m].open = workers[m].open
  BY <1>1, <1>2, <1>3, PutKeeps, WorkersSeq
<1> USE <1>1, <1>2, <1>3, <1>3a, <1>3b, AbsentAssumption
<1>4. TypeOK'
  BY DEF TypeOK, Worker, Steps
<1>5. OpReady' /\ GameShown' /\ DiskSane' /\ SavedMeansSaved'
  BY DEF TypeOK, OpReady, GameShown, DiskSane, SavedMeansSaved
<1>6. NoStrayWorkers'
  BY DEF TypeOK, NoStrayWorkers
<1> QED BY <1>4, <1>5, <1>6

LEMMA SerializedKeeps ==
  ASSUME IInv, Serialized
  PROVE  IInv'
<1> USE DEF IInv
<1>1. /\ op.worker = client /\ client \in 1 .. Len(workers) /\ op.step = "serializing"
      /\ view \in World /\ view # Absent /\ workers[client].world = view
  BY DEF Serialized, Answered, Live, TypeOK, OpReady, GameShown
<1>2. Noticed(view) \in World
  BY <1>1, NoticedWorld DEF World
<1>3. /\ op'.step = "writing" /\ op'.worker = client /\ op'.slot = slot
      /\ op'.contents = IF op.notice THEN Noticed(view) ELSE view
      /\ op'.notice = op.notice
      /\ op' \in [kind : Kinds, step : Steps, worker : 0 .. Len(workers),
               slot : Slots \cup {NoSlot}, contents : World \cup {Absent}, notice : BOOLEAN]
  BY <1>1, <1>2 DEF Serialized, TypeOK, Steps
<1> USE <1>1, <1>2, <1>3 DEF shell
<1>4. TypeOK'
  BY DEF Serialized, TypeOK
<1>5. OpReady' /\ GameShown' /\ DiskSane' /\ SavedMeansSaved'
  BY DEF Serialized, TypeOK, OpReady, GameShown, DiskSane, SavedMeansSaved
<1>6. NoStrayWorkers'
  BY DEF Serialized, TypeOK, NoStrayWorkers
<1> QED BY <1>4, <1>5, <1>6

LEMMA NotedKeeps ==
  ASSUME IInv, Noted
  PROVE  IInv'
<1> USE DEF IInv
<1>1. /\ op.worker = client /\ client \in 1 .. Len(workers) /\ op.step = "noting"
      /\ view \in World /\ view # Absent /\ workers[client].world = view
      /\ disk[slot] = Noticed(view) /\ slot \in Slots
  BY DEF Noted, Answered, Live, TypeOK, OpReady, GameShown, World
<1>2. /\ Noticed(view) \in World /\ Noticed(view).game = view.game
      /\ Noticed(view).moves = view.moves /\ Noticed(view).noticed = view.moves + 1
      /\ view.moves \in Nat
  BY <1>1, NoticedWorld DEF World
<1>3. workers' = Put(client, Noticed(view)) /\ view' = Noticed(view)
  BY <1>1 DEF Noted
<1>3a. /\ workers' \in Seq(Worker) /\ Len(workers') = Len(workers)
       /\ DOMAIN workers' = DOMAIN workers
       /\ workers'[client].world = Noticed(view)
       /\ \A m \in DOMAIN workers : workers'[m].open = workers[m].open
  BY <1>1, <1>2, <1>3, PutKeeps, WorkersSeq
<1> USE <1>1, <1>2, <1>3, <1>3a, FinishedOp, IdleOp
<1>4. TypeOK'
  BY DEF Noted, Saved, TypeOK, Worker
<1>5. OpReady' /\ GameShown' /\ DiskSane' /\ SavedMeansSaved'
  BY DEF Noted, Saved, TypeOK, OpReady, GameShown, DiskSane, SavedMeansSaved
<1>6. NoStrayWorkers'
  BY DEF Noted, Saved, NoStrayWorkers
<1> QED BY <1>4, <1>5, <1>6

LEMMA RefusalsKeep ==
  ASSUME IInv, Refused \/ CallRejected
  PROVE  IInv'
BY FailKeeps DEF Refused, CallRejected, Awaiting

-----------------------------------------------------------------------------
(* The store answers. *)

LEMMA ReadKeeps ==
  ASSUME IInv, Read
  PROVE  IInv'
<1> USE DEF IInv
<1>1. /\ op.step = "reading" /\ op.slot \in Slots /\ disk[op.slot] \in World
      /\ op.worker = 0 /\ op.kind = "load"
  BY DEF Read, OpReady
<1>2. /\ op'.step = "building" /\ op'.worker = Len(workers) + 1 /\ op'.slot = op.slot
      /\ op'.kind = "load" /\ op'.contents = disk[op.slot]
      /\ op' \in [kind : Kinds, step : Steps, worker : 0 .. Len(workers) + 1,
               slot : Slots \cup {NoSlot}, contents : World \cup {Absent}, notice : BOOLEAN]
  <2>1. op' = [op EXCEPT !.step = "building", !.worker = Len(workers) + 1,
                         !.contents = disk[op.slot]]
    BY DEF Read
  <2>2. "building" \in Steps /\ Len(workers) + 1 \in 0 .. Len(workers) + 1
        /\ 0 .. Len(workers) \subseteq 0 .. Len(workers) + 1
    BY WorkersSeq DEF Steps
  <2>3. op \in [kind : Kinds, step : Steps, worker : 0 .. Len(workers) + 1,
               slot : Slots \cup {NoSlot}, contents : World \cup {Absent}, notice : BOOLEAN]
    BY <2>2 DEF TypeOK
  <2> QED BY <1>1, <2>1, <2>2, <2>3
<1>3. /\ workers' \in Seq(Worker) /\ DOMAIN workers' = 1 .. Len(workers) + 1
      /\ Len(workers') = Len(workers) + 1
      /\ \A n \in 1 .. Len(workers) : workers'[n] = workers[n]
  BY NewWorkerKeeps DEF Read
<1> USE <1>1, <1>2, <1>3, WorkersSeq DEF Read, shell
<1>4. TypeOK'
  BY DEF TypeOK, Worker
<1>5. OpReady' /\ GameShown' /\ DiskSane' /\ SavedMeansSaved'
  BY DEF TypeOK, OpReady, GameShown, DiskSane, SavedMeansSaved
<1>6. NoStrayWorkers'
  BY DEF TypeOK, NoStrayWorkers
<1> QED BY <1>4, <1>5, <1>6

(* What is written is the world on screen, with or without its notice.       *)
LEMMA WritingView ==
  ASSUME IInv, op.step = "writing"
  PROVE  /\ op.slot = slot /\ slot \in Slots /\ view \in World /\ view # Absent
         /\ op.contents \in World /\ op.contents.game = slot
         /\ op.contents.moves = view.moves /\ op.worker = client
         /\ op.contents = (IF op.notice THEN Noticed(view) ELSE view)
         /\ op.contents.noticed <= op.contents.moves + 1
         /\ view.noticed <= op.contents.moves + 1
         /\ view.moves \in Nat /\ disk[slot] # Deleted
<1>1. view \in World /\ view # Absent /\ view.game = slot /\ slot \in Slots
      /\ view.moves \in Nat /\ view.noticed <= view.moves + 1
  BY DEF IInv, TypeOK, OpReady, GameShown, World
<1>2. Noticed(view).game = slot /\ Noticed(view).moves = view.moves
      /\ Noticed(view).noticed = view.moves + 1 /\ Noticed(view) \in World
  BY <1>1, NoticedWorld
<1> QED BY <1>1, <1>2 DEF IInv, OpReady, GameShown

(* Writing it keeps the disk as the shell relies on it.                      *)
LEMMA WritingKeepsDisk ==
  ASSUME IInv, op.step = "writing", disk' = [disk EXCEPT ![op.slot] = op.contents]
  PROVE  /\ disk' \in [Slots -> World \cup {Absent, Deleted}]
         /\ disk'[slot] = op.contents /\ disk'[slot] # Deleted
         /\ \A s \in Slots : s # slot => disk'[s] = disk[s]
         /\ DiskSane'
<1>1. disk' \in [Slots -> World \cup {Absent, Deleted}]
  BY WritingView DEF IInv, TypeOK
<1>2. disk'[slot] = op.contents /\ \A s \in Slots : s # slot => disk'[s] = disk[s]
  BY WritingView DEF IInv, TypeOK
<1> QED BY <1>1, <1>2, WritingView DEF IInv, DiskSane

LEMMA WrittenKeeps ==
  ASSUME IInv, Written
  PROVE  IInv'
<1> USE WritingView, WritingKeepsDisk DEF IInv, Written
<1>1. CASE op.notice
  <2>1. /\ op'.step = "noting" /\ op'.worker = client
        /\ op' \in [kind : Kinds, step : Steps, worker : 0 .. Len(workers),
               slot : Slots \cup {NoSlot}, contents : World \cup {Absent}, notice : BOOLEAN]
    BY <1>1, ThenOp DEF Steps
  <2>2. TypeOK'
    BY <1>1, <2>1 DEF TypeOK
  <2>3. OpReady' /\ GameShown' /\ SavedMeansSaved'
    BY <1>1, <2>1 DEF OpReady, GameShown, SavedMeansSaved, TypeOK
  <2>4. NoStrayWorkers'
    BY <1>1, <2>1 DEF NoStrayWorkers
  <2> QED BY <2>2, <2>3, <2>4
<1>2. CASE ~ op.notice
  <2> USE FinishedOp, IdleOp, WorkersSeq DEF Saved
  <2>1. TypeOK'
    BY <1>2 DEF TypeOK
  <2>2. OpReady' /\ GameShown' /\ SavedMeansSaved'
    BY <1>2 DEF OpReady, GameShown, SavedMeansSaved, TypeOK
  <2>3. NoStrayWorkers'
    BY <1>2 DEF NoStrayWorkers
  <2> QED BY <2>1, <2>2, <2>3
<1> QED BY <1>1, <1>2

LEMMA RemovedKeeps ==
  ASSUME IInv, Removed
  PROVE  IInv'
<1> USE DEF IInv
<1>1. /\ op.slot \in Slots /\ op.worker = 0 /\ op' = Idle /\ away' \in BOOLEAN
      /\ message' = "deleted" /\ op'.step = "idle" /\ op'.worker = 0
      /\ disk' \in [Slots -> World \cup {Absent, Deleted}]
      /\ disk'[op.slot] = Deleted
      /\ \A s \in Slots : s # op.slot => disk'[s] = disk[s]
  BY FinishedOp DEF Removed, OpReady, TypeOK
<1>2. DiskSane'
  BY <1>1 DEF DiskSane
<1>3. CASE slot = op.slot
  <2>1. /\ workers' = Close(client) /\ client' = 0
        /\ slot' = NoSlot /\ view' = Absent /\ screen' = "home"
    BY <1>3 DEF Removed
  <2> USE <1>1, <2>1, CloseKeeps, WorkersSeq, IdleOp
  <2>2. TypeOK'
    BY DEF TypeOK, Worker
  <2>3. OpReady' /\ GameShown' /\ SavedMeansSaved'
    BY DEF OpReady, GameShown, SavedMeansSaved
  <2>4. NoStrayWorkers'
    BY DEF TypeOK, NoStrayWorkers
  <2> QED BY <1>2, <2>2, <2>3, <2>4
<1>4. CASE slot # op.slot
  <2>1. UNCHANGED <<workers, client, slot, view, screen>>
    BY <1>4 DEF Removed, shell
  <2> USE <1>1, <1>4, <2>1, WorkersSeq, IdleOp
  <2>2. TypeOK'
    BY DEF TypeOK
  <2>3. OpReady' /\ GameShown' /\ SavedMeansSaved'
    BY DEF TypeOK, OpReady, GameShown, SavedMeansSaved, World
  <2>4. NoStrayWorkers'
    BY DEF TypeOK, NoStrayWorkers
  <2> QED BY <1>2, <2>2, <2>3, <2>4
<1> QED BY <1>3, <1>4

LEMMA StoreFailsKeeps ==
  ASSUME IInv, StoreFails
  PROVE  IInv'
<1>1. CASE op.step \in {"reading", "deleting", "writing"} /\ Fail
  BY <1>1, FailKeeps
<1>2. CASE /\ op.step = "writing" /\ disk' = [disk EXCEPT ![op.slot] = op.contents]
           /\ Finish /\ UNCHANGED <<workers, shell, message>>
  <2> USE WritingView, WritingKeepsDisk, FinishedOp, IdleOp, WorkersSeq, <1>2 DEF IInv, shell
  <2>1. TypeOK'
    BY DEF TypeOK
  <2>2. OpReady' /\ GameShown' /\ SavedMeansSaved'
    BY DEF OpReady, GameShown, SavedMeansSaved, TypeOK
  <2>3. NoStrayWorkers'
    BY DEF NoStrayWorkers
  <2> QED BY <2>1, <2>2, <2>3
<1> QED BY <1>1, <1>2 DEF StoreFails

LEMMA ReloadKeeps ==
  ASSUME IInv, Reload
  PROVE  IInv'
<1> USE DEF IInv
<1> DEFINE closed == [n \in DOMAIN workers |-> [workers[n] EXCEPT !.open = FALSE]]
<1>1. /\ closed \in Seq(Worker) /\ Len(closed) = Len(workers)
      /\ \A n \in 1 .. Len(workers) : closed[n].open = FALSE
  BY AllClosed
<1>2. [open |-> TRUE, world |-> Absent] \in Worker
  BY DEF Worker
<1>3. workers' = Append(closed, [open |-> TRUE, world |-> Absent])
  BY DEF Reload
<1> HIDE DEF closed
<1>4. /\ workers' \in Seq(Worker) /\ Len(workers') = Len(workers) + 1
      /\ DOMAIN workers' = 1 .. Len(workers) + 1
      /\ \A n \in 1 .. Len(workers) : workers'[n].open = FALSE
  BY <1>1, <1>2, <1>3, AppendProperties, LenProperties
<1>5. /\ client' = Len(workers) + 1 /\ slot' = NoSlot /\ view' = Absent
      /\ screen' = "home" /\ message' = "none" /\ op' = Idle /\ away' = FALSE
  BY DEF Reload
<1>6. disk' \in [Slots -> World \cup {Absent, Deleted}] /\ DiskSane'
  <2>1. CASE UNCHANGED disk
    BY <2>1 DEF TypeOK, DiskSane
  <2>2. CASE op.step = "writing" /\ disk' = [disk EXCEPT ![op.slot] = op.contents]
    BY <2>2, WritingKeepsDisk
  <2>3. CASE op.step = "deleting" /\ disk' = [disk EXCEPT ![op.slot] = Deleted]
    BY <2>3 DEF TypeOK, OpReady, DiskSane
  <2> QED BY <2>1, <2>2, <2>3 DEF Reload
<1> USE <1>4, <1>5, <1>6, WorkersSeq, IdleOp
<1>7. TypeOK'
  <2>1. client' \in 0 .. Len(workers') /\ Len(workers') \in Nat
    OBVIOUS
  <2>2. op' \in [kind : Kinds, step : Steps, worker : 0 .. Len(workers'),
                slot : Slots \cup {NoSlot}, contents : World \cup {Absent},
                notice : BOOLEAN]
    BY <2>1
  <2> QED BY <2>1, <2>2, Zenon DEF TypeOK, Worker
<1>8. OpReady' /\ GameShown' /\ SavedMeansSaved'
  BY DEF OpReady, GameShown, SavedMeansSaved
<1>9. NoStrayWorkers'
  BY DEF NoStrayWorkers
<1> QED BY <1>6, <1>7, <1>8, <1>9

-----------------------------------------------------------------------------
(* The theorems. *)

LEMMA NextIInv == IInv /\ [Next]_vars => IInv'
<1> SUFFICES ASSUME IInv, [Next]_vars PROVE IInv'
  OBVIOUS
<1>1. CASE Player
  <2>1. ASSUME NEW s \in Slots, Create(s) PROVE IInv'
    BY <2>1, CreateKeeps
  <2> QED BY <1>1, <2>1, PlayerStartsKeep, ExitKeeps, ScreensKeep, SignInKeeps DEF Player
<1>2. CASE WorkerAnswers \/ CallRejected
  BY <1>2, ReplaceKeeps, MovedKeeps, SerializedKeeps, NotedKeeps, RefusalsKeep
     DEF WorkerAnswers
<1>3. CASE StoreAnswers
  BY <1>3, ReadKeeps, WrittenKeeps, RemovedKeeps, StoreFailsKeeps DEF StoreAnswers
<1>4. CASE TimedOut \/ \E n \in DOMAIN workers : WorkerFails(n)
  BY <1>4, TimersKeep
<1>5. CASE Reload
  BY <1>5, ReloadKeeps
<1>6. CASE UNCHANGED vars
  BY <1>6 DEF vars, IInv, TypeOK, OpReady, GameShown, DiskSane, SavedMeansSaved,
              NoStrayWorkers
<1> QED BY <1>1, <1>2, <1>3, <1>4, <1>5, <1>6 DEF Next

THEOREM Invariance == Spec => []IInv
BY InitIInv, NextIInv, PTL DEF Spec

(* The state of the shell keeps its shape.                                   *)
THEOREM TypeCorrect == Spec => []TypeOK
BY Invariance, PTL DEF IInv

(* A slot only ever holds its own game, and the game on screen is the one of *)
(* the current slot and of the client's worker.                              *)
THEOREM SlotsRight == Spec => []SlotsHoldTheirGame
<1>1. IInv => SlotsHoldTheirGame
  BY DEF IInv, DiskSane, GameShown, SlotsHoldTheirGame
<1> QED BY <1>1, Invariance, PTL

(* What the shell says is saved, and what the inbox says was, is on disk.    *)
THEOREM SavedIsSaved == Spec => []SavedMeansSaved
BY Invariance, PTL DEF IInv

(* No operation leaves a worker running behind it.                           *)
THEOREM WorkersAccounted == Spec => []NoStrayWorkers
BY Invariance, PTL DEF IInv

(* Nothing the shell still has under way brings back a deleted save.         *)
THEOREM DeletedStays == Spec => DeletedStaysDeleted
<1>1. ASSUME IInv, [Next]_vars
      PROVE  [\A s \in Slots : disk[s] = Deleted => disk'[s] = Deleted]_vars
  <2> SUFFICES ASSUME NEW s \in Slots, disk[s] = Deleted, Next PROVE disk'[s] = Deleted
    BY <1>1
  <2> USE <1>1 DEF IInv
  <2>1. CASE op.step = "writing" /\ disk' = [disk EXCEPT ![op.slot] = op.contents]
    BY <2>1, WritingView, WritingKeepsDisk
  <2>2. CASE op.step = "deleting" /\ disk' = [disk EXCEPT ![op.slot] = Deleted]
    BY <2>2 DEF TypeOK, OpReady
  <2>3. CASE UNCHANGED disk
    BY <2>3
  <2> QED
    BY <2>1, <2>2, <2>3
    DEF Next, Player, Create, Load, Delete, Move, Save, Exit, ReturnToGame, SignIn, ComeBack,
        WorkerAnswers, Replace, Moved, Serialized, Noted, Refused, StoreAnswers, Read,
        Written, Removed, StoreFails, CallRejected, TimedOut, WorkerFails, Reload, Fail
<1> QED BY <1>1, Invariance, PTL DEF Spec, DeletedStaysDeleted

(* The open game is given up only for one that exists, or on purpose.        *)
THEOREM GameKept == Spec => OpenGameKept
<1> DEFINE Kept ==
      view # Absent /\ slot' # slot =>
        \/ slot' # NoSlot /\ view' # Absent /\ view'.game = slot' /\ workers'[client'].open
        \/ slot' = NoSlot /\ (disk'[slot] = Deleted \/ Len(workers') > Len(workers))
<1>1. ASSUME IInv, [Next]_vars PROVE [Kept]_vars
  <2> SUFFICES ASSUME Next, slot' # slot, view # Absent PROVE Kept
    BY <1>1 DEF vars
  <2> USE <1>1 DEF IInv
  <2>1. CASE Replace
    <3>1. /\ op.worker \in 1 .. Len(workers) /\ workers[op.worker].open
          /\ op.step = "building" /\ op.worker # client /\ op.slot \in Slots
      BY <2>1 DEF Replace, Answered, Live, OpReady, TypeOK
    <3>2. /\ Close(client) \in Seq(Worker) /\ Len(Close(client)) = Len(workers)
          /\ Close(client)[op.worker].open /\ Close(client)[op.worker] \in Worker
      BY <3>1, CloseKeeps DEF TypeOK
    <3>3. workers'[op.worker].open
      <4> DEFINE e == [Close(client)[op.worker] EXCEPT !.world = NewWorld]
      <4>1. e \in Worker /\ e.open
        BY <3>1, <3>2, NewWorldIsItsGame DEF Worker
      <4>2. workers' = [Close(client) EXCEPT ![op.worker] = e]
        BY <2>1 DEF Replace
      <4> HIDE DEF e
      <4> QED BY <3>1, <3>2, <4>1, <4>2, PutSeq
    <3>4. /\ slot' = op.slot /\ view' = NewWorld /\ client' = op.worker
      BY <2>1 DEF Replace
    <3> QED BY <3>1, <3>3, <3>4, NewWorldIsItsGame
  <2>2. CASE Removed
    BY <2>2 DEF Removed, shell, TypeOK, OpReady
  <2>3. CASE Reload
    <3>1. Len(workers') = Len(workers) + 1
      <4> DEFINE closed == [n \in DOMAIN workers |-> [workers[n] EXCEPT !.open = FALSE]]
      <4>1. closed \in Seq(Worker) /\ Len(closed) = Len(workers)
        BY AllClosed
      <4>2. workers' = Append(closed, [open |-> TRUE, world |-> Absent])
        BY <2>3 DEF Reload
      <4>3. [open |-> TRUE, world |-> Absent] \in Worker
        BY DEF Worker
      <4> HIDE DEF closed
      <4> QED BY <4>1, <4>2, <4>3, AppendProperties
    <3> QED BY <2>3, <3>1, WorkersSeq DEF Reload
  <2> QED
    BY <2>1, <2>2, <2>3
    DEF Next, Player, Create, Load, Delete, Move, Save, Exit, ReturnToGame, SignIn, ComeBack,
        WorkerAnswers, Moved, Serialized, Noted, Refused, StoreAnswers, Read, Written, Saved,
        StoreFails, CallRejected, TimedOut, WorkerFails, Fail, shell
<1> QED BY <1>1, Invariance, PTL DEF Spec, OpenGameKept

=============================================================================
