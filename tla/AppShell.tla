------------------------------ MODULE AppShell ------------------------------
(***************************************************************************)
(* The single-player shell: App.tsx, the GameClient it talks through       *)
(* (game/client.ts), the worker that holds the world (game/worker.ts,      *)
(* game/session.ts) and the saves on disk.                                 *)
(*                                                                         *)
(* An operation of the shell is a run(): one at a time, in steps that each *)
(* await a worker or the store.  A worker may fail under a call, or not    *)
(* answer for the sixty seconds the client waits; either closes it.  The   *)
(* store is seen through its promise (SlotRegister): a save that is        *)
(* acknowledged is on disk, one that fails may be.                         *)
(*                                                                         *)
(* A world is known by the game it belongs to, how many changes it has     *)
(* seen and the last change its inbox has a "Game saved" notice for.       *)
(* Queries are left out: they change nothing but may fail the worker,      *)
(* which WorkerFails does at any time.                                     *)
(***************************************************************************)
EXTENDS Naturals, Sequences, FiniteSets

CONSTANTS
    Slots,       \* save slots newId() may mint; each also names its game
    NoSlot,      \* slot.current before any game
    Absent,      \* no world, no view, no file
    Deleted,     \* no file any more: the player was told it is deleted
    MaxMoves,    \* bound: changes to one world
    MaxWorkers   \* bound: workers ever started

ASSUME ShellAssumption ==
    /\ NoSlot \notin Slots
    /\ MaxMoves \in Nat /\ MaxWorkers \in Nat \ {0}

VARIABLES
    workers,  \* every worker started: is its client open, the session's world
    client,   \* client.current, as an index of workers; 0 is null
    slot,     \* slot.current
    view,     \* the world React shows
    screen,   \* "home" or "game"
    message,  \* the success line: none, saved or deleted
    op,       \* the operation that holds the run lock
    disk,     \* the save store
    away      \* the sign-in page was opened and the player is not back

shell == <<client, slot, view, screen>>
vars == <<workers, client, slot, view, screen, message, op, disk, away>>

Never == 0
World == [game : Slots, moves : 0 .. MaxMoves, noticed : 0 .. MaxMoves + 1]

ASSUME AbsentAssumption == Absent # Deleted /\ {Absent, Deleted} \cap World = {}

\* Mutant: the notice names the change after the one that was saved.
NoticedAhead(w) == [w EXCEPT !.noticed = w.moves + 2]
\* A notice records that a world of that many changes was saved.
Noticed(w) == [w EXCEPT !.noticed = w.moves + 1]

Kinds == {"none", "create", "load", "move", "save", "exit", "signin", "delete"}
Steps == {"idle", "reading", "building", "moving", "serializing", "writing",
          "noting", "deleting"}
Idle == [kind |-> "none", step |-> "idle", worker |-> 0, slot |-> NoSlot,
         contents |-> Absent, notice |-> FALSE]

Live(n) == n # 0 /\ workers[n].open
Close(n) == IF n = 0 THEN workers ELSE [workers EXCEPT ![n].open = FALSE]
NewWorker(world) == Append(workers, [open |-> TRUE, world |-> world])
Put(n, world) == [workers EXCEPT ![n].world = world]

Init ==
    /\ workers = <<[open |-> TRUE, world |-> Absent]>>
    /\ client = 1 /\ slot = NoSlot /\ view = Absent /\ screen = "home"
    /\ message = "none" /\ op = Idle /\ away = FALSE
    /\ disk = [s \in Slots |-> Absent]

-----------------------------------------------------------------------------
(* run(): the lock, and how an operation ends. *)

Start(kind, step, n, s, notice) ==
    /\ op = Idle
    /\ op' = [Idle EXCEPT !.kind = kind, !.step = step, !.worker = n,
                          !.slot = s, !.notice = notice]
    /\ message' = "none"

Then(step) == op' = [op EXCEPT !.step = step]

\* The panel's sign-in goes to the provider once its save has settled.
Finish == op' = Idle /\ away' = (away \/ op.kind = "signin")

\* Mutant: a worker whose world did not come to be is left running.
FailLeaving == Finish /\ UNCHANGED <<workers, client, slot, view, screen, message, disk>>

\* Succeeding or not, the operation releases the lock; replaceWorld disposes
\* of the worker it had started.
Fail ==
    /\ Finish
    /\ workers' = IF op.kind \in {"create", "load"} /\ op.step = "building"
                  THEN Close(op.worker) ELSE workers
    /\ UNCHANGED <<client, slot, view, screen, message, disk>>

-----------------------------------------------------------------------------
(* Operations the player starts. *)

Minted(s) == disk[s] # Absent \/ slot = s
                \/ \E n \in DOMAIN workers :
                    workers[n].world # Absent /\ workers[n].world.game = s

\* Mutant: the slot is switched before the new world exists.
CreateEagerly(s) ==
    /\ screen = "home" /\ ~ Minted(s) /\ Len(workers) < MaxWorkers
    /\ Start("create", "building", Len(workers) + 1, s, TRUE)
    /\ workers' = NewWorker(Absent)
    /\ slot' = s
    /\ UNCHANGED <<client, view, screen, disk, away>>

Create(s) ==
    /\ screen = "home" /\ ~ Minted(s) /\ Len(workers) < MaxWorkers
    /\ Start("create", "building", Len(workers) + 1, s, TRUE)
    /\ workers' = NewWorker(Absent)
    /\ UNCHANGED <<shell, disk, away>>

Load(s) ==
    /\ screen = "home" /\ Len(workers) < MaxWorkers
    /\ Start("load", "reading", 0, s, FALSE)
    /\ UNCHANGED <<workers, shell, disk, away>>

\* A turn or an action (notice), or a change to the inbox only (no notice).
Playing == screen = "game" /\ view # Absent
Move(notice) ==
    /\ Playing /\ view.moves < MaxMoves
    /\ Start("move", "moving", client, slot, notice)
    /\ UNCHANGED <<workers, shell, disk, away>>

Save ==
    /\ Playing
    /\ Start("save", "serializing", client, slot, TRUE)
    /\ UNCHANGED <<workers, shell, disk, away>>

\* Leaving saves first, unless the worker is gone.
Exit ==
    /\ Playing /\ op = Idle
    /\ IF Live(client)
       THEN Start("exit", "serializing", client, slot, TRUE) /\ UNCHANGED shell
       ELSE op' = Idle /\ message' = "none" /\ screen' = "home"
            /\ UNCHANGED <<client, slot, view>>
    /\ UNCHANGED <<workers, disk, away>>

ReturnToGame ==
    /\ screen = "home" /\ view # Absent /\ screen' = "game"
    /\ UNCHANGED <<workers, client, slot, view, message, op, disk, away>>

Delete(s) ==
    /\ screen = "home" /\ disk[s] \in World
    /\ Start("delete", "deleting", 0, s, FALSE)
    /\ UNCHANGED <<workers, shell, disk, away>>

\* Sign in, from the Ask panel while a game is open: onBeforeSignIn is run(save), which
\* returns at once when another operation holds the lock.
SignIn ==
    /\ view # Absent /\ ~ away
    /\ IF op = Idle
       THEN Start("signin", "serializing", client, slot, TRUE) /\ UNCHANGED away
       ELSE away' = TRUE /\ UNCHANGED <<op, message>>
    /\ UNCHANGED <<workers, shell, disk>>

ComeBack ==
    /\ away /\ away' = FALSE
    /\ UNCHANGED <<workers, shell, message, op, disk>>

-----------------------------------------------------------------------------
(* What an operation's worker answers. *)

Awaiting == op.step \in {"building", "moving", "serializing", "noting"}
Answered(step) == op.step = step /\ Live(op.worker)

\* Mutant: the loaded game is saved over the slot of the one before it.
ReplaceKeepingSlot ==
    /\ Answered("building")
    /\ LET world == IF op.kind = "create"
                    THEN [game |-> op.slot, moves |-> 0, noticed |-> 0] ELSE op.contents
       IN  /\ workers' = [Close(client) EXCEPT ![op.worker].world = world]
           /\ view' = world
    /\ client' = op.worker /\ screen' = "game"
    /\ slot' = IF slot = NoSlot THEN op.slot ELSE slot
    /\ IF op.kind = "create" THEN Then("serializing") /\ UNCHANGED away ELSE Finish
    /\ UNCHANGED <<message, disk>>

\* Only a world that came to be replaces the game being played.
NewWorld == IF op.kind = "create" THEN [game |-> op.slot, moves |-> 0, noticed |-> 0]
                                  ELSE op.contents
Replace ==
    /\ Answered("building")
    /\ workers' = [Close(client) EXCEPT ![op.worker].world = NewWorld]
    /\ client' = op.worker /\ view' = NewWorld
    /\ slot' = op.slot /\ screen' = "game"
    /\ IF op.kind = "create" THEN Then("serializing") /\ UNCHANGED away ELSE Finish
    /\ UNCHANGED <<message, disk>>

Moved ==
    /\ Answered("moving")
    /\ LET world == [workers[op.worker].world EXCEPT !.moves = @ + 1]
       IN  workers' = Put(op.worker, world) /\ view' = world
    /\ Then("serializing")
    /\ UNCHANGED <<client, slot, screen, message, disk, away>>

\* Mutant: the session takes its notice when the contents are prepared.
SerializedClaiming ==
    /\ Answered("serializing")
    /\ LET world == Noticed(workers[op.worker].world)
       IN  /\ workers' = Put(op.worker, world)
           /\ op' = [op EXCEPT !.step = "writing", !.slot = slot, !.contents = world]
    /\ UNCHANGED <<shell, message, disk, away>>

\* The contents carry the notice the session will show once they are stored.
Serialized ==
    /\ Answered("serializing")
    /\ LET world == workers[op.worker].world
       IN  op' = [op EXCEPT !.step = "writing", !.slot = slot,
                            !.contents = IF op.notice THEN Noticed(world) ELSE world]
    /\ UNCHANGED <<workers, shell, message, disk, away>>

Saved == message' = "saved" /\ Finish
         /\ screen' = IF op.kind = "exit" THEN "home" ELSE screen

Noted ==
    /\ Answered("noting")
    /\ LET world == Noticed(workers[op.worker].world)
       IN  workers' = Put(op.worker, world) /\ view' = world
    /\ Saved
    /\ UNCHANGED <<client, slot, disk>>

\* The session throws, or the world refuses the action.
Refused ==
    /\ op.step \in {"building", "moving"} /\ Live(op.worker)
    /\ Fail

\* A call on a client that is closed, or closes while it waits, is rejected.
CallRejected ==
    /\ Awaiting /\ ~ Live(op.worker)
    /\ Fail

\* Mutant: nothing times a world being built.
TimedOutOnMoves ==
    /\ op.step = "moving" /\ Live(op.worker)
    /\ workers' = Close(op.worker)
    /\ UNCHANGED <<shell, message, op, disk, away>>

\* The client gives the worker sixty seconds; a worker may also just fail.
TimedOut ==
    /\ Awaiting /\ Live(op.worker)
    /\ workers' = Close(op.worker)
    /\ UNCHANGED <<shell, message, op, disk, away>>
WorkerFails(n) ==
    /\ Live(n)
    /\ workers' = Close(n)
    /\ UNCHANGED <<shell, message, op, disk, away>>

-----------------------------------------------------------------------------
(* What the store answers. *)

Read ==
    /\ op.step = "reading" /\ disk[op.slot] \in World
    /\ workers' = NewWorker(Absent)
    /\ op' = [op EXCEPT !.step = "building", !.worker = Len(workers) + 1,
                        !.contents = disk[op.slot]]
    /\ UNCHANGED <<shell, message, disk, away>>

Written ==
    /\ op.step = "writing"
    /\ disk' = [disk EXCEPT ![op.slot] = op.contents]
    /\ IF op.notice THEN Then("noting") /\ UNCHANGED <<screen, message, away>> ELSE Saved
    /\ UNCHANGED <<workers, client, slot, view>>

\* Mutant: the open game stays open when its save is deleted.
RemovedKeepingGame ==
    /\ op.step = "deleting"
    /\ disk' = [disk EXCEPT ![op.slot] = Deleted]
    /\ message' = "deleted" /\ Finish
    /\ UNCHANGED <<workers, shell>>

Removed ==
    /\ op.step = "deleting"
    /\ disk' = [disk EXCEPT ![op.slot] = Deleted]
    /\ message' = "deleted" /\ Finish
    /\ IF slot = op.slot
       THEN /\ workers' = Close(client) /\ client' = 0
            /\ slot' = NoSlot /\ view' = Absent /\ screen' = "home"
       ELSE UNCHANGED <<workers, shell>>

\* Reading or deleting fails without a trace; a failed write may have replaced
\* the file before it failed.
StoreFails ==
    \/ op.step \in {"reading", "deleting"} /\ Fail
    \/ op.step = "writing"
        /\ disk' = [disk EXCEPT ![op.slot] = op.contents]
        /\ Finish /\ UNCHANGED <<workers, shell, message>>
    \/ op.step = "writing" /\ Fail

\* The page goes away and comes back: everything but the store starts afresh,
\* and a command the store was given may still be carried out.
Reload ==
    /\ Len(workers) < MaxWorkers
    /\ workers' = Append([n \in DOMAIN workers |-> [workers[n] EXCEPT !.open = FALSE]],
                         [open |-> TRUE, world |-> Absent])
    /\ client' = Len(workers) + 1 /\ slot' = NoSlot /\ view' = Absent
    /\ screen' = "home" /\ message' = "none" /\ op' = Idle /\ away' = FALSE
    /\ \/ UNCHANGED disk
       \/ op.step = "writing" /\ disk' = [disk EXCEPT ![op.slot] = op.contents]
       \/ op.step = "deleting" /\ disk' = [disk EXCEPT ![op.slot] = Deleted]

-----------------------------------------------------------------------------
Player ==
    \/ \E s \in Slots : Create(s) \/ Load(s) \/ Delete(s)
    \/ \E notice \in BOOLEAN : Move(notice)
    \/ Save \/ Exit \/ ReturnToGame \/ SignIn \/ ComeBack
WorkerAnswers == Replace \/ Moved \/ Serialized \/ Noted \/ Refused
StoreAnswers == Read \/ Written \/ Removed \/ StoreFails

Next ==
    \/ Player \/ WorkerAnswers \/ StoreAnswers
    \/ CallRejected \/ TimedOut
    \/ \E n \in DOMAIN workers : WorkerFails(n)
    \/ Reload

Spec == Init /\ [][Next]_vars

\* The timer fires and its rejection reaches the waiting operation; the store
\* answers every command.  A worker need not answer, nor the player act.
FairSpec == Spec /\ WF_vars(TimedOut) /\ WF_vars(CallRejected) /\ WF_vars(StoreAnswers)

-----------------------------------------------------------------------------
(* What the shell promises. *)

TypeOK ==
    /\ workers \in Seq([open : BOOLEAN, world : World \cup {Absent}])
    /\ client \in 0 .. Len(workers) /\ slot \in Slots \cup {NoSlot}
    /\ view \in World \cup {Absent} /\ screen \in {"home", "game"}
    /\ message \in {"none", "saved", "deleted"} /\ away \in BOOLEAN
    /\ op \in [kind : Kinds, step : Steps, worker : 0 .. Len(workers),
               slot : Slots \cup {NoSlot}, contents : World \cup {Absent},
               notice : BOOLEAN]
    /\ disk \in [Slots -> World \cup {Absent, Deleted}]

\* A slot only ever holds its own game, and the game on screen, its slot and the
\* worker's world are always the same game, whatever replaced what in between.
SlotsHoldTheirGame ==
    /\ \A s \in Slots : disk[s] \in World => disk[s].game = s
    /\ view # Absent =>
        view.game = slot /\ client # 0 /\ workers[client].world.game = slot

\* "Only acknowledge it after storage succeeds; failed writes never claim
\* success" (App.tsx:210): what the shell says is saved is what it shows, and a
\* "Game saved" notice in the session's inbox is one the store also has.
SavedMeansSaved ==
    /\ message = "saved" => disk[slot] = view
    /\ view # Absent /\ view.noticed # Never =>
        disk[slot] \in World /\ disk[slot].moves + 1 >= view.noticed

\* Every worker in use is the client's or the one being built: an operation that
\* fails leaves none running in the background.
NoStrayWorkers ==
    \A n \in DOMAIN workers : workers[n].open => n \in {client, op.worker}

\* Deleting the open game "does not silently recreate" it
\* (smoke/save-browser.spec.ts:57): a save the player was told is gone stays gone.
DeletedStaysDeleted ==
    [][\A s \in Slots : disk[s] = Deleted => disk'[s] = Deleted]_vars

\* A new game or a load that fails costs the player nothing: the open game is
\* given up only for a world that came to be, by deleting it, or by a reload.
OpenGameKept ==
    [][view # Absent /\ slot' # slot =>
        \/ slot' # NoSlot /\ view' # Absent /\ view'.game = slot' /\ workers'[client'].open
        \/ slot' = NoSlot /\ (disk'[slot] = Deleted \/ Len(workers') > Len(workers))]_vars

\* The run lock is always released: the shell never stays busy for good, even if
\* its worker never answers.
NeverBusyForGood == op # Idle ~> op = Idle

\* "the save must settle here, not merely start" and "the bounce cannot open
\* mid-write" (App.tsx:255, 338): when the sign-in page opens, no operation is
\* under way.  The code does not keep this: while another operation holds the
\* lock, run(save) returns at once without saving or waiting.
BounceNotMidWrite == [][~ away /\ away' => op' = Idle]_vars

=============================================================================
