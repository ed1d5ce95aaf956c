---------------------------- MODULE SlotRegister ----------------------------
(***************************************************************************)
(* What the native save store promises its callers, with no file in sight. *)
(*                                                                         *)
(* A slot is a register that holds one complete save or nothing.  A call   *)
(* names its operation, its slot and, to save, its payload, and takes      *)
(* effect at most once, in one step, on that slot alone: a save puts its   *)
(* payload there, a delete empties it, a load changes nothing.  It is      *)
(* told "saved" or "deleted" only after it took effect, and "saved" only   *)
(* when that is beyond a power loss; a load is told what its own slot      *)
(* holds at that moment; an error means that the call changed nothing, or  *)
(* that it is a save whose effect could not be made durable.               *)
(*                                                                         *)
(* A machine that loses power comes back with the stable values, which     *)
(* trail the values.  A call that a crash cuts short has taken effect or   *)
(* has not, and is never told.                                             *)
(***************************************************************************)
CONSTANTS Caller, Slot, Payload, Absent

VARIABLES
  value,     \* value[s]: the save a load of slot s sees, or Absent
  stable,    \* stable[s]: what slot s holds after a power loss
  reply      \* reply[c]: what c was last told, or the call it waits in

vars == <<value, stable, reply>>

Held == Payload \union {Absent}

(* What can be asked: data is what the slot is to hold, for a load nothing. *)
Asked ==
  [op : {"save"}, slot : Slot, data : Payload]
    \union [op : {"load", "delete"}, slot : Slot, data : {Absent}]

(* A call under way, before and after it took effect. *)
Pending(ask, done) ==
  [told |-> "pending", op |-> ask.op, slot |-> ask.slot, data |-> ask.data,
   done |-> done]

Answer(told, data) == [told |-> told, data |-> data]
Silence == Answer("none", Absent)

Waits(c) == reply[c].told = "pending"

Init ==
  /\ value \in [Slot -> Held]
  /\ stable = value
  /\ reply = [c \in Caller |-> Silence]

Begin(c, ask) ==
  /\ ~Waits(c)
  /\ reply' = [reply EXCEPT ![c] = Pending(ask, FALSE)]
  /\ UNCHANGED <<value, stable>>

(* A save or a delete takes effect; there must be something to delete. *)
Change(c) ==
  /\ Waits(c) /\ ~reply[c].done
  /\ \/ reply[c].op = "save"
     \/ reply[c].op = "delete" /\ value[reply[c].slot] # Absent
  /\ value' = [value EXCEPT ![reply[c].slot] = reply[c].data]
  /\ reply' = [reply EXCEPT ![c] = Pending(reply[c], TRUE)]
  /\ UNCHANGED stable

(* Some slot reaches the disk on its own. *)
Settle(s) ==
  /\ stable' = [stable EXCEPT ![s] = value[s]]
  /\ UNCHANGED <<value, reply>>

Tell(c, told, data) ==
  /\ Waits(c)
  /\ reply' = [reply EXCEPT ![c] = Answer(told, data)]

(* "saved" is a promise about the disk, made when the disk agrees. *)
Saved(c) ==
  /\ reply[c].op = "save" /\ reply[c].done
  /\ Tell(c, "saved", Absent)
  /\ stable' = value
  /\ UNCHANGED value

Loaded(c) ==
  /\ reply[c].op = "load" /\ value[reply[c].slot] # Absent
  /\ Tell(c, "loaded", value[reply[c].slot])
  /\ UNCHANGED <<value, stable>>

Missing(c) ==
  /\ reply[c].op # "save" /\ ~reply[c].done
  /\ value[reply[c].slot] = Absent
  /\ Tell(c, "missing", Absent)
  /\ UNCHANGED <<value, stable>>

Deleted(c) ==
  /\ reply[c].op = "delete" /\ reply[c].done
  /\ Tell(c, "deleted", Absent)
  /\ UNCHANGED <<value, stable>>

(* The slot is as it was, or holds a save that is not known to be durable. *)
Failed(c) ==
  /\ reply[c].done => reply[c].op = "save"
  /\ Tell(c, "failed", Absent)
  /\ UNCHANGED <<value, stable>>

(* A request that does not validate is never under way. *)
Refused(c) ==
  /\ ~Waits(c)
  /\ reply' = [reply EXCEPT ![c] = Answer("failed", Absent)]
  /\ UNCHANGED <<value, stable>>

(* Callers die with their process and never hear an answer. *)
Forgotten(dead) ==
  [c \in Caller |-> IF c \in dead THEN Silence ELSE reply[c]]

Crash ==
  /\ \E dead \in SUBSET Caller : reply' = Forgotten(dead)
  /\ UNCHANGED <<value, stable>>

PowerLoss ==
  /\ value' = stable
  /\ reply' = Forgotten(Caller)
  /\ UNCHANGED stable

(* What a call does once it is under way. *)
Proceed(c) ==
  /\ Waits(c)
  /\ Change(c) \/ Saved(c) \/ Loaded(c) \/ Missing(c) \/ Deleted(c) \/ Failed(c)

Next ==
  \/ Crash \/ PowerLoss
  \/ \E c \in Caller : Refused(c) \/ Proceed(c) \/ \E ask \in Asked : Begin(c, ask)
  \/ \E s \in Slot : Settle(s)

Spec == Init /\ [][Next]_vars
=============================================================================
