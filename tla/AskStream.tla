----------------------------- MODULE AskStream ------------------------------
(***************************************************************************)
(* The question streams of the Rust shell, src-tauri/src/ask.rs: ask_send  *)
(* and ask_stop as the panel calls them, one pump thread per question, and *)
(* the ask-stream events the pumps broadcast.                              *)
(*                                                                         *)
(* A request is Tracked while AskStreamState has an entry for it, which is *)
(* what ask_stop reaches its flag through.  The service is external: it    *)
(* answers with a reply, with a stream, or not at all, and a stream ends   *)
(* anywhere.                                                               *)
(***************************************************************************)
EXTENDS Naturals, Sequences

CONSTANTS
  Req,         \* request ids ask_send draws, no two alike
  MaxLines     \* bound: non-terminal events over all streams

ASSUME LinesAssumption == MaxLines \in Nat

VARIABLES
  pump,        \* pump[r]: where the pump thread of r is
  tracked,     \* requests with an entry in AskStreamState
  stop,        \* stop[r]: the flag the pump of r polls
  events,      \* ask-stream events on their way to the panel, oldest first
  ended,       \* requests a terminal event was emitted for
  lines        \* non-terminal events so far

streamVars == <<pump, tracked, stop, events, ended, lines>>

PumpStep == {"unused", "post", "read", "drained", "forget", "over"}

Terminal == {"done", "final", "error", "stopped"}

(* "progress": meta, status, action and delta, which end nothing. *)
Kind == {"progress"} \union Terminal

Event == [req : Req, kind : Kind]

StreamInit ==
  /\ pump = [r \in Req |-> "unused"]
  /\ tracked = {}
  /\ stop = [r \in Req |-> FALSE]
  /\ events = <<>>
  /\ ended = {}
  /\ lines = 0

(* The entry goes in and the pump is spawned before the id is returned. *)
AskSend(r) ==
  /\ pump[r] = "unused"
  /\ pump' = [pump EXCEPT ![r] = "post"]
  /\ tracked' = tracked \union {r}
  /\ UNCHANGED <<stop, events, ended, lines>>

AskStop(r) ==
  /\ stop' = [stop EXCEPT ![r] = stop[r] \/ r \in tracked]
  /\ UNCHANGED <<pump, tracked, events, ended, lines>>

Emit(r, kind) ==
  /\ events' = Append(events, [req |-> r, kind |-> kind])
  /\ ended' = IF kind \in Terminal THEN ended \union {r} ELSE ended

(* Mutant: the transport error returns without the entry being removed. *)
PostLeaking(r) ==
  /\ pump[r] = "post"
  /\ \/ /\ Emit(r, "error")
        /\ pump' = [pump EXCEPT ![r] = "over"]
     \/ /\ pump' = [pump EXCEPT ![r] = "read"]
        /\ UNCHANGED <<events, ended>>
  /\ UNCHANGED <<tracked, stop, lines>>

(* An error status or a plain JSON reply is "final", no answer at all is   *)
(* "error", and an event stream is read line by line.                      *)
Post(r) ==
  /\ pump[r] = "post"
  /\ \/ /\ \E kind \in {"final", "error"} : Emit(r, kind)
        /\ pump' = [pump EXCEPT ![r] = "forget"]
     \/ /\ pump' = [pump EXCEPT ![r] = "read"]
        /\ UNCHANGED <<events, ended>>
  /\ UNCHANGED <<tracked, stop, lines>>

(* The stream yields a line or a read error, and the flag is looked at     *)
(* first.                                                                  *)
Stopped(r) ==
  /\ pump[r] = "read"
  /\ stop[r]
  /\ Emit(r, "stopped")
  /\ pump' = [pump EXCEPT ![r] = "forget"]
  /\ UNCHANGED <<tracked, stop, lines>>

(* Mutant: a terminal line does not suppress the report at the loop's end. *)
LineFallingThrough(r) ==
  /\ pump[r] = "read"
  /\ ~stop[r]
  /\ \/ /\ lines < MaxLines
        /\ lines' = lines + 1
        /\ Emit(r, "progress")
        /\ UNCHANGED pump
     \/ /\ \E kind \in {"done", "error"} : Emit(r, kind)
        /\ pump' = [pump EXCEPT ![r] = "drained"]
        /\ UNCHANGED lines
  /\ UNCHANGED <<tracked, stop>>

(* Any other line: an event, the last one if it is "done" or "error". *)
Line(r) ==
  /\ pump[r] = "read"
  /\ ~stop[r]
  /\ \/ /\ lines < MaxLines
        /\ lines' = lines + 1
        /\ Emit(r, "progress")
        /\ UNCHANGED pump
     \/ /\ \E kind \in {"done", "error"} : Emit(r, kind)
        /\ pump' = [pump EXCEPT ![r] = "forget"]
        /\ UNCHANGED lines
  /\ UNCHANGED <<tracked, stop>>

(* The stream ends, whether the flag is up or not, or a read fails.        *)
EndOfStream(r) ==
  /\ pump[r] = "read"
  /\ pump' = [pump EXCEPT ![r] = "drained"]
  /\ UNCHANGED <<tracked, stop, events, ended, lines>>

(* Mutant: the end of a stream is never reported. *)
DrainedSilent(r) ==
  /\ pump[r] = "drained"
  /\ pump' = [pump EXCEPT ![r] = "forget"]
  /\ UNCHANGED <<tracked, stop, events, ended, lines>>

(* After the loop: an early end is an error, unless the flag is up by now. *)
Drained(r) ==
  /\ pump[r] = "drained"
  /\ IF stop[r] THEN UNCHANGED <<events, ended>> ELSE Emit(r, "error")
  /\ pump' = [pump EXCEPT ![r] = "forget"]
  /\ UNCHANGED <<tracked, stop, lines>>

Forget(r) ==
  /\ pump[r] = "forget"
  /\ tracked' = tracked \ {r}
  /\ pump' = [pump EXCEPT ![r] = "over"]
  /\ UNCHANGED <<stop, events, ended, lines>>

(* The thread of r.  A request times out after 600 s, so it never blocks   *)
(* for good.                                                               *)
Pump(r) ==
  Post(r) \/ Stopped(r) \/ Line(r) \/ EndOfStream(r) \/ Drained(r) \/ Forget(r)

-----------------------------------------------------------------------------
StreamTypeOK ==
  /\ pump \in [Req -> PumpStep]
  /\ tracked \in SUBSET Req
  /\ stop \in [Req -> BOOLEAN]
  /\ events \in Seq(Event)
  /\ ended \in SUBSET Req
  /\ lines \in 0 .. MaxLines

(***************************************************************************)
(* No event of a request follows its terminal event, whichever of the      *)
(* pump's five exits it takes and whenever the flag goes up: the panel     *)
(* unlocks on the terminal event and would hear the rest as stray.         *)
(***************************************************************************)
NothingAfterTerminal ==
  [][Len(events') > Len(events) =>
       events'[Len(events')].req \notin ended]_events

(***************************************************************************)
(* Every entry of AskStreamState goes away, however its request ends: none *)
(* is left behind by an early return of the pump.                          *)
(***************************************************************************)
StreamsForgotten == \A r \in Req : r \in tracked ~> r \notin tracked

(* A started question that nobody stops gets its terminal event. *)
UnstoppedAnswered ==
  \A r \in Req : pump[r] = "post" ~> (r \in ended \/ stop[r])
=============================================================================
