----------------------------- MODULE KeyForwarder -----------------------------
(***************************************************************************)
(* The serial key queue of full screen (gui/fullscreen.go): the event loop *)
(* enqueues keys without blocking, one goroutine sends them to tmux and    *)
(* joins literal keys of one target into one send-keys -l.                 *)
(***************************************************************************)
EXTENDS Integers, Sequences, SequencesExt

CONSTANTS
  Targets,     (* the tmux targets keys may be meant for *)
  KeyQueueSize (* keyQueueSize                           *)

ASSUME ForwarderAssumption == KeyQueueSize \in Nat

VARIABLES
  keyQueue,  (* fs.keyQueue                                               *)
  batch,     (* the keys the goroutine took and has not sent              *)
  forwarder, (* where it is: "waiting" in the outer select, "batching" in
                the inner one, "single" before dispatchKey, "stopped"     *)
  done,      (* the channel that Run closes when the main loop returns    *)
  accepted,  (* history: the keys that entered the queue                  *)
  sent       (* what tmux was told, in order                              *)

forwarderVars == <<keyQueue, batch, forwarder, done, accepted, sent>>

Command == [target : Targets, literal : BOOLEAN, press : Nat]

ForwarderTypeOK ==
  /\ keyQueue \in Seq(Command) /\ Len(keyQueue) <= KeyQueueSize
  /\ batch \in Seq(Command)
  /\ forwarder \in {"waiting", "batching", "single", "stopped"}
  /\ done \in BOOLEAN
  /\ accepted \in Seq(Command) /\ sent \in Seq(Command)

ForwarderInit ==
  /\ keyQueue = <<>> /\ batch = <<>> /\ forwarder = "waiting" /\ done = FALSE
  /\ accepted = <<>> /\ sent = <<>>

\* EnqueueKey, EnqueueLiteral: a full queue drops the key.
Enqueue(target, literal) ==
  LET command == [target |-> target, literal |-> literal, press |-> Len(accepted)]
  IN /\ ~done
     /\ IF Len(keyQueue) < KeyQueueSize
        THEN keyQueue' = Append(keyQueue, command) /\ accepted' = Append(accepted, command)
        ELSE UNCHANGED <<keyQueue, accepted>>
     /\ UNCHANGED <<batch, forwarder, done, sent>>

\* RunKeyForwarder: the next command, if it came before done.
Take ==
  /\ forwarder = "waiting" /\ keyQueue # <<>>
  /\ keyQueue' = Tail(keyQueue)
  /\ batch' = <<Head(keyQueue)>>
  /\ forwarder' = IF Head(keyQueue).literal THEN "batching" ELSE "single"
  /\ UNCHANGED <<done, accepted, sent>>

\* Everything in the batch goes to the target of its first key.
Flushed == sent \o [i \in DOMAIN batch |-> [batch[i] EXCEPT !.target = batch[1].target]]

\* Mutant of Joins: a batch takes any literal key.
JoinsAny(command) == command.literal

Joins(command) == command.literal /\ command.target = batch[1].target

Collect ==
  /\ forwarder = "batching" /\ keyQueue # <<>> /\ Joins(Head(keyQueue))
  /\ keyQueue' = Tail(keyQueue)
  /\ batch' = Append(batch, Head(keyQueue))
  /\ UNCHANGED <<forwarder, done, accepted, sent>>

\* A key that does not join ends the batch and is next: a batch of its own,
\* or one send-keys.
FlushBefore ==
  /\ forwarder = "batching" /\ keyQueue # <<>> /\ ~Joins(Head(keyQueue))
  /\ keyQueue' = Tail(keyQueue)
  /\ sent' = Flushed
  /\ batch' = <<Head(keyQueue)>>
  /\ forwarder' = IF Head(keyQueue).literal THEN "batching" ELSE "single"
  /\ UNCHANGED <<done, accepted>>

\* Mutant of FlushIdle: waits for a second key.
FlushIdleLater ==
  /\ forwarder = "batching" /\ keyQueue = <<>> /\ Len(batch) > 1
  /\ sent' = Flushed /\ batch' = <<>> /\ forwarder' = "waiting"
  /\ UNCHANGED <<keyQueue, done, accepted>>

\* The default case: nothing more to join for now.
FlushIdle ==
  /\ forwarder = "batching" /\ keyQueue = <<>> /\ ~done
  /\ sent' = Flushed /\ batch' = <<>> /\ forwarder' = "waiting"
  /\ UNCHANGED <<keyQueue, done, accepted>>

DispatchKey ==
  /\ forwarder = "single"
  /\ sent' = sent \o batch /\ batch' = <<>> /\ forwarder' = "waiting"
  /\ UNCHANGED <<keyQueue, done, accepted>>

\* done is seen in either select, which picks any ready case; a return from
\* the batch leads back to the outer select.
FlushDone ==
  /\ forwarder = "batching" /\ done
  /\ sent' = Flushed /\ batch' = <<>> /\ forwarder' = "waiting"
  /\ UNCHANGED <<keyQueue, done, accepted>>

StopForwarder ==
  /\ forwarder = "waiting" /\ done
  /\ forwarder' = "stopped"
  /\ UNCHANGED <<keyQueue, batch, done, accepted, sent>>

\* The main loop has returned: no more keys.
CloseDone ==
  /\ ~done /\ done' = TRUE
  /\ UNCHANGED <<keyQueue, batch, forwarder, accepted, sent>>

ForwarderStep ==
  Take \/ Collect \/ FlushBefore \/ FlushIdle \/ DispatchKey \/ FlushDone \/ StopForwarder

ForwarderNext ==
  \/ \E target \in Targets, literal \in BOOLEAN : Enqueue(target, literal)
  \/ ForwarderStep
  \/ CloseDone

ForwarderSpec == ForwarderInit /\ [][ForwarderNext]_forwarderVars

-----------------------------------------------------------------------------
(* Properties                                                              *)

\* fullscreen.go:100 "drains the key queue serially, preserving order": every
\* accepted key is sent, in the batch or in the queue exactly once, in the
\* order of the key presses and for the target it was meant for, whatever was
\* batched with it (dispatchBatch).
KeysInOrder == sent \o batch \o keyQueue = accepted

\* A key that was accepted reaches tmux without waiting for another one,
\* unless the program quits.
KeysAreSent == (sent # accepted) ~> (sent = accepted \/ done)
=============================================================================
