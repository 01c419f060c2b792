----------------------------- MODULE TraceQueue -----------------------------
(***************************************************************************)
(* TraceEmitter and TraceGuard (trace.rs): threads that emit records to a  *)
(* bounded queue and never wait, the worker that hands them to a callback, *)
(* and the guard, dropped by its owner or by the callback itself.          *)
(* Steps on the queue and on the loss count are steps of their own.        *)
(***************************************************************************)
EXTENDS Integers, Sequences

CONSTANTS
  Emitters,            \* threads that hold a TraceEmitter
  TraceCapacity,       \* TRACE_QUEUE_CAPACITY
  MaxRecords           \* bound on the records emitted

ASSUME TraceAssumption ==
  TraceCapacity \in Nat \ {0} /\ MaxRecords \in Nat

VARIABLES
  trace,     \* the queue, the loss count, and whether the receiver is there
  losing,    \* emitters that found the queue full and have not counted it
  worker,    \* where the worker is, with which record and which loss count
  guard,     \* what became of the guard, and callback_shutdown
  told       \* history: records accepted, handed over, lost; losses marked

traceVars == <<trace, losing, worker, guard, told>>

\* TraceMessage::Shutdown.
StopMessage == [id |-> 0, after |-> 0]

TraceInit ==
  /\ trace = [queue |-> <<>>, dropped |-> 0, open |-> TRUE]
  /\ losing = {}
  /\ worker = [at |-> "Receive", record |-> StopMessage, lost |-> 0]
  /\ guard = [state |-> "Held", callback_shutdown |-> FALSE]
  /\ told = [emitted |-> 0, accepted |-> <<>>, delivered |-> <<>>, lost |-> 0, marked |-> 0]

HasSpace == Len(trace.queue) < TraceCapacity
ShutdownSent == guard.state \in {"Joining", "Dropped"}

\* A record, with the losses that were counted when it was sent.
Emitted == [id |-> told.emitted + 1, after |-> told.lost]

(***************************************************************************)
(* emit: try_send, and a count of its own when the queue is full.          *)
(***************************************************************************)
EmitRecord(t) ==
  /\ t \notin losing /\ told.emitted < MaxRecords /\ trace.open
  /\ IF HasSpace
       THEN /\ trace' = [trace EXCEPT !.queue = Append(@, Emitted)]
            /\ told' = [told EXCEPT !.emitted = @ + 1,
                          !.accepted = IF ShutdownSent THEN @ ELSE Append(@, Emitted.id)]
            /\ UNCHANGED losing
       ELSE /\ losing' = losing \union {t}
            /\ told' = [told EXCEPT !.emitted = @ + 1]
            /\ UNCHANGED trace
  /\ UNCHANGED <<worker, guard>>

CountLoss(t) ==
  /\ t \in losing
  /\ losing' = losing \ {t}
  /\ trace' = [trace EXCEPT !.dropped = @ + 1]
  /\ told' = [told EXCEPT !.lost = @ + 1]
  /\ UNCHANGED <<worker, guard>>

(***************************************************************************)
(* The worker's loop: receive, take the loss count, mark the loss, hand    *)
(* the record over, look at callback_shutdown.                             *)
(***************************************************************************)
Receive ==
  /\ worker.at = "Receive" /\ trace.queue # <<>>
  /\ LET message == Head(trace.queue) IN
       /\ worker' = [at |-> IF message = StopMessage THEN "Ended" ELSE "Swap",
                     record |-> message, lost |-> 0]
       /\ trace' = [trace EXCEPT !.queue = Tail(@), !.open = (message # StopMessage)]
  /\ UNCHANGED <<losing, guard, told>>

\* Mutant: the loss is marked once the record was handed over.
AfterSwapLate == "Deliver"
AfterSwap == IF trace.dropped # 0 THEN "Mark" ELSE "Deliver"

SwapLoss ==
  /\ worker.at = "Swap"
  /\ worker' = [worker EXCEPT !.at = AfterSwap, !.lost = trace.dropped]
  /\ trace' = [trace EXCEPT !.dropped = 0]
  /\ UNCHANGED <<losing, guard, told>>

\* The callback returns; it may have dropped the guard, on the worker's own
\* thread, which does not wait for itself.
CallbackReturns ==
  \/ UNCHANGED guard
  \/ /\ guard.state = "Held"
     /\ guard' = [state |-> "Detached", callback_shutdown |-> TRUE]

MarkLoss ==
  /\ worker.at = "Mark"
  /\ worker' = [worker EXCEPT !.at = "Deliver"]
  /\ told' = [told EXCEPT !.marked = @ + worker.lost]
  /\ CallbackReturns
  /\ UNCHANGED <<trace, losing>>

Deliver ==
  /\ worker.at = "Deliver"
  /\ told' = [told EXCEPT !.delivered = Append(@, worker.record.id)]
  /\ CallbackReturns
  /\ worker' = [worker EXCEPT !.at = "Look"]
  /\ UNCHANGED <<trace, losing>>

LookAtShutdown ==
  /\ worker.at = "Look"
  /\ IF guard.callback_shutdown
       THEN /\ worker' = [worker EXCEPT !.at = "Ended"]
            /\ trace' = [trace EXCEPT !.open = FALSE, !.queue = <<>>]
       ELSE worker' = [worker EXCEPT !.at = "Receive"] /\ UNCHANGED trace
  /\ UNCHANGED <<losing, guard, told>>

WorkerStep == Receive \/ SwapLoss \/ MarkLoss \/ Deliver \/ LookAtShutdown

(***************************************************************************)
(* drop of the guard by its owner: it waits for room, then for the worker. *)
(***************************************************************************)
BeginDrop ==
  /\ guard.state = "Held"
  /\ guard' = [guard EXCEPT !.state = "Sending"]
  /\ UNCHANGED <<trace, losing, worker, told>>

WithShutdown == Append(trace.queue, StopMessage)

\* Mutant: a full queue makes the guard go on without its message.
SendsShutdownOnce == trace' = [trace EXCEPT !.queue = IF HasSpace THEN WithShutdown ELSE @]
SendsShutdown == HasSpace /\ trace' = [trace EXCEPT !.queue = WithShutdown]

SendShutdown ==
  /\ guard.state = "Sending"
  /\ SendsShutdown
  /\ guard' = [guard EXCEPT !.state = "Joining"]
  /\ UNCHANGED <<losing, worker, told>>

Join ==
  /\ guard.state = "Joining" /\ worker.at = "Ended"
  /\ guard' = [guard EXCEPT !.state = "Dropped"]
  /\ UNCHANGED <<trace, losing, worker, told>>

TraceNext ==
  \/ \E t \in Emitters : EmitRecord(t) \/ CountLoss(t)
  \/ WorkerStep
  \/ BeginDrop \/ SendShutdown \/ Join

TraceSpec == TraceInit /\ [][TraceNext]_traceVars

\* The worker and the thread that drops the guard are scheduled, and the
\* callback returns.
TraceFairness ==
  /\ WF_traceVars(WorkerStep)
  /\ WF_traceVars(SendShutdown)
  /\ WF_traceVars(Join)

\* A record is handed over only after a mark of every loss that was counted
\* before the record was sent.
LossMarked == worker.at = "Deliver" => told.marked >= worker.record.after

\* The drop of a guard ends, and by then every record that was accepted before
\* its message has been handed over, once and in order (README.md:74).
DropDrains ==
  guard.state = "Sending" ~>
    guard.state = "Dropped" /\ told.delivered = told.accepted
=============================================================================
