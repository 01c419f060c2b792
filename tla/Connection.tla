----------------------------- MODULE Connection -----------------------------
(***************************************************************************)
(* ConnectionWriter and ConnectionReader (wire.rs): threads that share the *)
(* clones of one writer, the transport below it, a thread that shuts the   *)
(* connection down, and the reader at the far end, which may stop reading. *)
(*                                                                         *)
(* A call is a sequence of steps: taking the lock, each transfer to the    *)
(* transport, each look at the shutdown request and the release of the     *)
(* lock are steps of their own.  A record is a header unit and one unit    *)
(* per piece of its body; a transport takes units.  A native transport (a  *)
(* socket) carries what it takes to the wire; an adapter keeps it in a     *)
(* buffer until it is flushed.                                             *)
(***************************************************************************)
EXTENDS Integers, Sequences, FiniteSets

CONSTANTS
  None,
  Threads,             \* threads that hold a clone of the writer
  Transports,          \* the transports considered: "Native", "Live"
  BodyLimits,          \* the body limits that may be negotiated
  Bodies,              \* lengths of the bodies that callers pass
  BatchLimit,          \* BATCH_RECORD_LIMIT
  WireCapacity,        \* units in flight before the transport blocks
  MaxSequence,         \* bound that stands for the end of u64
  MaxFailures          \* bound on the failures of an open transport

Records == [body: Bodies, checkpoint: BOOLEAN]
Modes == {"Immediate", "Batched"}

\* A call of a thread: what it does, where it is, and how far a write is.
CallRecords ==
  [op: {"Write", "Mode", "Flush", "Limit", "Shutdown"},
   at: {"Enter", "Locked", "Write", "Written", "Flush", "Flushed", "Done", "TryLock", "Lock"},
   record: Records \union {None}, mode: Modes \union {None},
   sequence: Nat, sent: Nat, ok: BOOLEAN]

ASSUME ConnectionAssumption ==
  /\ {BatchLimit, WireCapacity, MaxSequence} \subseteq Nat \ {0}
  /\ MaxFailures \in Nat /\ Bodies \subseteq Nat /\ BodyLimits \subseteq Nat \ {0}
  /\ Transports \subseteq {"Native", "Live"}
  /\ None \notin Threads \union CallRecords \union Modes \union Records

VARIABLES
  transport,  \* the kind of transport, its buffer, the wire, whether it is cut
  requested,  \* shutdown_requested
  native,     \* native_shutdown still holds its handle
  holder,     \* the thread that holds the writer's lock
  writer,     \* WriterState
  calls,      \* thread -> the call it is in, None between calls
  answered,   \* records whose caller was told Ok
  failures,   \* failures of an open transport so far
  reader      \* ConnectionReader at the far end

connectionVars == <<transport, requested, native, holder, writer, calls, answered,
                    failures, reader>>

Units(sequence, body) ==
  [k \in 1..body + 1 |-> [sequence |-> sequence, piece |-> k - 1, body |-> body]]

Call(op) == [op |-> op, at |-> "Enter", record |-> None, mode |-> None,
             sequence |-> 0, sent |-> 0, ok |-> TRUE]

NewWriter(limit) ==
  [closed |-> FALSE, send_sequence |-> 0, send_body_limit |-> limit,
   flush_mode |-> "Immediate", unflushed |-> 0]

\* Connection::new_version, after its preface.
ConnectionInit ==
  /\ \E kind \in Transports : transport = [kind |-> kind, buffer |-> <<>>, wire |-> <<>>,
                                           cut |-> FALSE]
  /\ requested = FALSE /\ native = (transport.kind = "Native")
  /\ holder = None /\ failures = 0
  /\ \E limit \in BodyLimits :
       /\ writer = NewWriter(limit)
       /\ reader = [state |-> "Header", taken |-> 0, sequence |-> 0, left |-> 0,
                    limit |-> limit, intact |-> TRUE, read |-> <<>>]
  /\ calls = [t \in Threads |-> None]
  /\ answered = {}

In(t, ops, at) == calls[t] # None /\ calls[t].op \in ops /\ calls[t].at = at
Goes(t, at) == calls' = [calls EXCEPT ![t].at = at]
Returns(t) == calls' = [calls EXCEPT ![t] = None]

\* close(): the transport's writing half is dropped with what it buffers.
Closed(w) == [w EXCEPT !.closed = TRUE, !.unflushed = 0]
Dropped(tr) == [tr EXCEPT !.cut = TRUE, !.buffer = <<>>]

(***************************************************************************)
(* The transport.                                                          *)
(***************************************************************************)
HasRoom == Len(transport.wire) - reader.taken < WireCapacity

\* The transport takes a unit; a socket shut down during the write may drop it
\* and report success.
Takes(unit) ==
  \/ /\ transport.kind = "Native" /\ ~transport.cut /\ HasRoom
     /\ transport' = [transport EXCEPT !.wire = Append(@, unit)]
  \/ /\ transport.kind = "Native" /\ transport.cut
     /\ UNCHANGED transport
  \/ /\ transport.kind = "Live"
     /\ transport' = [transport EXCEPT !.buffer = Append(@, unit)]

FailureCounted ==
  \/ transport.cut /\ UNCHANGED failures
  \/ ~transport.cut /\ failures < MaxFailures /\ failures' = failures + 1

(***************************************************************************)
(* write_record and its kin.  Reserved flags and a body that exceeds u32   *)
(* are refused before anything is touched and are left out.                *)
(***************************************************************************)
\*
\* A call that waits for the lock depends on nothing it saw before (its first
\* looks at the request are repeated under the lock), so a call begins here
\* when it takes the lock.
Begin(t, call) ==
  /\ calls[t] = None /\ holder = None
  /\ holder' = t
  /\ calls' = [calls EXCEPT ![t] = [call EXCEPT !.at = "Locked"]]
  /\ UNCHANGED <<transport, requested, native, writer, answered, failures, reader>>

Write(t, record) == Begin(t, [Call("Write") EXCEPT !.record = record])
SetFlushMode(t, mode) == Begin(t, [Call("Mode") EXCEPT !.mode = mode])
Flush(t) == Begin(t, Call("Flush"))
SetSendBodyLimit(t) == Begin(t, Call("Limit"))

\* Every call looks at the request once it has the lock.
Refused(t) ==
  /\ In(t, {"Write", "Mode", "Flush", "Limit"}, "Locked")
  /\ writer.closed \/ requested
  /\ holder' = None /\ Returns(t)
  /\ UNCHANGED <<transport, requested, native, writer, answered, failures, reader>>

Open == ~writer.closed /\ ~requested

TooLong(record) == record.body > writer.send_body_limit

\* Mutant: a record that is refused for its length has taken a sequence.
AfterRefusalCounting == [writer EXCEPT !.send_sequence = @ + 1]
\* A refused record leaves the writer as it is.
AfterRefusal == writer

WriteTooLong(t) ==
  /\ In(t, {"Write"}, "Locked") /\ Open
  /\ TooLong(calls[t].record) \/ writer.send_sequence = MaxSequence
  /\ writer' = AfterRefusal
  /\ holder' = None /\ Returns(t)
  /\ UNCHANGED <<transport, requested, native, answered, failures, reader>>

\* The sequence is the record's from here on, whatever becomes of the write.
Sequence(t) ==
  /\ In(t, {"Write"}, "Locked") /\ Open
  /\ ~TooLong(calls[t].record) /\ writer.send_sequence < MaxSequence
  /\ writer' = [writer EXCEPT !.send_sequence = @ + 1]
  /\ calls' = [calls EXCEPT ![t].at = "Write", ![t].sequence = writer.send_sequence + 1]
  /\ UNCHANGED <<transport, requested, native, holder, answered, failures, reader>>

\* write_writer_parts: one transfer of its loop.
Transfer(t) ==
  /\ In(t, {"Write"}, "Write") /\ calls[t].sent <= calls[t].record.body
  /\ Takes(Units(calls[t].sequence, calls[t].record.body)[calls[t].sent + 1])
  /\ calls' = [calls EXCEPT ![t].sent = @ + 1,
                            ![t].at = IF calls[t].sent = calls[t].record.body
                                        THEN "Written" ELSE "Write"]
  /\ UNCHANGED <<requested, native, holder, writer, answered, failures, reader>>

TransferFails(t) ==
  /\ In(t, {"Write"}, "Write") /\ FailureCounted
  /\ calls' = [calls EXCEPT ![t].at = "Written", ![t].ok = FALSE]
  /\ UNCHANGED <<transport, requested, native, holder, writer, answered, reader>>

\* The write, or the flush that followed it, ended under a shutdown: its own
\* report is not trusted, and this thread closes the transport.
Cancelled(t) ==
  /\ In(t, {"Write"}, "Written") \/ In(t, {"Write"}, "Flushed")
  /\ requested
  /\ writer' = Closed(writer) /\ transport' = Dropped(transport)
  /\ holder' = None /\ Returns(t)
  /\ UNCHANGED <<requested, native, answered, failures, reader>>

\* Mutant: what the transport reports is believed.
NotCancelledTrusting(t) == In(t, {"Write"}, "Written")
NotCancelled(t) == In(t, {"Write"}, "Written") /\ ~requested

WriteFailed(t) ==
  /\ NotCancelled(t) /\ ~calls[t].ok
  /\ holder' = None /\ Returns(t)
  /\ UNCHANGED <<transport, requested, native, writer, answered, failures, reader>>

\* Checkpoints, the listed record types and the correlated envelopes are the
\* records with checkpoint set.
MustFlush(record, unflushed) ==
  writer.flush_mode = "Immediate" \/ record.checkpoint \/ unflushed >= BatchLimit

Wrote(t) ==
  /\ NotCancelled(t) /\ calls[t].ok
  /\ writer' = [writer EXCEPT !.unflushed = @ + 1]
  /\ Goes(t, IF MustFlush(calls[t].record, writer.unflushed + 1) THEN "Flush" ELSE "Done")
  /\ UNCHANGED <<transport, requested, native, holder, answered, failures, reader>>

(***************************************************************************)
(* Flushing, by write_record, flush and set_flush_mode.                    *)
(***************************************************************************)
\* flush_writer: a socket has nothing to flush, an adapter empties its buffer.
FlushTransfer(t) ==
  /\ In(t, {"Write", "Mode", "Flush"}, "Flush")
  /\ transport.kind = "Live" /\ transport.buffer # <<>> /\ HasRoom
  /\ transport' = [transport EXCEPT !.wire = Append(@, Head(transport.buffer)),
                                    !.buffer = Tail(@)]
  /\ UNCHANGED <<requested, native, holder, writer, calls, answered, failures, reader>>

FlushEnds(t) ==
  /\ In(t, {"Write", "Mode", "Flush"}, "Flush") /\ transport.buffer = <<>>
  /\ Goes(t, "Flushed")
  /\ UNCHANGED <<transport, requested, native, holder, writer, answered, failures, reader>>

FlushFails(t) ==
  /\ In(t, {"Write", "Mode", "Flush"}, "Flush") /\ transport.kind = "Live"
  /\ FailureCounted
  /\ calls' = [calls EXCEPT ![t].at = "Flushed", ![t].ok = FALSE]
  /\ UNCHANGED <<transport, requested, native, holder, writer, answered, reader>>

\* A write looks at the request again; flush and set_flush_mode do not.
AfterFlush(t) ==
  \/ In(t, {"Write"}, "Flushed") /\ ~requested
  \/ In(t, {"Mode", "Flush"}, "Flushed")

FlushFailed(t) ==
  /\ AfterFlush(t) /\ ~calls[t].ok
  /\ holder' = None /\ Returns(t)
  /\ UNCHANGED <<transport, requested, native, writer, answered, failures, reader>>

Switched(w, mode) == IF mode = None THEN w ELSE [w EXCEPT !.flush_mode = mode]

FlushSucceeded(t) ==
  /\ AfterFlush(t) /\ calls[t].ok
  /\ writer' = Switched([writer EXCEPT !.unflushed = 0], calls[t].mode)
  /\ Goes(t, "Done")
  /\ UNCHANGED <<transport, requested, native, holder, answered, failures, reader>>

StartsFlush(t) ==
  /\ In(t, {"Flush"}, "Locked") /\ Open
  /\ Goes(t, "Flush")
  /\ UNCHANGED <<transport, requested, native, holder, writer, answered, failures, reader>>

\* Mutant: the switch to immediate flushing leaves the batch for later.
FlushesFirstNever(mode) == FALSE
FlushesFirst(mode) == mode = "Immediate" /\ writer.unflushed # 0

SwitchesMode(t) ==
  /\ In(t, {"Mode"}, "Locked") /\ Open
  /\ IF FlushesFirst(calls[t].mode)
       THEN Goes(t, "Flush") /\ UNCHANGED writer
       ELSE Goes(t, "Done") /\ writer' = Switched(writer, calls[t].mode)
  /\ UNCHANGED <<transport, requested, native, holder, answered, failures, reader>>

\* A limit comes from the negotiation: it is never above what the peer reads.
SetsLimit(t) ==
  /\ In(t, {"Limit"}, "Locked") /\ Open
  /\ \E limit \in BodyLimits :
       limit <= reader.limit /\ writer' = [writer EXCEPT !.send_body_limit = limit]
  /\ Goes(t, "Done")
  /\ UNCHANGED <<transport, requested, native, holder, answered, failures, reader>>

\* The call returns Ok, and the lock is released.
Done(t) ==
  /\ In(t, {"Write", "Mode", "Flush", "Limit"}, "Done")
  /\ holder' = None /\ Returns(t)
  /\ answered' = IF calls[t].op # "Write" THEN answered
                 ELSE answered \union {[sequence |-> calls[t].sequence,
                                        body |-> calls[t].record.body,
                                        checkpoint |-> calls[t].record.checkpoint]}
  /\ UNCHANGED <<transport, requested, native, writer, failures, reader>>

(***************************************************************************)
(* shutdown: the request is published first; a second caller returns.      *)
(***************************************************************************)
Shutdown(t) ==
  /\ calls[t] = None /\ ~requested
  /\ requested' = TRUE
  /\ calls' = [calls EXCEPT ![t] = Call("Shutdown")]
  /\ UNCHANGED <<transport, native, holder, writer, answered, failures, reader>>

\* Sockets are shut down in both directions without the writer's lock.
TakesHandle(t) ==
  /\ In(t, {"Shutdown"}, "Enter")
  /\ native' = FALSE
  /\ transport' = [transport EXCEPT !.cut = @ \/ native]
  /\ Goes(t, IF native THEN "TryLock" ELSE "Lock")
  /\ UNCHANGED <<requested, holder, writer, answered, failures, reader>>

Closes(t) ==
  /\ holder = None
  /\ writer' = Closed(writer) /\ transport' = Dropped(transport)
  /\ Returns(t)
  /\ UNCHANGED <<requested, native, holder, answered, failures, reader>>

\* Mutant: a native shutdown waits for the writer it has woken.
LeavesToHolderNever(t) == FALSE
\* try_lock would block: the holder is left to close the transport.
LeavesToHolder(t) ==
  /\ In(t, {"Shutdown"}, "TryLock") /\ holder # None
  /\ Returns(t)
  /\ UNCHANGED <<transport, requested, native, holder, writer, answered, failures, reader>>

ShutdownStep(t) ==
  \/ TakesHandle(t)
  \/ (In(t, {"Shutdown"}, "TryLock") \/ In(t, {"Shutdown"}, "Lock")) /\ Closes(t)
  \/ LeavesToHolder(t)

(***************************************************************************)
(* read_record_body_into at the far end, one unit at a time.               *)
(***************************************************************************)
Available == reader.taken < Len(transport.wire)
Next1 == transport.wire[reader.taken + 1]

AcceptsHeader(unit) ==
  unit.piece = 0 /\ unit.body <= reader.limit /\ unit.sequence = reader.sequence + 1

Completed(r) == IF r.left = 0 THEN [r EXCEPT !.state = "Header", !.read = Append(@, r.sequence)]
                              ELSE [r EXCEPT !.state = "Body"]

ReadHeader ==
  /\ reader.state = "Header" /\ Available
  /\ reader' = IF AcceptsHeader(Next1)
                 THEN Completed([reader EXCEPT !.taken = @ + 1, !.sequence = Next1.sequence,
                                               !.left = Next1.body])
                 ELSE [reader EXCEPT !.state = "Refused"]
  /\ UNCHANGED <<transport, requested, native, holder, writer, calls, answered, failures>>

ReadBody ==
  /\ reader.state = "Body" /\ Available
  /\ reader' = Completed([reader EXCEPT !.taken = @ + 1, !.left = @ - 1,
                                        !.intact = @ /\ Next1.sequence = reader.sequence
                                                     /\ Next1.piece > 0])
  /\ UNCHANGED <<transport, requested, native, holder, writer, calls, answered, failures>>

ConnectionNext ==
  \/ \E t \in Threads :
       \/ \E record \in Records : Write(t, record)
       \/ \E mode \in Modes : SetFlushMode(t, mode)
       \/ Flush(t) \/ SetSendBodyLimit(t)
       \/ Shutdown(t)
       \/ Refused(t) \/ WriteTooLong(t) \/ Sequence(t)
       \/ Transfer(t) \/ TransferFails(t) \/ Cancelled(t) \/ WriteFailed(t) \/ Wrote(t)
       \/ FlushTransfer(t) \/ FlushEnds(t) \/ FlushFails(t)
       \/ FlushFailed(t) \/ FlushSucceeded(t)
       \/ StartsFlush(t) \/ SwitchesMode(t) \/ SetsLimit(t) \/ Done(t)
       \/ ShutdownStep(t)
  \/ ReadHeader
  \/ ReadBody

ConnectionSpec == ConnectionInit /\ [][ConnectionNext]_connectionVars

\* A thread that shuts the connection down is scheduled; nothing is assumed of
\* the writers, which the transport may block, or of the reader.
ConnectionFairness == \A t \in Threads : WF_connectionVars(ShutdownStep(t))

(***************************************************************************)
(* Properties.                                                             *)
(***************************************************************************)
Whole(record, units) ==
  \E i \in 1..Len(units) - record.body :
    SubSeq(units, i, i + record.body) = Units(record.sequence, record.body)

\* A record whose caller was told Ok is on the wire, whole; only one that was
\* batched may still wait in an adapter, or be lost with it at the shutdown.
\* A socket that is shut down during the write reports success for what it
\* drops (wire.rs:605-606): that success is never passed on.
OkMeansSent ==
  \A record \in answered :
    \/ Whole(record, transport.wire)
    \/ /\ transport.kind = "Live" /\ ~record.checkpoint
       /\ writer.closed \/ Whole(record, transport.wire \o transport.buffer)

\* Fewer than BATCH_RECORD_LIMIT records that were answered wait for a flush,
\* and none does once flushing is immediate, also after flushes that failed.
FlushedInTime ==
  LET waiting == {record \in answered : ~Whole(record, transport.wire)} IN
  holder = None /\ ~writer.closed =>
    /\ Cardinality(waiting) < BatchLimit
    /\ writer.flush_mode = "Immediate" => waiting = {}

\* While no transfer or flush failed, the reader refuses nothing and reads
\* records as they were written, in order: neither threads that write at once
\* nor records that are refused leave a gap or a torn record.
FramesRead ==
  failures = 0 =>
    reader.state # "Refused" /\ reader.intact /\ reader.read = [i \in 1..Len(reader.read) |-> i]

\* shutdown returns on a native transport while another thread is blocked in a
\* write, or waits, and the peer reads nothing (wire.rs:616-619).
ShutdownReturns ==
  transport.kind = "Native" =>
    \A t \in Threads :
      (calls[t] # None /\ calls[t].op = "Shutdown") ~> calls[t] = None
=============================================================================
