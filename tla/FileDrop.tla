------------------------------ MODULE FileDrop ------------------------------
(***************************************************************************)
(* One dropped file on its way from a presenter to a producer.  Bindings,  *)
(* offers and the recovery of a transfer travel on control, which keeps    *)
(* order; each generation of the transfer has a connection of its own,     *)
(* which may be lost or be given up by the producer alone, with data and   *)
(* credit still in flight.  The gate and the two flows are those of        *)
(* file_drop.rs (FileTransfer); the programs around them follow            *)
(* tests/file_drop_model.rs and the document of the profile.               *)
(***************************************************************************)
EXTENDS FileTransfer, Collections

CONSTANTS
  Lengths,          \* the file's length
  InitialCredits,   \* credit at the start of a generation (bound)
  MaxEpoch,         \* bindings of the producer (bound)
  MaxControl        \* messages on control when a binding is sent (bound)

Bindings == [epoch: 1..MaxEpoch, limit: {0, 1}]
Grants == [epoch: Nat, generation: Nat, limit: {0, 1}, state: {"Enabled", "Denied", "Disabled"}]
Credits == [bytes: Nat, records: Nat]

ASSUME FileDropAssumption ==
  /\ MaxEpoch \in Nat /\ Lengths \subseteq Nat /\ InitialCredits \subseteq Credits
  /\ None \notin Bindings /\ None \notin Grants

VARIABLES
  gate,             \* the presenter's FileDropGate
  drop,             \* the presenter's drop: phase, grant, and the generation it finished in
  sender,           \* the presenter's FileTransferFlow
  binding,          \* the last binding the producer sent
  known,            \* the last grant the producer was told
  recv,             \* the producer's phase, the grant it accepted under, its flow and its file
  to_presenter, to_producer,
  conns,            \* the connection of each generation
  length,
  told,             \* history: the grants the producer was told
  commits           \* how often the producer gave the file its name

presenterVars == <<gate, drop, sender>>
producerVars == <<binding, known, recv>>
control == <<to_presenter, to_producer>>
history == <<length, told, commits>>
fileDropVars == <<presenterVars, producerVars, control, conns, history>>

NoFlow == NewFlow(0, 0, [bytes |-> 0, records |-> 0])
NoBinding == [epoch |-> 0, limit |-> 0]

FileDropInit ==
  /\ gate = NewGate
  /\ drop = [phase |-> "None", grant |-> None, finished |-> 0]
  /\ sender = NoFlow
  /\ binding = NoBinding
  /\ known = None
  /\ recv = [phase |-> "None", grant |-> None, flow |-> NoFlow, stored |-> <<>>]
  /\ to_presenter = <<>> /\ to_producer = <<>>
  /\ conns = Empty
  /\ length \in Lengths
  /\ told = {}
  /\ commits = 0

TellPresenter(m) == to_presenter' = Append(to_presenter, m)
TellProducer(messages) == to_producer' = to_producer \o messages
FromProducer(type) == to_presenter # <<>> /\ Head(to_presenter).type = type
FromPresenter(type) == to_producer # <<>> /\ Head(to_producer).type = type

LivePhases == {"Offered", "Accepted", "Transferring"}
DropLives == drop.phase \in LivePhases

(***************************************************************************)
(* Bindings.                                                               *)
(***************************************************************************)
\* A new epoch, or the last binding again.
SetBinding(b) ==
  /\ b = binding \/ b.epoch = binding.epoch + 1
  /\ b.epoch \in 1..MaxEpoch
  /\ Len(to_presenter) < MaxControl /\ Len(to_producer) < MaxControl
  /\ binding' = b
  /\ TellPresenter([type |-> "Bind", binding |-> b])
  /\ UNCHANGED <<presenterVars, known, recv, to_producer, conns, history>>

\* A changed binding ends what was offered under the one before.
ReceiveBinding(allow) ==
  /\ FromProducer("Bind")
  /\ gate' \in Apply(gate, Head(to_presenter).binding, allow)
  /\ LET ends == gate'.latest # gate.latest /\ DropLives IN
     /\ drop' = IF ends THEN [drop EXCEPT !.phase = "Cancelled"] ELSE drop
     /\ TellProducer(<<[type |-> "Bound", grant |-> gate'.last_result]>>
                       \o (IF ends THEN <<[type |-> "Cancelled"]>> ELSE <<>>))
  /\ to_presenter' = Tail(to_presenter)
  /\ UNCHANGED <<sender, producerVars, conns, history>>

ReceiveBound ==
  /\ FromPresenter("Bound")
  /\ known' = Head(to_producer).grant
  /\ told' = told \union {known'}
  /\ to_producer' = Tail(to_producer)
  /\ UNCHANGED <<presenterVars, binding, recv, to_presenter, conns, length, commits>>

(***************************************************************************)
(* Offer, acceptance and cancellation.                                     *)
(***************************************************************************)
Offer ==
  /\ drop.phase = "None" /\ gate.current # None
  /\ drop' = [phase |-> "Offered", grant |-> gate.current, finished |-> 0]
  /\ TellProducer(<<[type |-> "Offer", grant |-> gate.current]>>)
  /\ UNCHANGED <<gate, sender, producerVars, to_presenter, conns, history>>

AcceptOffer(credit) ==
  /\ FromPresenter("Offer") /\ Head(to_producer).grant = known
  /\ recv' = [recv EXCEPT !.phase = "Accepting", !.grant = known, !.flow = NewFlow(1, 0, credit)]
  /\ TellPresenter([type |-> "Accept", grant |-> known, credit |-> credit])
  /\ to_producer' = Tail(to_producer)
  /\ UNCHANGED <<presenterVars, binding, known, conns, history>>

\* An offer under another grant, or one that is not wanted.
DeclineOffer ==
  /\ FromPresenter("Offer")
  /\ recv' = [recv EXCEPT !.phase = "Cancelled"]
  /\ TellPresenter([type |-> "Cancel"])
  /\ to_producer' = Tail(to_producer)
  /\ UNCHANGED <<presenterVars, binding, known, conns, history>>

ReceiveAccept ==
  /\ FromProducer("Accept")
  /\ LET m == Head(to_presenter)
         current == drop.phase = "Offered" /\ drop.grant = m.grant
     IN /\ drop' = IF current THEN [drop EXCEPT !.phase = "Accepted"] ELSE drop
        /\ sender' = IF current THEN NewFlow(1, 0, m.credit) ELSE sender
        /\ TellProducer(IF current THEN <<[type |-> "Accepted"]>> ELSE <<>>)
  /\ to_presenter' = Tail(to_presenter)
  /\ UNCHANGED <<gate, producerVars, conns, history>>

ReceiveAccepted ==
  /\ FromPresenter("Accepted")
  /\ recv' = IF recv.phase = "Accepting" THEN [recv EXCEPT !.phase = "Accepted"] ELSE recv
  /\ to_producer' = Tail(to_producer)
  /\ UNCHANGED <<presenterVars, binding, known, to_presenter, conns, history>>

\* The user, a revocation or a timeout at the presenter.
PresenterCancels ==
  /\ DropLives
  /\ drop' = [drop EXCEPT !.phase = "Cancelled"]
  /\ TellProducer(<<[type |-> "Cancelled"]>>)
  /\ UNCHANGED <<gate, sender, producerVars, to_presenter, conns, history>>

\* A committed file stays; of any other nothing is kept.
ReceiveCancelled ==
  /\ FromPresenter("Cancelled")
  /\ recv' = IF commits = 0 THEN [recv EXCEPT !.phase = "Cancelled", !.stored = <<>>] ELSE recv
  /\ to_producer' = Tail(to_producer)
  /\ UNCHANGED <<presenterVars, binding, known, to_presenter, conns, history>>

ReceiveCancel ==
  /\ FromProducer("Cancel")
  /\ drop' = IF DropLives THEN [drop EXCEPT !.phase = "Cancelled"] ELSE drop
  /\ to_presenter' = Tail(to_presenter)
  /\ UNCHANGED <<gate, sender, producerVars, to_producer, conns, history>>

(***************************************************************************)
(* The connection of a generation: what goes down to the producer is in    *)
(* order, credit may overtake credit.  open is FALSE once it is lost.      *)
(***************************************************************************)
NewConnection(o) == [up |-> {o}, down |-> <<>>, open |-> TRUE]
Opening(flow) == [type |-> "Open", offset |-> flow.next_offset, credit |-> flow.credit]

OpenTransfer ==
  LET g == recv.flow.generation IN
  /\ recv.phase = "Accepted"
  /\ g \notin DOMAIN conns
  /\ conns' = With(conns, g, NewConnection(Opening(recv.flow)))
  /\ recv' = [recv EXCEPT !.phase = "Receiving"]
  /\ UNCHANGED <<presenterVars, binding, known, control, history>>

Up(g, type) == {m \in conns[g].up : m.type = type}
Without(g, m) == [conns EXCEPT ![g].up = @ \ {m}]

\* The opening must be of the transfer as it was accepted or advanced.
ReceiveOpen(g) ==
  \E m \in Up(g, "Open") :
    /\ drop' = IF drop.phase = "Accepted" /\ g = sender.generation /\ m = Opening(sender)
                 THEN [drop EXCEPT !.phase = "Transferring"] ELSE drop
    /\ conns' = Without(g, m)
    /\ UNCHANGED <<gate, sender, producerVars, control, history>>

Sends(m) ==
  LET g == sender.generation IN
  /\ drop.phase = "Transferring"
  /\ conns' = IF conns[g].open THEN [conns EXCEPT ![g].down = Append(@, m)] ELSE conns

SendData(n) ==
  /\ sender.next_offset + n <= length
  /\ Admits(sender, sender.next_offset, n)
  /\ Sends([type |-> "Data", offset |-> sender.next_offset, n |-> n])
  /\ sender' = Admitted(sender, n)
  /\ UNCHANGED <<gate, drop, producerVars, control, history>>

\* Once for each generation.
SendFinish ==
  /\ sender.next_offset = length /\ drop.finished < sender.generation
  /\ Sends([type |-> "Finish"])
  /\ drop' = [drop EXCEPT !.finished = sender.generation]
  /\ UNCHANGED <<gate, sender, producerVars, control, history>>

\* What waits for the producer on a connection it did not lose.
Arrives(g, type) == conns[g].open /\ conns[g].down # <<>> /\ Head(conns[g].down).type = type
Taken(g) == [conns EXCEPT ![g].down = Tail(@)]

\* The bytes of a record, each named by its place in the file.
Bytes(m) == [i \in 1..m.n |-> m.offset + i]

\* Mutant: data is taken from the connection of any generation.
FromAnyGeneration(g) == recv.phase = "Receiving"
\* The connection is the one that the transfer is received on.
Receives(g) == recv.phase = "Receiving" /\ g = recv.flow.generation

\* Data of an older generation is dropped; data that the flow refuses ends
\* the transfer.
ReceiveData(g) ==
  /\ Arrives(g, "Data")
  /\ LET m == Head(conns[g].down) IN
     recv' = IF ~Receives(g) THEN recv
             ELSE IF Admits(recv.flow, m.offset, m.n) /\ m.offset + m.n <= length
               THEN [recv EXCEPT !.flow = Admitted(@, m.n), !.stored = @ \o Bytes(m)]
               ELSE [recv EXCEPT !.phase = "Failed"]
  /\ conns' = Taken(g)
  /\ UNCHANGED <<presenterVars, binding, known, control, history>>

\* Mutant: a repeated finish gives the file a name again.
CommitsAgain == TRUE
Commits == commits = 0

ReceiveFinish(g) ==
  /\ Arrives(g, "Finish")
  /\ LET whole == recv.flow.next_offset = length
         answer == [type |-> "Result", result |-> IF Commits THEN "Committed" ELSE "AlreadyCommitted"]
     IN /\ recv' = IF ~Receives(g) THEN recv
                   ELSE [recv EXCEPT !.phase = IF whole THEN "Committed" ELSE "Failed"]
        /\ commits' = IF Receives(g) /\ whole /\ Commits THEN commits + 1 ELSE commits
        /\ conns' = IF Receives(g) /\ whole THEN [Taken(g) EXCEPT ![g].up = @ \union {answer}]
                    ELSE Taken(g)
  /\ UNCHANGED <<presenterVars, binding, known, control, length, told>>

\* Credit for one more byte and record, ahead of what was used or not.
Raise ==
  LET g == recv.flow.generation
      more == [bytes |-> recv.flow.credit.bytes + 1 + Prefix,
               records |-> recv.flow.credit.records + 1]
  IN
  /\ recv.phase = "Receiving" /\ conns[g].open
  /\ recv.flow.credit.records - recv.flow.sent_records < length - recv.flow.next_offset
  /\ recv' = [recv EXCEPT !.flow = Raised(@, more)]
  /\ conns' = [conns EXCEPT ![g].up = @ \union {[type |-> "Max", credit |-> more]}]
  /\ UNCHANGED <<presenterVars, binding, known, control, history>>

\* Credit for an older generation is dropped.
ReceiveMax(g) ==
  \E m \in Up(g, "Max") :
    /\ Up(g, "Open") = {}
    /\ sender' = IF g = sender.generation /\ drop.phase = "Transferring"
                   THEN Raised(sender, m.credit) ELSE sender
    /\ conns' = Without(g, m)
    /\ UNCHANGED <<gate, drop, producerVars, control, history>>

ReceiveResult(g) ==
  \E m \in Up(g, "Result") :
    /\ drop' = IF drop.phase = "Transferring" /\ g = sender.generation
                 THEN [drop EXCEPT !.phase = "Committed"] ELSE drop
    /\ conns' = Without(g, m)
    /\ UNCHANGED <<gate, sender, producerVars, control, history>>

\* What goes down is lost, of what goes up some still arrives.  The last
\* generation of the bound is not lost.
LoseConnection(g) ==
  /\ conns[g].open /\ g < MaxTransferGeneration
  /\ \E arrives \in SUBSET conns[g].up :
       conns' = [conns EXCEPT ![g] = [up |-> arrives, down |-> <<>>, open |-> FALSE]]
  /\ UNCHANGED <<presenterVars, producerVars, control, history>>

(***************************************************************************)
(* Recovery.                                                               *)
(***************************************************************************)
\* After a loss, or when nothing has arrived for too long; after a commit
\* whose result may be lost with its connection.
Advance(credit) ==
  LET g == recv.flow.generation IN
  /\ recv.phase \in {"Receiving", "Committed"}
  /\ recv.phase = "Committed" => ~conns[g].open
  /\ g < MaxTransferGeneration
  /\ TellPresenter([type |-> "Advance", generation |-> g + 1,
                    offset |-> recv.flow.next_offset, credit |-> credit])
  /\ recv' = [recv EXCEPT !.phase = "Advancing"]
  /\ UNCHANGED <<presenterVars, binding, known, to_producer, conns, history>>

\* What became of the drop is told when there is nothing to advance.
ReceiveAdvance ==
  /\ FromProducer("Advance")
  /\ LET m == Head(to_presenter)
         advances == drop.phase \in {"Accepted", "Transferring"}
                       /\ Advances(sender, m.generation, m.offset, m.credit)
     IN /\ sender' = IF advances THEN Advanced(sender, m.generation, m.offset, m.credit) ELSE sender
        /\ drop' = IF advances THEN [drop EXCEPT !.phase = "Accepted"] ELSE drop
        /\ TellProducer(<<IF advances THEN [m EXCEPT !.type = "Advanced"]
                          ELSE [type |-> "Status", phase |-> drop.phase]>>)
  /\ to_presenter' = Tail(to_presenter)
  /\ UNCHANGED <<gate, producerVars, conns, history>>

ReceiveAdvanced ==
  /\ FromPresenter("Advanced")
  /\ LET m == Head(to_producer) IN
     recv' = IF recv.phase = "Advancing"
               THEN [recv EXCEPT !.phase = "Accepted",
                                 !.flow = Advanced(@, m.generation, m.offset, m.credit)]
               ELSE recv
  /\ to_producer' = Tail(to_producer)
  /\ UNCHANGED <<presenterVars, binding, known, to_presenter, conns, history>>

ReceiveStatus ==
  /\ FromPresenter("Status")
  /\ recv' = IF recv.phase # "Advancing" THEN recv
             ELSE [recv EXCEPT !.phase = IF commits > 0 THEN "Done" ELSE "Cancelled"]
  /\ to_producer' = Tail(to_producer)
  /\ UNCHANGED <<presenterVars, binding, known, to_presenter, conns, history>>

(***************************************************************************)
(* Specification.  The programs act on what arrives, credit is given and   *)
(* used, and the producer recovers what was lost; nobody has to cancel,    *)
(* to bind again or to give up a connection that still works.              *)
(***************************************************************************)
Generations == 1..MaxTransferGeneration
Lost(g) == g \in DOMAIN conns /\ ~conns[g].open
Recovers == Lost(recv.flow.generation) /\ \E c \in InitialCredits : Advance(c)

ControlNext ==
  \/ \E b \in Bindings : SetBinding(b)
  \/ \E allow \in BOOLEAN : ReceiveBinding(allow)
  \/ ReceiveBound \/ Offer \/ DeclineOffer
  \/ \E c \in InitialCredits : AcceptOffer(c) \/ Advance(c)
  \/ ReceiveAccept \/ ReceiveAccepted
  \/ PresenterCancels \/ ReceiveCancelled \/ ReceiveCancel
  \/ ReceiveAdvance \/ ReceiveAdvanced \/ ReceiveStatus

TransferNext ==
  \/ OpenTransfer \/ SendFinish \/ Raise
  \/ \E n \in 1..length : SendData(n)
  \/ \E g \in DOMAIN conns :
       \/ ReceiveOpen(g) \/ ReceiveData(g) \/ ReceiveFinish(g)
       \/ ReceiveMax(g) \/ ReceiveResult(g) \/ LoseConnection(g)

FileDropNext == ControlNext \/ TransferNext

PresenterAnswers ==
  \/ \E allow \in BOOLEAN : ReceiveBinding(allow)
  \/ ReceiveAccept \/ ReceiveCancel \/ ReceiveAdvance
ProducerAnswers ==
  \/ ReceiveBound \/ DeclineOffer \/ ReceiveAccepted \/ ReceiveCancelled
  \/ ReceiveAdvanced \/ ReceiveStatus

Fairness ==
  /\ WF_fileDropVars(PresenterAnswers) /\ WF_fileDropVars(ProducerAnswers)
  /\ WF_fileDropVars(OpenTransfer) /\ WF_fileDropVars(Raise)
  /\ WF_fileDropVars(SendData(1)) /\ WF_fileDropVars(SendFinish)
  /\ WF_fileDropVars(Recovers)
  /\ \A g \in Generations :
       /\ WF_fileDropVars(g \in DOMAIN conns /\ ReceiveOpen(g))
       /\ WF_fileDropVars(g \in DOMAIN conns /\ (ReceiveData(g) \/ ReceiveFinish(g)))
       /\ WF_fileDropVars(g \in DOMAIN conns /\ (ReceiveMax(g) \/ ReceiveResult(g)))

FileDropSpec == FileDropInit /\ [][FileDropNext]_fileDropVars /\ Fairness

(***************************************************************************)
(* Properties.                                                             *)
(***************************************************************************)
\* However often the transfer is lost and resumed, and whatever is still in
\* flight, the producer holds a prefix of the file, up to the offset it
\* resumes at, and its flow refuses nothing a correct presenter sends
\* (FileTransferFlow::admit, advance).
ResumesExactly ==
  /\ recv.phase # "Failed"
  /\ recv.phase # "Cancelled" => recv.stored = [i \in 1..recv.flow.next_offset |-> i]

\* A file gets its name once, whole, and the presenter takes for committed
\* only what did (FILE_RESULT, a result lost with its connection).
CommittedOnce ==
  /\ commits <= 1
  /\ commits = 1 => recv.stored = [i \in 1..length |-> i]
  /\ drop.phase = "Committed" => commits = 1

\* A nonzero grant generation names one grant for good: a retry is answered
\* by it, a denial has its own, and a drop is accepted under the grant it
\* was offered under (FileDropGate::apply).
GrantNamedOnce ==
  /\ \A a, b \in told : a.generation = b.generation /\ a.generation # 0 => a = b
  /\ drop.phase \in {"Accepted", "Transferring", "Committed"} =>
       drop.grant = recv.grant /\ drop.grant.state = "Enabled"

\* An accepted transfer ends: credit that is lost, late or overtaken never
\* leaves both ends waiting (raise_maxima, advance).
TransferEnds == drop.phase = "Accepted" ~> drop.phase \in {"Committed", "Cancelled"}

(***************************************************************************)
(* The refinement.  How a transfer is recovered, and what is still in      *)
(* flight, does not show; what a producer that gave up had stored counts   *)
(* as nothing.                                                             *)
(***************************************************************************)
Abandoned == commits = 0 /\ recv.phase = "Cancelled"
Received == IF Abandoned THEN <<>> ELSE recv.stored
Receiver ==
  IF commits > 0 THEN "Committed" ELSE IF Abandoned THEN "Abandoned" ELSE "Open"
Outcome == IF drop.phase \in {"Committed", "Cancelled"} THEN drop.phase ELSE "Open"

Delivery == INSTANCE FileDelivery WITH
  received <- Received, receiver <- Receiver, outcome <- Outcome

\* However connections fail and the transfer is resumed, FileDrop delivers
\* the file as FileDelivery does; all else is a stutter.
ImplementsDelivery == Delivery!DeliverySpec
=============================================================================
