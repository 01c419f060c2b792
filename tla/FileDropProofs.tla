--------------------------- MODULE FileDropProofs ---------------------------
(***************************************************************************)
(* Proofs about FileDrop: a resumed transfer leaves a prefix of the file   *)
(* and is never refused, a file is committed once and whole, and a grant   *)
(* generation names one grant.  The invariant follows the handshake of a   *)
(* transfer: at most one of its messages is on control, and it says how    *)
(* far the two ends are apart; while data flows, what is in flight makes   *)
(* up the difference between the two flows.                                *)
(***************************************************************************)
EXTENDS FileDrop, SequenceTheorems, TLAPS

EnabledGrants == {g \in Grants : g.state = "Enabled"}
Gates ==
  [latest: Bindings \union {None}, generation: Nat,
   current: EnabledGrants \union {None}, last_result: Grants \union {None}]
DropPhases == {"None", "Offered", "Accepted", "Transferring", "Committed", "Cancelled"}
Drops == [phase: DropPhases, grant: EnabledGrants \union {None}, finished: Nat]
Flows ==
  [generation: Nat, next_offset: Nat, sent_body_bytes: Nat, sent_records: Nat,
   credit: Credits]
Receivers ==
  [phase: {"None", "Accepting", "Accepted", "Receiving", "Committed", "Advancing",
           "Done", "Cancelled", "Failed"},
   grant: Grants \union {None}, flow: Flows, stored: Seq(Nat)]

ToProducer ==
       [type: {"Bound", "Offer"}, grant: Grants]
  \cup [type: {"Accepted", "Cancelled"}]
  \cup [type: {"Advanced"}, generation: Nat, offset: Nat, credit: Credits]
  \cup [type: {"Status"}, phase: DropPhases]
ToPresenter ==
       [type: {"Bind"}, binding: Bindings]
  \cup [type: {"Accept"}, grant: Grants, credit: Credits]
  \cup [type: {"Cancel"}]
  \cup [type: {"Advance"}, generation: Nat, offset: Nat, credit: Credits]
Ups ==
       [type: {"Open"}, offset: Nat, credit: Credits]
  \cup [type: {"Max"}, credit: Credits]
  \cup [type: {"Result"}, result: {"Committed", "AlreadyCommitted"}]
Downs == [type: {"Data"}, offset: Nat, n: Nat] \cup [type: {"Finish"}]
Connections == [up: SUBSET Ups, down: Seq(Downs), open: BOOLEAN]

Typed ==
  /\ gate \in Gates /\ (gate.latest # None => gate.last_result # None)
  /\ drop \in Drops /\ (drop.phase # "None" => drop.grant # None)
  /\ sender \in Flows
  /\ binding.epoch \in Nat
  /\ known \in Grants \union {None}
  /\ recv \in Receivers
  /\ to_presenter \in Seq(ToPresenter) /\ to_producer \in Seq(ToProducer)
  /\ DOMAIN conns \subseteq Nat /\ conns \in [DOMAIN conns -> Connections]
  /\ length \in Nat /\ told \subseteq Grants /\ commits \in Nat

-----------------------------------------------------------------------------
(* Which grants there are.                                                 *)
Elements(q) == {q[i] : i \in DOMAIN q}
Issued ==
  told \union {m.grant : m \in {e \in Elements(to_producer) : e.type = "Bound"}}
       \union ({gate.last_result} \ {None})
GrantsInv ==
  /\ \A a \in Issued : a.generation <= gate.generation
  /\ \A a, b \in Issued : a.generation = b.generation /\ a.generation # 0 => a = b

-----------------------------------------------------------------------------
(* The handshake: offer, acceptance and advances take turns on control.    *)
HandshakeTypes == {"Offer", "Accept", "Accepted", "Advance", "Advanced", "Status"}
Clear(q) == \A i \in DOMAIN q : q[i].type \notin HandshakeTypes
Single(q) ==
  \A i, j \in DOMAIN q :
    q[i].type \in HandshakeTypes /\ q[j].type \in HandshakeTypes => i = j
Turn(p, q) == Single(p) /\ Single(q) /\ (Clear(p) \/ Clear(q))

Fresh == recv.stored = <<>> /\ commits = 0 /\ conns = Empty

\* What a message of the handshake says of the two ends.
ProducerHears(m) ==
  /\ m.type = "Offer" =>
       /\ Fresh /\ recv.phase \in {"None", "Cancelled"}
       /\ drop.phase \in {"Offered", "Cancelled"}
  /\ m.type = "Accepted" =>
       /\ recv.phase \in {"Accepting", "Cancelled"}
       /\ recv.phase = "Accepting" => sender = recv.flow
  /\ m.type = "Advanced" =>
       /\ recv.phase \in {"Advancing", "Cancelled"}
       /\ recv.phase = "Advancing" =>
            /\ m.generation = recv.flow.generation + 1
            /\ m.offset = recv.flow.next_offset
            /\ sender = NewFlow(m.generation, m.offset, m.credit)
  /\ m.type = "Status" => recv.phase \in {"Advancing", "Cancelled"}
PresenterHears(m) ==
  /\ m.type = "Accept" =>
       /\ Fresh /\ recv.phase \in {"Accepting", "Cancelled"}
       /\ drop.phase \in {"Offered", "Cancelled"} /\ m.grant = recv.grant
       /\ recv.phase = "Accepting" => recv.flow = NewFlow(1, 0, m.credit)
  /\ m.type = "Advance" =>
       /\ recv.phase \in {"Advancing", "Cancelled"}
       /\ recv.phase = "Advancing" =>
            m.generation = recv.flow.generation + 1 /\ m.offset = recv.flow.next_offset

HandInv ==
  /\ Turn(to_producer, to_presenter)
  /\ \A m \in Elements(to_producer) : ProducerHears(m)
  /\ \A m \in Elements(to_presenter) : PresenterHears(m)
  /\ drop.phase = "None" =>
       /\ Clear(to_producer) /\ Clear(to_presenter)
       /\ Fresh /\ recv.phase \in {"None", "Cancelled"}
  /\ drop.phase \in {"Accepted", "Transferring", "Committed"} => drop.grant = recv.grant

-----------------------------------------------------------------------------
(* What is in flight: k records that make up the difference between the    *)
(* flows, then nothing but the end of the file.                            *)
AtMost(a, b) == a.bytes <= b.bytes /\ a.records <= b.records
InFlight(s, r, l, down, k) ==
  /\ \A i \in 1..Len(down) : down[i].type = IF i <= k THEN "Data" ELSE "Finish"
  /\ k < Len(down) => s.next_offset = l
  /\ \A i \in 1..k :
       /\ down[i].n > 0
       /\ down[i].offset + down[i].n =
            IF i = k THEN s.next_offset ELSE down[i + 1].offset
       /\ down[i].offset + down[i].n <= s.next_offset
  /\ r.next_offset = IF k = 0 THEN s.next_offset ELSE down[1].offset
  /\ s.sent_records = r.sent_records + k
  /\ s.sent_body_bytes = r.sent_body_bytes
       + (s.next_offset - r.next_offset) + k * Prefix
Lined(s, r, l, down) == \E k \in 0..Len(down) : InFlight(s, r, l, down, k)

Aligned ==
  LET g == recv.flow.generation IN
  /\ sender.generation = g /\ g \in DOMAIN conns
  /\ AtMost(sender.credit, recv.flow.credit)
  /\ \A m \in conns[g].up : m.type = "Max" => AtMost(m.credit, recv.flow.credit)
  /\ conns[g].open => Lined(sender, recv.flow, length, conns[g].down)

ConnInv ==
  /\ \A g \in DOMAIN conns : g <= recv.flow.generation
  /\ recv.phase = "Accepting" => Fresh
  /\ recv.phase = "Accepted" =>
       recv.flow.generation \notin DOMAIN conns /\ sender = recv.flow
  /\ drop.phase = "Transferring" => sender.generation \in DOMAIN conns
  /\ sender.next_offset <= length
  /\ sender.sent_body_bytes <= sender.credit.bytes
  /\ sender.sent_records <= sender.credit.records
  /\ recv.phase = "Receiving" => Aligned

CommitInv ==
  /\ commits \in {0, 1}
  /\ commits = 1 => recv.flow.next_offset = length /\ recv.phase # "Cancelled"
  /\ drop.phase = "Committed" => commits = 1
  /\ \A g \in DOMAIN conns : \A m \in conns[g].up : m.type = "Result" => commits = 1

FileInv == Typed /\ GrantsInv /\ HandInv /\ ConnInv /\ CommitInv /\ ResumesExactly

-----------------------------------------------------------------------------
(* Queues.                                                                 *)
LEMMA ElementsTyped ==
  ASSUME NEW T, NEW q \in Seq(T)
  PROVE  /\ Elements(q) \subseteq T /\ Len(q) \in Nat /\ DOMAIN q = 1..Len(q)
         /\ \A i \in 1..Len(q) : q[i] \in Elements(q)
BY DEF Elements

LEMMA TailElements ==
  ASSUME NEW T, NEW q \in Seq(T), q # <<>>
  PROVE  /\ Tail(q) \in Seq(T) /\ Elements(Tail(q)) \subseteq Elements(q)
         /\ Head(q) \in Elements(q) /\ Head(q) \in T
         /\ Clear(q) => Clear(Tail(q))
         /\ Single(q) => Single(Tail(q))
         /\ Single(q) /\ Head(q).type \in HandshakeTypes => Clear(Tail(q))
<1> DEFINE p == Tail(q)
<1>1. /\ p \in Seq(T) /\ Len(q) \in Nat \ {0} /\ Len(p) = Len(q) - 1
      /\ \A i \in 1..Len(p) : p[i] = q[i + 1]
      /\ Head(q) = q[1] /\ DOMAIN p = 1..Len(p) /\ DOMAIN q = 1..Len(q)
      /\ \A i \in 1..Len(q) : q[i] \in T
  BY HeadTailProperties, LenProperties, ElementOfSeq, EmptySeq
<1> HIDE DEF p
<1>2. \A i \in DOMAIN p : i + 1 \in DOMAIN q /\ i \in Nat /\ i + 1 # 1 /\ p[i] = q[i + 1]
  BY <1>1
<1>3. 1 \in DOMAIN q
  BY <1>1
<1>4. Elements(p) \subseteq Elements(q) /\ Head(q) \in Elements(q) /\ Head(q) \in T
  BY <1>1, <1>2, <1>3 DEF Elements
<1>5. Clear(q) => Clear(p)
  BY <1>2 DEF Clear
<1>6. Single(q) => Single(p)
  BY <1>2 DEF Single
<1>7. Single(q) /\ Head(q).type \in HandshakeTypes => Clear(p)
  BY <1>1, <1>2, <1>3 DEF Single, Clear
<1> QED
  BY <1>1, <1>4, <1>5, <1>6, <1>7 DEF p

LEMMA AppendElements ==
  ASSUME NEW T, NEW q \in Seq(T), NEW m \in T
  PROVE  /\ Append(q, m) \in Seq(T) /\ Elements(Append(q, m)) = Elements(q) \union {m}
         /\ Clear(q) => Single(Append(q, m))
         /\ m.type \notin HandshakeTypes =>
              (Clear(q) => Clear(Append(q, m))) /\ (Single(q) => Single(Append(q, m)))
<1> DEFINE p == Append(q, m)
<1>1. /\ p \in Seq(T) /\ Len(q) \in Nat /\ Len(p) = Len(q) + 1
      /\ \A i \in 1..Len(q) : p[i] = q[i]
      /\ p[Len(q) + 1] = m /\ DOMAIN p = 1..Len(p) /\ DOMAIN q = 1..Len(q)
  BY AppendProperties, LenProperties
<1> HIDE DEF p
<1>2. DOMAIN p = DOMAIN q \union {Len(q) + 1} /\ Len(q) + 1 \notin DOMAIN q
  BY <1>1
<1>3. \A i \in DOMAIN q : p[i] = q[i]
  BY <1>1
<1>4. Elements(p) = Elements(q) \union {m}
  BY <1>1, <1>2, <1>3 DEF Elements
<1>5. Clear(q) => Single(p)
  BY <1>2, <1>3 DEF Clear, Single
<1>6. m.type \notin HandshakeTypes => (Clear(q) => Clear(p)) /\ (Single(q) => Single(p))
  BY <1>1, <1>2, <1>3 DEF Clear, Single
<1> QED
  BY <1>1, <1>4, <1>5, <1>6 DEF p

LEMMA ConcatMessages ==
  ASSUME NEW T, NEW q \in Seq(T), NEW a \in T, NEW b \in T
  PROVE  /\ q \o <<>> = q
         /\ q \o <<a>> = Append(q, a)
         /\ q \o (<<a>> \o <<>>) = Append(q, a)
         /\ q \o (<<a>> \o <<b>>) = Append(Append(q, a), b)
OBVIOUS

-----------------------------------------------------------------------------
(* Messages, flows and connections.                                        *)
LEMMA Constants ==
  /\ Prefix \in Nat /\ MaxEpoch \in Nat
  /\ None \notin Bindings /\ None \notin Grants /\ None \notin EnabledGrants
  /\ \A l \in Lengths : l \in Nat
  /\ \A c \in InitialCredits : c \in Credits
BY FileTransferAssumption, FileDropAssumption DEF EnabledGrants

LEMMA ToProducerTyped ==
  /\ \A g \in Grants : [type |-> "Bound", grant |-> g] \in ToProducer
  /\ \A g \in Grants : [type |-> "Offer", grant |-> g] \in ToProducer
  /\ [type |-> "Accepted"] \in ToProducer /\ [type |-> "Cancelled"] \in ToProducer
  /\ \A n, o \in Nat, c \in Credits :
       [type |-> "Advanced", generation |-> n, offset |-> o, credit |-> c] \in ToProducer
  /\ \A p \in DropPhases : [type |-> "Status", phase |-> p] \in ToProducer
BY DEF ToProducer

LEMMA ToPresenterTyped ==
  /\ \A b \in Bindings : [type |-> "Bind", binding |-> b] \in ToPresenter
  /\ \A g \in Grants, c \in Credits :
       [type |-> "Accept", grant |-> g, credit |-> c] \in ToPresenter
  /\ [type |-> "Cancel"] \in ToPresenter
  /\ \A n, o \in Nat, c \in Credits :
       [type |-> "Advance", generation |-> n, offset |-> o, credit |-> c] \in ToPresenter
BY DEF ToPresenter

LEMMA ToProducerFields ==
  ASSUME NEW m \in ToProducer
  PROVE  /\ m.type \in {"Bound", "Offer"} => m.grant \in Grants
         /\ m.type = "Advanced" =>
              m.generation \in Nat /\ m.offset \in Nat /\ m.credit \in Credits
BY DEF ToProducer

LEMMA ToPresenterFields ==
  ASSUME NEW m \in ToPresenter
  PROVE  /\ m.type = "Bind" => m.binding \in Bindings
         /\ m.type = "Accept" => m.grant \in Grants /\ m.credit \in Credits
         /\ m.type = "Advance" =>
              /\ m.generation \in Nat /\ m.offset \in Nat /\ m.credit \in Credits
              /\ m = [type |-> "Advance", generation |-> m.generation,
                      offset |-> m.offset, credit |-> m.credit]
BY DEF ToPresenter

LEMMA UpsTyped ==
  /\ \A o \in Nat, c \in Credits : [type |-> "Open", offset |-> o, credit |-> c] \in Ups
  /\ \A c \in Credits : [type |-> "Max", credit |-> c] \in Ups
  /\ \A r \in {"Committed", "AlreadyCommitted"} : [type |-> "Result", result |-> r] \in Ups
  /\ \A m \in Ups : m.type = "Max" => m.credit \in Credits
BY DEF Ups

LEMMA DownsTyped ==
  /\ \A o, n \in Nat : [type |-> "Data", offset |-> o, n |-> n] \in Downs
  /\ [type |-> "Finish"] \in Downs
  /\ \A m \in Downs : m.type = "Data" => m.offset \in Nat /\ m.n \in Nat
BY DEF Downs

LEMMA NewFlowTyped ==
  ASSUME NEW g \in Nat, NEW o \in Nat, NEW c \in Credits
  PROVE  /\ NewFlow(g, o, c) \in Flows
         /\ NewFlow(g, o, c) =
              [generation |-> g, next_offset |-> o, sent_body_bytes |-> 0,
               sent_records |-> 0, credit |-> c]
BY DEF NewFlow, Flows

LEMMA FlowFields ==
  ASSUME NEW f \in Flows
  PROVE  /\ f = [generation |-> f.generation, next_offset |-> f.next_offset,
                 sent_body_bytes |-> f.sent_body_bytes, sent_records |-> f.sent_records,
                 credit |-> f.credit]
         /\ f.generation \in Nat /\ f.next_offset \in Nat /\ f.sent_body_bytes \in Nat
         /\ f.sent_records \in Nat /\ f.credit \in Credits
         /\ f.credit.bytes \in Nat /\ f.credit.records \in Nat
BY DEF Flows, Credits

LEMMA AdmittedFields ==
  ASSUME NEW f \in Flows, NEW n \in Nat
  PROVE  /\ Admitted(f, n) \in Flows
         /\ Admitted(f, n) =
              [generation |-> f.generation, next_offset |-> f.next_offset + n,
               sent_body_bytes |-> f.sent_body_bytes + n + Prefix,
               sent_records |-> f.sent_records + 1, credit |-> f.credit]
<1> DEFINE o == f.next_offset + n
           b == f.sent_body_bytes + n + Prefix
           r == f.sent_records + 1
           x == [f EXCEPT !.next_offset = o]
           y == [x EXCEPT !.sent_body_bytes = b]
<1>1. o \in Nat /\ b \in Nat /\ r \in Nat
  BY FlowFields, Constants
<1>2. Admitted(f, n) = [y EXCEPT !.sent_records = r]
  BY DEF Admitted, Flows
<1> HIDE DEF o, b, r
<1>3. x = [generation |-> f.generation, next_offset |-> o,
           sent_body_bytes |-> f.sent_body_bytes, sent_records |-> f.sent_records,
           credit |-> f.credit]
  BY DEF Flows
<1> HIDE DEF x
<1>4. y = [generation |-> f.generation, next_offset |-> o, sent_body_bytes |-> b,
           sent_records |-> f.sent_records, credit |-> f.credit]
  BY <1>3
<1> HIDE DEF y
<1>5. Admitted(f, n) =
        [generation |-> f.generation, next_offset |-> o, sent_body_bytes |-> b,
         sent_records |-> r, credit |-> f.credit]
  BY <1>2, <1>4
<1>6. Admitted(f, n) \in Flows
  BY <1>1, <1>5, FlowFields DEF Flows
<1> QED
  BY <1>5, <1>6 DEF o, b, r

LEMMA RaisedFields ==
  ASSUME NEW f \in Flows, NEW c \in Credits
  PROVE  /\ Raised(f, c) \in Flows
         /\ \E d \in Credits :
              /\ Raised(f, c) =
                   [generation |-> f.generation, next_offset |-> f.next_offset,
                    sent_body_bytes |-> f.sent_body_bytes,
                    sent_records |-> f.sent_records, credit |-> d]
              /\ AtMost(f.credit, d) /\ AtMost(c, d)
              /\ \A e \in Credits : AtMost(f.credit, e) /\ AtMost(c, e) => AtMost(d, e)
<1> DEFINE d == [bytes |-> Larger(f.credit.bytes, c.bytes),
                 records |-> Larger(f.credit.records, c.records)]
<1>1. /\ f.credit.bytes \in Nat /\ f.credit.records \in Nat
      /\ c.bytes \in Nat /\ c.records \in Nat
  BY FlowFields DEF Credits
<1>2. d \in Credits /\ AtMost(f.credit, d) /\ AtMost(c, d)
  BY <1>1 DEF Larger, AtMost, Credits
<1>3. \A e \in Credits : AtMost(f.credit, e) /\ AtMost(c, e) => AtMost(d, e)
  BY <1>1 DEF Larger, AtMost, Credits
<1>4. Raised(f, c) = [f EXCEPT !.credit = d]
  BY DEF Raised, Flows
<1> HIDE DEF d
<1>5. Raised(f, c) = [generation |-> f.generation, next_offset |-> f.next_offset,
                      sent_body_bytes |-> f.sent_body_bytes,
                      sent_records |-> f.sent_records, credit |-> d]
  BY <1>4 DEF Flows
<1>6. Raised(f, c) \in Flows
  BY <1>2, <1>5, FlowFields DEF Flows
<1> QED
  BY <1>2, <1>3, <1>5, <1>6

LEMMA ReceiverFields ==
  ASSUME NEW r \in Receivers
  PROVE  /\ r = [phase |-> r.phase, grant |-> r.grant, flow |-> r.flow, stored |-> r.stored]
         /\ r.flow \in Flows /\ r.stored \in Seq(Nat) /\ r.grant \in Grants \union {None}
         /\ r.flow.generation \in Nat /\ r.flow.next_offset \in Nat
BY FlowFields DEF Receivers

LEMMA DropUpdates ==
  ASSUME NEW d \in Drops, NEW p \in DropPhases, NEW n \in Nat
  PROVE  /\ [d EXCEPT !.phase = p] = [phase |-> p, grant |-> d.grant, finished |-> d.finished]
         /\ [d EXCEPT !.finished = n] = [phase |-> d.phase, grant |-> d.grant, finished |-> n]
         /\ [d EXCEPT !.phase = p] \in Drops /\ [d EXCEPT !.finished = n] \in Drops
BY DEF Drops

LEMMA ConnFields ==
  ASSUME NEW C, C \in [DOMAIN C -> Connections], NEW g \in DOMAIN C
  PROVE  /\ C[g] = [up |-> C[g].up, down |-> C[g].down, open |-> C[g].open]
         /\ C[g].up \in SUBSET Ups /\ C[g].down \in Seq(Downs) /\ C[g].open \in BOOLEAN
BY DEF Connections

-----------------------------------------------------------------------------
(* What every step shares.                                                 *)
LEMMA GrantsKept ==
  ASSUME GrantsInv, UNCHANGED <<gate, told>>,
         \A e \in Elements(to_producer') : e.type = "Bound" => e \in Elements(to_producer)
  PROVE  GrantsInv'
<1>1. Issued' \subseteq Issued
  BY DEF Issued
<1> QED
  BY <1>1 DEF GrantsInv

\* A step that leaves both ends of the transfer alone, or cancels the drop.
LEMMA Aside ==
  ASSUME FileInv, UNCHANGED <<sender, recv, conns, length, commits>>,
         \/ drop' = drop
         \/ drop.phase \in LivePhases /\ drop' = [drop EXCEPT !.phase = "Cancelled"],
         Turn(to_producer, to_presenter)',
         Clear(to_producer) => Clear(to_producer)',
         Clear(to_presenter) => Clear(to_presenter)',
         \A m \in Elements(to_producer)' :
           m.type \in HandshakeTypes => m \in Elements(to_producer),
         \A m \in Elements(to_presenter)' :
           m.type \in HandshakeTypes => m \in Elements(to_presenter)
  PROVE  HandInv' /\ ConnInv' /\ CommitInv' /\ ResumesExactly'
<1>1. /\ drop'.grant = drop.grant
      /\ drop'.phase = drop.phase \/ (drop'.phase = "Cancelled" /\ drop.phase \in LivePhases)
  <2>1. drop \in Drops
    BY DEF FileInv, Typed
  <2>2. CASE drop' = drop
    BY <2>2
  <2>3. CASE drop.phase \in LivePhases /\ drop' = [drop EXCEPT !.phase = "Cancelled"]
    BY <2>1, <2>3 DEF Drops
  <2> QED
    BY <2>2, <2>3
<1>2. HandInv
  BY DEF FileInv
<1>3. \A m \in Elements(to_producer)' : ProducerHears(m)'
  <2> SUFFICES ASSUME NEW m \in Elements(to_producer)' PROVE ProducerHears(m)'
    OBVIOUS
  <2>1. CASE m.type \in HandshakeTypes
    <3>1. ProducerHears(m)
      BY <2>1, <1>2 DEF HandInv
    <3> QED
      BY <3>1, <1>1 DEF ProducerHears, Fresh, LivePhases
  <2>2. CASE m.type \notin HandshakeTypes
    BY <2>2 DEF ProducerHears, HandshakeTypes
  <2> QED
    BY <2>1, <2>2
<1>4. \A m \in Elements(to_presenter)' : PresenterHears(m)'
  <2> SUFFICES ASSUME NEW m \in Elements(to_presenter)' PROVE PresenterHears(m)'
    OBVIOUS
  <2>1. CASE m.type \in HandshakeTypes
    <3>1. PresenterHears(m)
      BY <2>1, <1>2 DEF HandInv
    <3> QED
      BY <3>1, <1>1 DEF PresenterHears, Fresh, LivePhases
  <2>2. CASE m.type \notin HandshakeTypes
    BY <2>2 DEF PresenterHears, HandshakeTypes
  <2> QED
    BY <2>1, <2>2
<1>5. /\ drop'.phase = "None" => drop.phase = "None"
      /\ drop'.phase \in {"Accepted", "Transferring", "Committed"} => drop'.phase = drop.phase
  BY <1>1 DEF LivePhases
<1>6. HandInv'
  BY <1>1, <1>2, <1>3, <1>4, <1>5 DEF HandInv, Fresh
<1>7. ConnInv'
  <2>1. ConnInv
    BY DEF FileInv
  <2>2. Aligned => Aligned'
    BY DEF Aligned, Lined, InFlight
  <2> QED
    BY <1>5, <2>1, <2>2 DEF ConnInv, Fresh
<1>8. CommitInv'
  BY <1>5 DEF FileInv, CommitInv
<1>9. ResumesExactly'
  BY DEF FileInv, ResumesExactly
<1> QED
  BY <1>6, <1>7, <1>8, <1>9

LEMMA TurnSwap == ASSUME NEW p, NEW q PROVE Turn(p, q) <=> Turn(q, p)
BY DEF Turn

\* A message that is not of the handshake leaves its queue, or enters it.
LEMMA ShedTurn ==
  ASSUME NEW T, NEW p \in Seq(T), NEW q, Turn(p, q), p # <<>>
  PROVE  /\ Turn(Tail(p), q)
         /\ Head(p).type \in HandshakeTypes => Clear(Tail(p)) /\ Clear(q)
<1>1. /\ Clear(p) => Clear(Tail(p))
      /\ Single(p) => Single(Tail(p))
      /\ Single(p) /\ Head(p).type \in HandshakeTypes => Clear(Tail(p))
  BY TailElements
<1>2. Head(p).type \in HandshakeTypes => ~Clear(p)
  BY HeadTailProperties, EmptySeq, LenProperties DEF Clear
<1> QED
  BY <1>1, <1>2 DEF Turn

LEMMA JoinTurn ==
  ASSUME NEW T, NEW p \in Seq(T), NEW q, Turn(p, q), NEW m \in T
  PROVE  /\ m.type \notin HandshakeTypes => Turn(Append(p, m), q)
         /\ Clear(p) /\ Clear(q) => Turn(Append(p, m), q)
BY AppendElements DEF Turn

LEMMA ClearTurn == ASSUME NEW p, NEW q, Clear(p), Clear(q) PROVE Turn(p, q)
BY DEF Turn, Clear, Single

-----------------------------------------------------------------------------
(* Bindings and cancellation.                                              *)
LEMMA FileParts ==
  ASSUME FileInv
  PROVE  /\ Typed /\ GrantsInv /\ HandInv /\ ConnInv /\ CommitInv /\ ResumesExactly
         /\ Turn(to_producer, to_presenter) /\ Turn(to_presenter, to_producer)
         /\ to_producer \in Seq(ToProducer) /\ to_presenter \in Seq(ToPresenter)
         /\ gate \in Gates /\ drop \in Drops /\ sender \in Flows /\ recv \in Receivers
         /\ DOMAIN conns \subseteq Nat /\ conns \in [DOMAIN conns -> Connections]
BY TurnSwap DEF FileInv, Typed, HandInv

LEMMA RecvPhase ==
  ASSUME FileInv, NEW p
  PROVE  [recv EXCEPT !.phase = p] =
           [phase |-> p, grant |-> recv.grant, flow |-> recv.flow, stored |-> recv.stored]
<1>1. recv \in Receivers
  BY FileParts
<1>2. recv = [phase |-> recv.phase, grant |-> recv.grant, flow |-> recv.flow,
              stored |-> recv.stored]
  BY <1>1, ReceiverFields
<1> QED
  BY <1>2

LEMMA RecvFlow ==
  ASSUME FileInv, NEW f
  PROVE  [recv EXCEPT !.flow = f] =
           [phase |-> recv.phase, grant |-> recv.grant, flow |-> f, stored |-> recv.stored]
<1>1. recv \in Receivers
  BY FileParts
<1>2. recv = [phase |-> recv.phase, grant |-> recv.grant, flow |-> recv.flow,
              stored |-> recv.stored]
  BY <1>1, ReceiverFields
<1> QED
  BY <1>2

LEMMA SetBindingStep ==
  ASSUME FileInv, NEW b \in Bindings, SetBinding(b) PROVE FileInv'
<1> DEFINE m == [type |-> "Bind", binding |-> b]
<1>1. /\ to_presenter' = Append(to_presenter, m) /\ binding' = b
      /\ UNCHANGED <<gate, drop, sender, known, recv, to_producer, conns, length, told, commits>>
  BY DEF SetBinding, TellPresenter, presenterVars, history
<1>2. m \in ToPresenter /\ m.type \notin HandshakeTypes /\ b.epoch \in Nat
  BY ToPresenterTyped, Constants DEF HandshakeTypes, Bindings
<1> HIDE DEF m
<1>3. /\ to_presenter' \in Seq(ToPresenter)
      /\ Elements(to_presenter') = Elements(to_presenter) \union {m}
      /\ Clear(to_presenter) => Clear(to_presenter')
  BY <1>1, <1>2, FileParts, AppendElements
<1>4. Turn(to_producer, to_presenter)'
  <2>1. Turn(Append(to_presenter, m), to_producer)
    BY <1>2, FileParts, JoinTurn
  <2> QED
    BY <1>1, <2>1, TurnSwap
<1>5. HandInv' /\ ConnInv' /\ CommitInv' /\ ResumesExactly'
  <2>1. /\ Elements(to_presenter)' = Elements(to_presenter')
        /\ Elements(to_producer)' = Elements(to_producer)
        /\ Clear(to_presenter)' = Clear(to_presenter') /\ Clear(to_producer)' = Clear(to_producer)
    BY <1>1 DEF Elements, Clear
  <2> QED
    BY <1>1, <1>2, <1>3, <1>4, <2>1, Aside
<1>6. GrantsInv'
  BY <1>1, FileParts, GrantsKept
<1>7. Typed'
  BY <1>1, <1>2, <1>3, FileParts DEF Typed
<1> QED
  BY <1>5, <1>6, <1>7 DEF FileInv

LEMMA ReceiveBoundStep == ASSUME FileInv, ReceiveBound PROVE FileInv'
<1> DEFINE m == Head(to_producer)
<1>1. /\ to_producer # <<>> /\ m.type = "Bound" /\ known' = m.grant
      /\ told' = told \union {m.grant} /\ to_producer' = Tail(to_producer)
      /\ UNCHANGED <<gate, drop, sender, binding, recv, to_presenter, conns, length, commits>>
  BY DEF ReceiveBound, FromPresenter, presenterVars
<1>2. /\ to_producer' \in Seq(ToProducer) /\ Elements(to_producer') \subseteq Elements(to_producer)
      /\ m \in Elements(to_producer) /\ m \in ToProducer
      /\ Clear(to_producer) => Clear(to_producer')
  BY <1>1, FileParts, TailElements
<1>3. Turn(to_producer, to_presenter)'
  BY <1>1, FileParts, ShedTurn
<1>4. HandInv' /\ ConnInv' /\ CommitInv' /\ ResumesExactly'
  <2>1. /\ Elements(to_presenter)' = Elements(to_presenter)
        /\ Clear(to_presenter)' = Clear(to_presenter) /\ Clear(to_producer)' = Clear(to_producer')
    BY <1>1 DEF Elements, Clear
  <2> QED
    BY <1>1, <1>2, <1>3, <2>1, Aside
<1>5. m.grant \in Grants
  BY <1>1, <1>2, ToProducerFields
<1> HIDE DEF m
<1>6. GrantsInv'
  <2>1. Issued' \subseteq Issued
    BY <1>1, <1>2 DEF Issued
  <2> QED
    BY <1>1, <2>1, FileParts DEF GrantsInv
<1>7. Typed'
  BY <1>1, <1>2, <1>5, FileParts DEF Typed
<1> QED
  BY <1>4, <1>6, <1>7 DEF FileInv

LEMMA PresenterCancelsStep == ASSUME FileInv, PresenterCancels PROVE FileInv'
<1> DEFINE m == [type |-> "Cancelled"]
<1>1. /\ drop.phase \in LivePhases /\ drop' = [drop EXCEPT !.phase = "Cancelled"]
      /\ to_producer' = Append(to_producer, m)
      /\ UNCHANGED <<gate, sender, binding, known, recv, to_presenter, conns, length, told, commits>>
  <2>1. m \in ToProducer /\ to_producer \in Seq(ToProducer)
    BY ToProducerTyped, FileParts
  <2> QED
    BY <2>1, ConcatMessages DEF PresenterCancels, DropLives, TellProducer, producerVars, history
<1>2. m \in ToProducer /\ m.type \notin HandshakeTypes /\ m.type # "Bound"
  BY ToProducerTyped DEF HandshakeTypes
<1> HIDE DEF m
<1>3. /\ to_producer' \in Seq(ToProducer)
      /\ Elements(to_producer') = Elements(to_producer) \union {m}
      /\ Clear(to_producer) => Clear(to_producer')
  BY <1>1, <1>2, FileParts, AppendElements
<1>4. Turn(to_producer, to_presenter)'
  BY <1>1, <1>2, FileParts, JoinTurn
<1>5. HandInv' /\ ConnInv' /\ CommitInv' /\ ResumesExactly'
  <2>1. /\ Elements(to_presenter)' = Elements(to_presenter)
        /\ Clear(to_presenter)' = Clear(to_presenter) /\ Clear(to_producer)' = Clear(to_producer')
    BY <1>1 DEF Elements, Clear
  <2> QED
    BY <1>1, <1>2, <1>3, <1>4, <2>1, Aside
<1>6. GrantsInv'
  BY <1>1, <1>2, <1>3, FileParts, GrantsKept
<1>7. drop' \in Drops /\ drop'.grant = drop.grant
  BY <1>1, FileParts DEF Drops, DropPhases
<1>8. Typed'
  BY <1>1, <1>2, <1>3, <1>7, FileParts DEF Typed, LivePhases
<1> QED
  BY <1>5, <1>6, <1>8 DEF FileInv

LEMMA ReceiveCancelStep == ASSUME FileInv, ReceiveCancel PROVE FileInv'
<1>1. /\ to_presenter # <<>> /\ Head(to_presenter).type = "Cancel"
      /\ to_presenter' = Tail(to_presenter)
      /\ \/ drop' = drop
         \/ drop.phase \in LivePhases /\ drop' = [drop EXCEPT !.phase = "Cancelled"]
      /\ UNCHANGED <<gate, sender, binding, known, recv, to_producer, conns, length, told, commits>>
  BY DEF ReceiveCancel, FromProducer, DropLives, producerVars, history
<1>2. /\ to_presenter' \in Seq(ToPresenter)
      /\ Elements(to_presenter') \subseteq Elements(to_presenter)
      /\ Clear(to_presenter) => Clear(to_presenter')
  BY <1>1, FileParts, TailElements
<1>3. Turn(to_producer, to_presenter)'
  <2>1. Turn(Tail(to_presenter), to_producer)
    BY <1>1, FileParts, ShedTurn
  <2> QED
    BY <1>1, <2>1, TurnSwap
<1>4. HandInv' /\ ConnInv' /\ CommitInv' /\ ResumesExactly'
  <2>1. /\ Elements(to_producer)' = Elements(to_producer)
        /\ Clear(to_presenter)' = Clear(to_presenter') /\ Clear(to_producer)' = Clear(to_producer)
    BY <1>1 DEF Elements, Clear
  <2> QED
    BY <1>1, <1>2, <1>3, <2>1, Aside
<1>5. GrantsInv'
  BY <1>1, FileParts, GrantsKept
<1>6. drop' \in Drops /\ drop'.grant = drop.grant /\ (drop'.phase # "None" => drop.phase # "None")
  <2>1. CASE drop' = drop
    BY <2>1, FileParts
  <2>2. CASE drop.phase \in LivePhases /\ drop' = [drop EXCEPT !.phase = "Cancelled"]
    BY <2>2, FileParts DEF Drops, DropPhases, LivePhases
  <2> QED
    BY <1>1, <2>1, <2>2
<1>7. Typed'
  BY <1>1, <1>2, <1>6, FileParts DEF Typed
<1> QED
  BY <1>4, <1>5, <1>7 DEF FileInv

LEMMA ApplyGate ==
  ASSUME Typed, NEW b \in Bindings, NEW allow \in BOOLEAN, NEW g \in Apply(gate, b, allow)
  PROVE  /\ g \in Gates /\ g.latest = b /\ g.last_result \in Grants
         /\ \/ g.generation = gate.generation /\ g.last_result = gate.last_result
            \/ g.generation = gate.generation /\ g.last_result.generation = 0
            \/ /\ g.generation = gate.generation + 1
               /\ g.last_result.generation = gate.generation + 1
<1>1. /\ gate \in Gates /\ gate.generation \in Nat /\ b.epoch \in Nat /\ b.limit \in {0, 1}
      /\ b # None
  BY Constants DEF Typed, Gates, Bindings
<1>2. CASE ExactRetry(gate, b)
  <2>1. g = gate
    BY <1>2 DEF Apply, ExactRetry, Backward
  <2>2. gate.last_result \in Grants
    BY <1>1, <1>2 DEF ExactRetry, Typed, Gates
  <2> QED
    BY <1>1, <1>2, <2>1, <2>2 DEF ExactRetry
<1>3. CASE ~ExactRetry(gate, b) /\ g = Disabled(gate, b)
  <2> DEFINE r == Grant(b, 0, "Disabled")
             x == [gate EXCEPT !.latest = b]
             y == [x EXCEPT !.current = None]
  <2>1. r \in Grants /\ r.generation = 0
    BY <1>1 DEF Grant, Grants
  <2>2. g = [y EXCEPT !.last_result = r]
    BY <1>1, <1>3 DEF Disabled, Gates
  <2> HIDE DEF r
  <2>3. x = [latest |-> b, generation |-> gate.generation, current |-> gate.current,
             last_result |-> gate.last_result]
    BY <1>1 DEF Gates
  <2> HIDE DEF x
  <2>4. y = [latest |-> b, generation |-> gate.generation, current |-> None,
             last_result |-> gate.last_result]
    BY <2>3
  <2> HIDE DEF y
  <2>5. g = [latest |-> b, generation |-> gate.generation, current |-> None,
             last_result |-> r]
    BY <2>2, <2>4
  <2> QED
    BY <1>1, <2>1, <2>5 DEF Gates
<1>4. CASE ~ExactRetry(gate, b) /\ g = Applied(gate, b, allow)
  <2> DEFINE r == Grant(b, gate.generation + 1, IF allow THEN "Enabled" ELSE "Denied")
  <2>1. /\ r \in Grants /\ r.generation = gate.generation + 1
        /\ allow => r \in EnabledGrants
    BY <1>1 DEF Grant, Grants, EnabledGrants
  <2>2. g = [latest |-> b, generation |-> gate.generation + 1,
             current |-> IF allow THEN r ELSE None, last_result |-> r]
    BY <1>4 DEF Applied
  <2> HIDE DEF r
  <2> QED
    BY <1>1, <2>1, <2>2 DEF Gates
<1> QED
  BY <1>2, <1>3, <1>4 DEF Apply

LEMMA ReceiveBindingStep ==
  ASSUME FileInv, NEW allow \in BOOLEAN, ReceiveBinding(allow) PROVE FileInv'
<1> DEFINE b == Head(to_presenter).binding
           m == [type |-> "Bound", grant |-> gate'.last_result]
           n == [type |-> "Cancelled"]
           q == Append(to_producer, m)
<1>1. /\ to_presenter # <<>> /\ Head(to_presenter).type = "Bind"
      /\ to_presenter' = Tail(to_presenter) /\ gate' \in Apply(gate, b, allow)
      /\ UNCHANGED <<sender, binding, known, recv, conns, length, told, commits>>
  BY DEF ReceiveBinding, FromProducer, producerVars, history
<1>2. /\ to_presenter' \in Seq(ToPresenter) /\ Head(to_presenter) \in ToPresenter
      /\ Elements(to_presenter') \subseteq Elements(to_presenter)
      /\ Clear(to_presenter) => Clear(to_presenter')
  BY <1>1, FileParts, TailElements
<1>3. b \in Bindings
  BY <1>1, <1>2, ToPresenterFields
<1>4. /\ gate' \in Gates /\ gate'.latest = b /\ gate'.last_result \in Grants
      /\ \/ gate'.generation = gate.generation /\ gate'.last_result = gate.last_result
         \/ gate'.generation = gate.generation /\ gate'.last_result.generation = 0
         \/ /\ gate'.generation = gate.generation + 1
            /\ gate'.last_result.generation = gate.generation + 1
  BY <1>1, <1>3, FileParts, ApplyGate
<1>5. /\ m \in ToProducer /\ n \in ToProducer /\ m.type = "Bound" /\ m.grant = gate'.last_result
      /\ m.type \notin HandshakeTypes /\ n.type \notin HandshakeTypes /\ n.type # "Bound"
  BY <1>4, ToProducerTyped DEF HandshakeTypes
<1>6. /\ to_producer' = q \/ to_producer' = Append(q, n)
      /\ \/ drop' = drop
         \/ drop.phase \in LivePhases /\ drop' = [drop EXCEPT !.phase = "Cancelled"]
  <2> DEFINE ends == gate'.latest # gate.latest /\ DropLives
  <2>1. /\ drop' = IF ends THEN [drop EXCEPT !.phase = "Cancelled"] ELSE drop
        /\ to_producer' = to_producer \o (<<m>> \o (IF ends THEN <<n>> ELSE <<>>))
    BY DEF ReceiveBinding, TellProducer
  <2>2. /\ to_producer \o (<<m>> \o <<>>) = q
        /\ to_producer \o (<<m>> \o <<n>>) = Append(q, n)
    BY <1>5, FileParts, ConcatMessages
  <2> HIDE DEF m, n, q
  <2>3. CASE ends
    BY <2>1, <2>2, <2>3 DEF DropLives
  <2>4. CASE ~ends
    BY <2>1, <2>2, <2>4
  <2> QED
    BY <2>3, <2>4
<1> HIDE DEF m, n
<1>7. /\ q \in Seq(ToProducer) /\ Elements(q) = Elements(to_producer) \union {m}
      /\ Clear(to_producer) => Clear(q)
  BY <1>5, FileParts, AppendElements
<1>8. Turn(q, to_presenter)
  BY <1>5, FileParts, JoinTurn
<1> HIDE DEF q
<1>9. /\ Append(q, n) \in Seq(ToProducer)
      /\ Elements(Append(q, n)) = Elements(q) \union {n}
      /\ Clear(q) => Clear(Append(q, n))
  BY <1>5, <1>7, AppendElements
<1>10. Turn(Append(q, n), to_presenter)
  BY <1>5, <1>7, <1>8, JoinTurn
<1>11. /\ to_producer' \in Seq(ToProducer) /\ Turn(to_producer', to_presenter)
       /\ Elements(to_producer') \subseteq Elements(to_producer) \union {m, n}
       /\ Clear(to_producer) => Clear(to_producer')
  BY <1>6, <1>7, <1>8, <1>9, <1>10
<1>12. Turn(to_producer, to_presenter)'
  <2>1. Turn(Tail(to_presenter), to_producer')
    BY <1>1, <1>11, FileParts, ShedTurn, TurnSwap
  <2> QED
    BY <1>1, <2>1, TurnSwap
<1>13. HandInv' /\ ConnInv' /\ CommitInv' /\ ResumesExactly'
  <2>1. /\ Clear(to_presenter)' = Clear(to_presenter') /\ Clear(to_producer)' = Clear(to_producer')
        /\ Elements(to_presenter)' = Elements(to_presenter')
        /\ Elements(to_producer)' = Elements(to_producer')
    BY DEF Clear, Elements
  <2>2. \A e \in Elements(to_producer)' :
          e.type \in HandshakeTypes => e \in Elements(to_producer)
    BY <1>5, <1>11, <2>1
  <2> QED
    BY <1>1, <1>2, <1>6, <1>11, <1>12, <2>1, <2>2, Aside
<1>14. GrantsInv'
  <2>1. Issued' \subseteq Issued \union {gate'.last_result}
    <3>1. Elements(to_producer)' \subseteq Elements(to_producer) \union {m, n}
      BY <1>11 DEF Elements
    <3> QED
      BY <1>1, <1>5, <3>1 DEF Issued
  <2>2. \A a \in Issued : a.generation \in Nat
    <3>1. Issued \subseteq Grants
      <4>1. \A e \in Elements(to_producer) : e.type = "Bound" => e.grant \in Grants
        BY FileParts, ElementsTyped, ToProducerFields
      <4>2. told \subseteq Grants /\ gate.last_result \in Grants \union {None}
        BY FileParts DEF Typed, Gates
      <4> QED
        BY <4>1, <4>2 DEF Issued
    <3> QED
      BY <3>1 DEF Grants
  <2>3. gate.generation \in Nat /\ gate'.generation \in Nat
    BY <1>4, FileParts DEF Gates
  <2>4. gate'.last_result = gate.last_result => gate'.last_result \in Issued
    BY <1>4, Constants DEF Issued
  <2> DEFINE r == gate'.last_result
  <2>5. \A a \in Issued : a.generation <= gate.generation
    BY FileParts DEF GrantsInv
  <2>6. \A a, c \in Issued : a.generation = c.generation /\ a.generation # 0 => a = c
    BY FileParts DEF GrantsInv
  <2>7. r.generation <= gate'.generation /\ r.generation \in Nat
    BY <1>4, <2>2, <2>3, <2>4, <2>5
  <2>8. r \in Issued \/ r.generation = 0 \/ \A a \in Issued : a.generation # r.generation
    BY <1>4, <2>2, <2>3, <2>4, <2>5
  <2>9. gate.generation <= gate'.generation
    BY <1>4, <2>3
  <2>10. \A a \in Issued' : a.generation <= gate'.generation
    BY <2>1, <2>2, <2>3, <2>5, <2>7, <2>9
  <2>11. \A a, c \in Issued' : a.generation = c.generation /\ a.generation # 0 => a = c
    BY <2>1, <2>6, <2>8
  <2> QED
    BY <2>10, <2>11 DEF GrantsInv
<1>15. drop' \in Drops /\ drop'.grant = drop.grant /\ (drop'.phase # "None" => drop.phase # "None")
  <2>1. CASE drop' = drop
    BY <2>1, FileParts
  <2>2. CASE drop.phase \in LivePhases /\ drop' = [drop EXCEPT !.phase = "Cancelled"]
    BY <2>2, FileParts DEF Drops, DropPhases, LivePhases
  <2> QED
    BY <1>6, <2>1, <2>2
<1>16. Typed'
  <2>1. gate'.last_result # None
    BY <1>4, Constants
  <2> QED
    BY <1>1, <1>2, <1>4, <1>11, <1>15, <2>1, FileParts DEF Typed
<1> QED
  BY <1>13, <1>14, <1>16 DEF FileInv

-----------------------------------------------------------------------------
(* The handshake.                                                          *)
LEMMA Deaf ==
  ASSUME NEW m, m.type \notin HandshakeTypes
  PROVE  ProducerHears(m)' /\ PresenterHears(m)'
BY DEF ProducerHears, PresenterHears, HandshakeTypes

LEMMA ClearElements ==
  ASSUME NEW T, NEW q \in Seq(T)
  PROVE  Clear(q) <=> \A m \in Elements(q) : m.type \notin HandshakeTypes
BY DEF Clear, Elements

\* No message of the handshake is on its way while the producer does not
\* wait for one.
LEMMA Silent ==
  ASSUME FileInv, recv.phase \notin {"None", "Accepting", "Advancing", "Cancelled"}
  PROVE  Clear(to_producer) /\ Clear(to_presenter)
<1>1. \A m \in Elements(to_producer) : m.type \notin HandshakeTypes
  <2> SUFFICES ASSUME NEW m \in Elements(to_producer) PROVE m.type \notin HandshakeTypes
    OBVIOUS
  <2>1. ProducerHears(m) /\ m \in ToProducer
    BY FileParts, ElementsTyped DEF HandInv
  <2>2. m.type \notin {"Accept", "Advance"}
    BY <2>1 DEF ToProducer
  <2>3. m.type \notin {"Offer", "Accepted", "Advanced", "Status"}
    BY <2>1 DEF ProducerHears
  <2> QED
    BY <2>2, <2>3 DEF HandshakeTypes
<1>2. \A m \in Elements(to_presenter) : m.type \notin HandshakeTypes
  <2> SUFFICES ASSUME NEW m \in Elements(to_presenter) PROVE m.type \notin HandshakeTypes
    OBVIOUS
  <2>1. PresenterHears(m) /\ m \in ToPresenter
    BY FileParts, ElementsTyped DEF HandInv
  <2>2. m.type \notin {"Offer", "Accepted", "Advanced", "Status"}
    BY <2>1 DEF ToPresenter
  <2>3. m.type \notin {"Accept", "Advance"}
    BY <2>1 DEF PresenterHears
  <2> QED
    BY <2>2, <2>3 DEF HandshakeTypes
<1> QED
  BY <1>1, <1>2, FileParts, ClearElements

LEMMA ConnKept ==
  ASSUME ConnInv, UNCHANGED <<recv, sender, conns, length, commits>>,
         drop'.phase = "Transferring" => drop.phase = "Transferring"
  PROVE  ConnInv'
<1>1. Aligned => Aligned'
  BY DEF Aligned, Lined, InFlight
<1> QED
  BY <1>1 DEF ConnInv, Fresh

LEMMA CommitKept ==
  ASSUME CommitInv, recv'.flow = recv.flow,
         recv'.phase = "Cancelled" => recv.phase = "Cancelled" \/ commits = 0,
         UNCHANGED <<conns, length, commits>>,
         drop'.phase = "Committed" => drop.phase = "Committed"
  PROVE  CommitInv'
BY DEF CommitInv

LEMMA NothingStored == <<>> = [i \in 1..0 |-> i]
OBVIOUS

LEMMA OfferStep == ASSUME FileInv, Offer PROVE FileInv'
<1>0. PICK m : m = [type |-> "Offer", grant |-> gate.current]
  OBVIOUS
<1>1. /\ drop.phase = "None" /\ gate.current \in EnabledGrants
      /\ drop' = [phase |-> "Offered", grant |-> gate.current, finished |-> 0]
      /\ UNCHANGED <<gate, sender, binding, known, recv, to_presenter, conns, length, told, commits>>
  BY FileParts DEF Offer, producerVars, history, Gates
<1>2. m \in ToProducer /\ m.type = "Offer"
  BY <1>0, <1>1, ToProducerTyped DEF EnabledGrants
<1>3. to_producer' = Append(to_producer, m)
  BY <1>0, <1>2, FileParts, ConcatMessages DEF Offer, TellProducer
<1>4. /\ Clear(to_producer) /\ Clear(to_presenter) /\ Fresh /\ recv.phase \in {"None", "Cancelled"}
  BY <1>1, FileParts DEF HandInv
<1>5. /\ to_producer' \in Seq(ToProducer)
      /\ Elements(to_producer') = Elements(to_producer) \union {m}
  BY <1>2, <1>3, FileParts, AppendElements
<1>6. Turn(to_producer, to_presenter)'
  BY <1>1, <1>2, <1>3, <1>4, FileParts, JoinTurn
<1>7. HandInv'
  <2>1. ProducerHears(m)'
    BY <1>1, <1>2, <1>4 DEF ProducerHears, Fresh
  <2>2. \A e \in Elements(to_producer)' : ProducerHears(e)'
    <3>1. \A e \in Elements(to_producer) : ProducerHears(e)'
      BY <1>4, FileParts, ClearElements, Deaf
    <3> QED
      BY <1>5, <2>1, <3>1 DEF Elements
  <2>3. \A e \in Elements(to_presenter)' : PresenterHears(e)'
    <3>1. \A e \in Elements(to_presenter) : PresenterHears(e)'
      BY <1>4, FileParts, ClearElements, Deaf
    <3> QED
      BY <1>1, <3>1 DEF Elements
  <2> QED
    BY <1>1, <1>6, <2>2, <2>3 DEF HandInv
<1>8. ConnInv' /\ CommitInv' /\ ResumesExactly'
  <2>1. ResumesExactly'
    BY <1>1, FileParts DEF ResumesExactly
  <2> QED
    BY <1>1, <2>1, FileParts, ConnKept, CommitKept
<1>9. GrantsInv'
  BY <1>1, <1>2, <1>5, FileParts, GrantsKept
<1>10. Typed'
  <2>1. drop' \in Drops /\ drop'.grant # None
    BY <1>1, Constants DEF Drops, DropPhases
  <2> QED
    BY <1>1, <1>5, <2>1, FileParts DEF Typed
<1> QED
  BY <1>7, <1>8, <1>9, <1>10 DEF FileInv

LEMMA AcceptOfferStep ==
  ASSUME FileInv, NEW credit \in InitialCredits, AcceptOffer(credit) PROVE FileInv'
<1> DEFINE o == Head(to_producer)
           f == NewFlow(1, 0, credit)
<1>0. PICK m : m = [type |-> "Accept", grant |-> known, credit |-> credit]
  OBVIOUS
<1>1. /\ to_producer # <<>> /\ o.type = "Offer" /\ o.grant = known
      /\ recv' = [recv EXCEPT !.phase = "Accepting", !.grant = known, !.flow = f]
      /\ to_presenter' = Append(to_presenter, m) /\ to_producer' = Tail(to_producer)
      /\ UNCHANGED <<gate, drop, sender, binding, known, conns, length, told, commits>>
  BY <1>0 DEF AcceptOffer, FromPresenter, TellPresenter, presenterVars, history
<1>2. /\ to_producer' \in Seq(ToProducer) /\ o \in Elements(to_producer) /\ o \in ToProducer
      /\ Elements(to_producer') \subseteq Elements(to_producer)
  BY <1>1, FileParts, TailElements
<1>3. Clear(to_producer') /\ Clear(to_presenter)
  BY <1>1, FileParts, ShedTurn DEF HandshakeTypes
<1>4. Fresh /\ drop.phase \in {"Offered", "Cancelled"}
  BY <1>1, <1>2, FileParts DEF HandInv, ProducerHears
<1>5. known \in Grants /\ credit \in Credits
  BY <1>1, <1>2, ToProducerFields, Constants
<1>6. m \in ToPresenter /\ m.type = "Accept" /\ m.grant = known /\ m.credit = credit
  BY <1>0, <1>5, ToPresenterTyped
<1>7. /\ f \in Flows /\ f.next_offset = 0 /\ f.generation = 1
  BY <1>5, NewFlowTyped
<1>8. /\ recv' = [phase |-> "Accepting", grant |-> known, flow |-> f, stored |-> recv.stored]
      /\ recv' \in Receivers
  <2> HIDE DEF f, o
  <2> DEFINE x == [recv EXCEPT !.phase = "Accepting"]
             y == [x EXCEPT !.grant = known]
  <2>0. recv' = [y EXCEPT !.flow = f]
    BY <1>1
  <2>2. x = [phase |-> "Accepting", grant |-> recv.grant, flow |-> recv.flow,
             stored |-> recv.stored]
    BY RecvPhase
  <2> HIDE DEF x
  <2>3. y = [phase |-> "Accepting", grant |-> known, flow |-> recv.flow,
             stored |-> recv.stored]
    BY <2>2
  <2> HIDE DEF y
  <2>1. recv' = [phase |-> "Accepting", grant |-> known, flow |-> f, stored |-> recv.stored]
    BY <2>0, <2>3
  <2> QED
    BY <1>5, <1>7, <2>1, FileParts, ReceiverFields DEF Receivers
<1>9. recv'.flow = NewFlow(1, 0, m.credit)
  BY <1>6, <1>8
<1> HIDE DEF f, o
<1>10. /\ to_presenter' \in Seq(ToPresenter)
       /\ Elements(to_presenter') = Elements(to_presenter) \union {m}
       /\ Turn(to_producer, to_presenter)'
  <2>1. /\ Append(to_presenter, m) \in Seq(ToPresenter)
        /\ Elements(Append(to_presenter, m)) = Elements(to_presenter) \union {m}
    BY <1>6, FileParts, AppendElements
  <2>2. Turn(Append(to_presenter, m), to_producer')
    <3>1. Turn(to_presenter, to_producer')
      BY <1>3, ClearTurn
    <3> QED
      BY <1>3, <1>6, <3>1, FileParts, JoinTurn
  <2> QED
    BY <1>1, <2>1, <2>2, TurnSwap
<1>11. HandInv'
  <2>1. PresenterHears(m)'
    BY <1>1, <1>4, <1>6, <1>8, <1>9 DEF PresenterHears, Fresh
  <2>2. \A e \in Elements(to_presenter)' : PresenterHears(e)'
    <3>1. \A e \in Elements(to_presenter) : PresenterHears(e)'
      BY <1>3, FileParts, ClearElements, Deaf
    <3> QED
      BY <1>10, <2>1, <3>1 DEF Elements
  <2>3. \A e \in Elements(to_producer)' : ProducerHears(e)'
    <3>1. \A e \in Elements(to_producer') : ProducerHears(e)'
      BY <1>2, <1>3, ClearElements, Deaf
    <3> QED
      BY <3>1 DEF Elements
  <2> QED
    BY <1>1, <1>4, <1>10, <2>2, <2>3 DEF HandInv
<1>12. ConnInv'
  <2>1. DOMAIN conns' = {}
    BY <1>1, <1>4 DEF Fresh, Empty
  <2>2. Fresh'
    BY <1>1, <1>4, <1>8 DEF Fresh
  <2> QED
    BY <1>1, <1>4, <1>8, <2>1, <2>2, FileParts DEF ConnInv
<1>13. CommitInv'
  <2>1. DOMAIN conns' = {} /\ commits' = 0
    BY <1>1, <1>4 DEF Fresh, Empty
  <2> QED
    BY <1>1, <1>4, <2>1 DEF CommitInv
<1>14. ResumesExactly'
  BY <1>4, <1>7, <1>8, NothingStored DEF ResumesExactly, Fresh
<1>15. GrantsInv'
  BY <1>1, <1>2, FileParts, GrantsKept
<1>16. Typed'
  BY <1>1, <1>2, <1>8, <1>10, FileParts DEF Typed
<1> QED
  BY <1>11, <1>12, <1>13, <1>14, <1>15, <1>16 DEF FileInv

LEMMA DeclineOfferStep == ASSUME FileInv, DeclineOffer PROVE FileInv'
<1> DEFINE o == Head(to_producer)
           m == [type |-> "Cancel"]
<1>1. /\ to_producer # <<>> /\ o.type = "Offer"
      /\ recv' = [recv EXCEPT !.phase = "Cancelled"]
      /\ to_presenter' = Append(to_presenter, m) /\ to_producer' = Tail(to_producer)
      /\ UNCHANGED <<gate, drop, sender, binding, known, conns, length, told, commits>>
  BY DEF DeclineOffer, FromPresenter, TellPresenter, presenterVars, history
<1>2. /\ to_producer' \in Seq(ToProducer) /\ o \in Elements(to_producer) /\ o \in ToProducer
      /\ Elements(to_producer') \subseteq Elements(to_producer)
  BY <1>1, FileParts, TailElements
<1>3. Clear(to_producer') /\ Clear(to_presenter)
  BY <1>1, FileParts, ShedTurn DEF HandshakeTypes
<1>4. Fresh /\ drop.phase \in {"Offered", "Cancelled"}
  BY <1>1, <1>2, FileParts DEF HandInv, ProducerHears
<1>5. m \in ToPresenter /\ m.type \notin HandshakeTypes
  BY ToPresenterTyped DEF HandshakeTypes
<1>6. /\ recv' = [phase |-> "Cancelled", grant |-> recv.grant, flow |-> recv.flow,
                  stored |-> recv.stored]
      /\ recv' \in Receivers
  <2>0. [recv EXCEPT !.phase = "Cancelled"] =
          [phase |-> "Cancelled", grant |-> recv.grant, flow |-> recv.flow,
           stored |-> recv.stored]
    BY RecvPhase
  <2>1. recv' = [phase |-> "Cancelled", grant |-> recv.grant, flow |-> recv.flow,
                 stored |-> recv.stored]
    BY <1>1, <2>0
  <2> QED
    BY <2>1, FileParts, ReceiverFields DEF Receivers
<1> HIDE DEF m, o
<1>7. /\ to_presenter' \in Seq(ToPresenter) /\ Clear(to_presenter')
  BY <1>1, <1>3, <1>5, FileParts, AppendElements
<1>8. HandInv'
  <2>1. Turn(to_producer, to_presenter)'
    <3>1. Turn(to_producer', to_presenter')
      BY <1>3, <1>7, ClearTurn
    <3> QED
      BY <3>1 DEF Turn, Single, Clear
  <2>2. \A e \in Elements(to_presenter)' : PresenterHears(e)'
    <3>1. \A e \in Elements(to_presenter') : PresenterHears(e)'
      BY <1>7, ClearElements, Deaf
    <3> QED
      BY <3>1 DEF Elements
  <2>3. \A e \in Elements(to_producer)' : ProducerHears(e)'
    <3>1. \A e \in Elements(to_producer') : ProducerHears(e)'
      BY <1>2, <1>3, ClearElements, Deaf
    <3> QED
      BY <3>1 DEF Elements
  <2> QED
    BY <1>1, <1>4, <2>1, <2>2, <2>3 DEF HandInv
<1>9. ConnInv'
  <2>1. DOMAIN conns' = {}
    BY <1>1, <1>4 DEF Fresh, Empty
  <2> QED
    BY <1>1, <1>4, <1>6, <2>1, FileParts DEF ConnInv
<1>10. CommitInv'
  <2>1. commits = 0
    BY <1>4 DEF Fresh
  <2> QED
    BY <1>1, <1>6, <2>1, FileParts, CommitKept
<1>11. ResumesExactly'
  BY <1>6 DEF ResumesExactly
<1>12. GrantsInv'
  BY <1>1, <1>2, FileParts, GrantsKept
<1>13. Typed'
  BY <1>1, <1>2, <1>6, <1>7, FileParts DEF Typed
<1> QED
  BY <1>8, <1>9, <1>10, <1>11, <1>12, <1>13 DEF FileInv

LEMMA ReceiveAcceptStep == ASSUME FileInv, ReceiveAccept PROVE FileInv'
<1> DEFINE a == Head(to_presenter)
           current == drop.phase = "Offered" /\ drop.grant = a.grant
           f == NewFlow(1, 0, a.credit)
           m == [type |-> "Accepted"]
<1>1. /\ to_presenter # <<>> /\ a.type = "Accept" /\ to_presenter' = Tail(to_presenter)
      /\ drop' = IF current THEN [drop EXCEPT !.phase = "Accepted"] ELSE drop
      /\ sender' = IF current THEN f ELSE sender
      /\ to_producer' = to_producer \o (IF current THEN <<m>> ELSE <<>>)
      /\ UNCHANGED <<gate, binding, known, recv, conns, length, told, commits>>
  BY DEF ReceiveAccept, FromProducer, TellProducer, producerVars, history
<1>2. /\ to_presenter' \in Seq(ToPresenter) /\ a \in Elements(to_presenter) /\ a \in ToPresenter
  BY <1>1, FileParts, TailElements
<1>3. Clear(to_presenter') /\ Clear(to_producer)
  <2>1. Clear(Tail(to_presenter)) /\ Clear(to_producer)
    BY <1>1, FileParts, ShedTurn DEF HandshakeTypes
  <2> QED
    BY <1>1, <2>1
<1>4. /\ Fresh /\ recv.phase \in {"Accepting", "Cancelled"} /\ a.grant = recv.grant
      /\ drop.phase \in {"Offered", "Cancelled"}
      /\ recv.phase = "Accepting" => recv.flow = f
  BY <1>1, <1>2, FileParts DEF HandInv, PresenterHears
<1>5. /\ f \in Flows /\ f.next_offset = 0 /\ f.sent_body_bytes = 0 /\ f.sent_records = 0
      /\ f.credit.bytes \in Nat /\ f.credit.records \in Nat
  <2>1. a.credit \in Credits
    BY <1>1, <1>2, ToPresenterFields
  <2>2. f \in Flows /\ f.next_offset = 0 /\ f.sent_body_bytes = 0 /\ f.sent_records = 0
    BY <2>1, NewFlowTyped
  <2> HIDE DEF f
  <2> QED
    BY <2>2, FlowFields
<1>6. m \in ToProducer /\ m.type = "Accepted"
  BY ToProducerTyped
<1>7. DOMAIN conns' = {} /\ commits' = 0 /\ Fresh'
  BY <1>1, <1>4 DEF Fresh, Empty
<1>8. /\ to_producer' = IF current THEN Append(to_producer, m) ELSE to_producer
  BY <1>1, <1>6, FileParts, ConcatMessages
<1>9. /\ drop' \in Drops /\ drop'.grant = drop.grant
      /\ drop'.phase = IF current THEN "Accepted" ELSE drop.phase
  <2> HIDE DEF m, a, f
  <2>1. CASE current
    BY <1>1, <2>1, FileParts DEF Drops, DropPhases
  <2>2. CASE ~current
    BY <1>1, <2>2, FileParts
  <2> QED
    BY <2>1, <2>2
<1> HIDE DEF m, f, a
<1>10. /\ to_producer' \in Seq(ToProducer)
       /\ Elements(to_producer') \subseteq Elements(to_producer) \union {m}
       /\ Single(to_producer')
       /\ ~current => Elements(to_producer') = Elements(to_producer)
  <2>1. /\ Append(to_producer, m) \in Seq(ToProducer)
        /\ Elements(Append(to_producer, m)) = Elements(to_producer) \union {m}
        /\ Single(Append(to_producer, m))
    BY <1>3, <1>6, FileParts, AppendElements
  <2>2. Single(to_producer)
    BY FileParts DEF Turn
  <2> QED
    BY <1>8, <2>1, <2>2, FileParts
<1>11. HandInv'
  <2>1. Turn(to_producer, to_presenter)'
    <3>1. Turn(to_producer', to_presenter')
      BY <1>3, <1>10 DEF Turn, Clear, Single
    <3> QED
      BY <3>1 DEF Turn, Single, Clear
  <2>2. \A e \in Elements(to_presenter)' : PresenterHears(e)'
    <3>1. \A e \in Elements(to_presenter') : PresenterHears(e)'
      BY <1>2, <1>3, ClearElements, Deaf
    <3> QED
      BY <3>1 DEF Elements
  <2>3. \A e \in Elements(to_producer)' : ProducerHears(e)'
    <3>1. \A e \in Elements(to_producer) : ProducerHears(e)'
      BY <1>3, FileParts, ClearElements, Deaf
    <3>2. current => ProducerHears([type |-> "Accepted"])'
      BY <1>1, <1>4, <1>6 DEF ProducerHears
    <3> QED
      BY <1>10, <3>1, <3>2 DEF Elements, m
  <2>4. drop'.phase # "None"
    BY <1>4, <1>9
  <2>5. drop'.phase \in {"Accepted", "Transferring", "Committed"} => drop'.grant = recv'.grant
    BY <1>1, <1>4, <1>9
  <2> QED
    BY <2>1, <2>2, <2>3, <2>4, <2>5 DEF HandInv
<1>12. ConnInv'
  <2>1. /\ sender'.next_offset <= length'
        /\ sender'.sent_body_bytes <= sender'.credit.bytes
        /\ sender'.sent_records <= sender'.credit.records
    <3>1. length \in Nat
      BY FileParts DEF Typed
    <3>2. CASE current
      BY <1>1, <1>5, <3>1, <3>2
    <3>3. CASE ~current
      BY <1>1, <3>3, FileParts DEF ConnInv
    <3> QED
      BY <3>2, <3>3
  <2>2. drop'.phase # "Transferring"
    BY <1>4, <1>9
  <2> QED
    BY <1>1, <1>4, <1>7, <2>1, <2>2 DEF ConnInv
<1>13. CommitInv'
  BY <1>4, <1>7, <1>9 DEF CommitInv
<1>14. ResumesExactly'
  BY <1>1, FileParts DEF ResumesExactly
<1>15. GrantsInv'
  BY <1>1, <1>6, <1>10, FileParts, GrantsKept
<1>16. Typed'
  BY <1>1, <1>2, <1>4, <1>5, <1>9, <1>10, FileParts DEF Typed
<1> QED
  BY <1>11, <1>12, <1>13, <1>14, <1>15, <1>16 DEF FileInv

LEMMA ReceiveAcceptedStep == ASSUME FileInv, ReceiveAccepted PROVE FileInv'
<1> DEFINE m == Head(to_producer)
<1>1. /\ to_producer # <<>> /\ m.type = "Accepted" /\ to_producer' = Tail(to_producer)
      /\ recv' = IF recv.phase = "Accepting" THEN [recv EXCEPT !.phase = "Accepted"] ELSE recv
      /\ UNCHANGED <<gate, drop, sender, binding, known, to_presenter, conns, length, told, commits>>
  BY DEF ReceiveAccepted, FromPresenter, presenterVars, history
<1>2. /\ to_producer' \in Seq(ToProducer) /\ m \in Elements(to_producer)
      /\ Elements(to_producer') \subseteq Elements(to_producer)
  BY <1>1, FileParts, TailElements
<1>3. Clear(to_producer') /\ Clear(to_presenter)
  BY <1>1, FileParts, ShedTurn DEF HandshakeTypes
<1>4. /\ recv.phase \in {"Accepting", "Cancelled"}
      /\ recv.phase = "Accepting" => sender = recv.flow /\ Fresh
  BY <1>1, <1>2, FileParts DEF HandInv, ProducerHears, ConnInv
<1>5. /\ recv'.phase = IF recv.phase = "Accepting" THEN "Accepted" ELSE recv.phase
      /\ recv'.flow = recv.flow /\ recv'.grant = recv.grant /\ recv'.stored = recv.stored
      /\ recv' \in Receivers
  <2>1. [recv EXCEPT !.phase = "Accepted"] =
          [phase |-> "Accepted", grant |-> recv.grant, flow |-> recv.flow,
           stored |-> recv.stored]
    BY RecvPhase
  <2> QED
    BY <1>1, <2>1, FileParts, ReceiverFields DEF Receivers
<1> HIDE DEF m
<1>6. HandInv'
  <2>1. Turn(to_producer, to_presenter)'
    <3>1. Turn(to_producer', to_presenter')
      BY <1>1, <1>3, ClearTurn
    <3> QED
      BY <3>1 DEF Turn, Single, Clear
  <2>2. \A e \in Elements(to_presenter)' : PresenterHears(e)'
    <3>1. \A e \in Elements(to_presenter') : PresenterHears(e)'
      BY <1>1, <1>3, FileParts, ClearElements, Deaf
    <3> QED
      BY <3>1 DEF Elements
  <2>3. \A e \in Elements(to_producer)' : ProducerHears(e)'
    <3>1. \A e \in Elements(to_producer') : ProducerHears(e)'
      BY <1>2, <1>3, ClearElements, Deaf
    <3> QED
      BY <3>1 DEF Elements
  <2>4. drop.phase # "None"
    <3>1. ~Clear(to_producer)
      BY <1>1, <1>2, FileParts, ClearElements DEF HandshakeTypes
    <3> QED
      BY <3>1, FileParts DEF HandInv
  <2> QED
    BY <1>1, <1>5, <2>1, <2>2, <2>3, <2>4, FileParts DEF HandInv
<1>7. ConnInv'
  <2>1. recv.phase = "Accepting" => DOMAIN conns' = {}
    BY <1>1, <1>4 DEF Fresh, Empty
  <2> QED
    BY <1>1, <1>4, <1>5, <2>1, FileParts DEF ConnInv
<1>8. CommitInv'
  BY <1>1, <1>5, FileParts, CommitKept
<1>9. ResumesExactly'
  BY <1>4, <1>5, FileParts DEF ResumesExactly
<1>10. GrantsInv'
  BY <1>1, <1>2, FileParts, GrantsKept
<1>11. Typed'
  BY <1>1, <1>2, <1>5, FileParts DEF Typed
<1> QED
  BY <1>6, <1>7, <1>8, <1>9, <1>10, <1>11 DEF FileInv

LEMMA ReceiveCancelledStep == ASSUME FileInv, ReceiveCancelled PROVE FileInv'
<1> DEFINE m == Head(to_producer)
           s == [recv EXCEPT !.phase = "Cancelled"]
<1>1. /\ to_producer # <<>> /\ m.type = "Cancelled" /\ to_producer' = Tail(to_producer)
      /\ recv' = IF commits = 0 THEN [s EXCEPT !.stored = <<>>] ELSE recv
      /\ UNCHANGED <<gate, drop, sender, binding, known, to_presenter, conns, length, told, commits>>
  BY DEF ReceiveCancelled, FromPresenter, presenterVars, history
<1>2. /\ to_producer' \in Seq(ToProducer)
      /\ Elements(to_producer') \subseteq Elements(to_producer)
      /\ Clear(to_producer) => Clear(to_producer')
  BY <1>1, FileParts, TailElements
<1> HIDE DEF m
<1>3. /\ recv' \in Receivers /\ recv'.flow = recv.flow /\ recv'.grant = recv.grant
      /\ commits = 0 => recv'.phase = "Cancelled" /\ recv'.stored = <<>>
      /\ commits # 0 => recv' = recv
  <2>1. s = [phase |-> "Cancelled", grant |-> recv.grant, flow |-> recv.flow,
             stored |-> recv.stored]
    BY RecvPhase
  <2> HIDE DEF s
  <2>2. [s EXCEPT !.stored = <<>>] =
          [phase |-> "Cancelled", grant |-> recv.grant, flow |-> recv.flow, stored |-> <<>>]
    BY <2>1
  <2>3. <<>> \in Seq(Nat)
    OBVIOUS
  <2> QED
    BY <1>1, <2>2, <2>3, FileParts, ReceiverFields DEF Receivers
<1> HIDE DEF s
<1>4. commits \in {0, 1}
  BY FileParts DEF CommitInv
<1>5. HandInv'
  <2>1. Turn(to_producer, to_presenter)'
    <3>1. Turn(to_producer', to_presenter)
      BY <1>1, FileParts, ShedTurn
    <3> QED
      BY <1>1, <3>1 DEF Turn, Single, Clear
  <2>2. Fresh => Fresh'
    BY <1>1, <1>3 DEF Fresh
  <2>3. \A e \in Elements(to_presenter)' : PresenterHears(e)'
    <3> SUFFICES ASSUME NEW e \in Elements(to_presenter) PROVE PresenterHears(e)'
      BY <1>1 DEF Elements
    <3>1. PresenterHears(e)
      BY FileParts DEF HandInv
    <3> QED
      BY <1>1, <1>3, <2>2, <3>1 DEF PresenterHears
  <2>4. \A e \in Elements(to_producer)' : ProducerHears(e)'
    <3> SUFFICES ASSUME NEW e \in Elements(to_producer) PROVE ProducerHears(e)'
      BY <1>2 DEF Elements
    <3>1. ProducerHears(e)
      BY FileParts DEF HandInv
    <3> QED
      BY <1>1, <1>3, <2>2, <3>1 DEF ProducerHears
  <2>5. drop'.phase = "None" =>
          /\ Clear(to_producer)' /\ Clear(to_presenter)'
          /\ Fresh' /\ recv'.phase \in {"None", "Cancelled"}
    <3>1. /\ Clear(to_producer)' = Clear(to_producer')
          /\ Clear(to_presenter)' = Clear(to_presenter)
      BY <1>1 DEF Clear
    <3> QED
      BY <1>1, <1>2, <1>3, <2>2, <3>1, FileParts DEF HandInv
  <2> QED
    BY <1>1, <1>3, <2>1, <2>3, <2>4, <2>5, FileParts DEF HandInv
<1>6. ConnInv'
  <2>1. CASE commits = 0
    BY <1>1, <1>3, <2>1, FileParts DEF ConnInv
  <2>2. CASE commits # 0
    BY <1>1, <1>3, <2>2, FileParts, ConnKept
  <2> QED
    BY <2>1, <2>2
<1>7. CommitInv'
  BY <1>1, <1>3, <1>4, FileParts, CommitKept
<1>8. ResumesExactly'
  BY <1>1, <1>3, FileParts DEF ResumesExactly
<1>9. GrantsInv'
  BY <1>1, <1>2, FileParts, GrantsKept
<1>10. Typed'
  BY <1>1, <1>2, <1>3, FileParts DEF Typed
<1> QED
  BY <1>5, <1>6, <1>7, <1>8, <1>9, <1>10 DEF FileInv

LEMMA AdvanceStep ==
  ASSUME FileInv, NEW credit \in InitialCredits, Advance(credit) PROVE FileInv'
<1>0. PICK m : m = [type |-> "Advance", generation |-> recv.flow.generation + 1,
                    offset |-> recv.flow.next_offset, credit |-> credit]
  OBVIOUS
<1>1. /\ recv.phase \in {"Receiving", "Committed"}
      /\ to_presenter' = Append(to_presenter, m)
      /\ recv' = [recv EXCEPT !.phase = "Advancing"]
      /\ UNCHANGED <<gate, drop, sender, binding, known, to_producer, conns, length, told, commits>>
  BY <1>0 DEF Advance, TellPresenter, presenterVars, history
<1>2. recv.flow.generation \in Nat /\ recv.flow.next_offset \in Nat /\ credit \in Credits
  BY FileParts, ReceiverFields, Constants
<1>3. /\ m \in ToPresenter /\ m.type = "Advance"
      /\ m.generation = recv.flow.generation + 1 /\ m.offset = recv.flow.next_offset
  BY <1>0, <1>2, ToPresenterTyped
<1>4. Clear(to_producer) /\ Clear(to_presenter)
  BY <1>1, Silent
<1>5. /\ recv'.phase = "Advancing" /\ recv'.flow = recv.flow /\ recv'.grant = recv.grant
      /\ recv'.stored = recv.stored /\ recv' \in Receivers
  <2>1. [recv EXCEPT !.phase = "Advancing"] =
          [phase |-> "Advancing", grant |-> recv.grant, flow |-> recv.flow,
           stored |-> recv.stored]
    BY RecvPhase
  <2> QED
    BY <1>1, <2>1, FileParts, ReceiverFields DEF Receivers
<1>6. /\ to_presenter' \in Seq(ToPresenter) /\ Single(to_presenter')
      /\ Elements(to_presenter') = Elements(to_presenter) \union {m}
  BY <1>1, <1>3, <1>4, FileParts, AppendElements
<1>7. HandInv'
  <2>1. Turn(to_producer, to_presenter)'
    <3>1. Turn(to_producer, to_presenter')
      BY <1>4, <1>6 DEF Turn, Clear, Single
    <3> QED
      BY <1>1, <3>1 DEF Turn, Single, Clear
  <2>2. \A e \in Elements(to_presenter)' : PresenterHears(e)'
    <3>1. \A e \in Elements(to_presenter) : PresenterHears(e)'
      BY <1>4, FileParts, ClearElements, Deaf
    <3>2. PresenterHears(m)'
      BY <1>3, <1>5 DEF PresenterHears
    <3> QED
      BY <1>6, <3>1, <3>2 DEF Elements
  <2>3. \A e \in Elements(to_producer)' : ProducerHears(e)'
    <3>1. \A e \in Elements(to_producer) : ProducerHears(e)'
      BY <1>4, FileParts, ClearElements, Deaf
    <3> QED
      BY <1>1, <3>1 DEF Elements
  <2>4. drop.phase # "None"
    BY <1>1, FileParts DEF HandInv
  <2> QED
    BY <1>1, <1>5, <2>1, <2>2, <2>3, <2>4, FileParts DEF HandInv
<1>8. ConnInv'
  BY <1>1, <1>5, FileParts DEF ConnInv
<1>9. CommitInv'
  BY <1>1, <1>5, FileParts, CommitKept
<1>10. ResumesExactly'
  BY <1>1, <1>5, FileParts DEF ResumesExactly
<1>11. GrantsInv'
  <2>1. Elements(to_producer') = Elements(to_producer)
    BY <1>1
  <2> QED
    BY <1>1, <2>1, FileParts, GrantsKept
<1>12. Typed'
  BY <1>1, <1>5, <1>6, FileParts DEF Typed
<1> QED
  BY <1>7, <1>8, <1>9, <1>10, <1>11, <1>12 DEF FileInv

LEMMA ReceiveAdvanceStep == ASSUME FileInv, ReceiveAdvance PROVE FileInv'
<1>0. PICK a : a = Head(to_presenter)
  OBVIOUS
<1> DEFINE advances == /\ drop.phase \in {"Accepted", "Transferring"}
                       /\ Advances(sender, a.generation, a.offset, a.credit)
           f == NewFlow(a.generation, a.offset, a.credit)
<1>1. /\ to_presenter # <<>> /\ a.type = "Advance" /\ to_presenter' = Tail(to_presenter)
      /\ drop' = IF advances THEN [drop EXCEPT !.phase = "Accepted"] ELSE drop
      /\ sender' = IF advances THEN f ELSE sender
      /\ to_producer' = to_producer \o <<IF advances THEN [a EXCEPT !.type = "Advanced"]
                                         ELSE [type |-> "Status", phase |-> drop.phase]>>
      /\ UNCHANGED <<gate, binding, known, recv, conns, length, told, commits>>
  BY <1>0 DEF ReceiveAdvance, FromProducer, TellProducer, Advanced, producerVars, history
<1>2. /\ to_presenter' \in Seq(ToPresenter) /\ a \in Elements(to_presenter) /\ a \in ToPresenter
  BY <1>0, <1>1, FileParts, TailElements
<1>3. Clear(to_presenter') /\ Clear(to_producer)
  <2>1. Clear(Tail(to_presenter)) /\ Clear(to_producer)
    BY <1>0, <1>1, FileParts, ShedTurn DEF HandshakeTypes
  <2> QED
    BY <1>1, <2>1
<1>4. /\ recv.phase \in {"Advancing", "Cancelled"}
      /\ recv.phase = "Advancing" =>
           a.generation = recv.flow.generation + 1 /\ a.offset = recv.flow.next_offset
  BY <1>1, <1>2, FileParts DEF HandInv, PresenterHears
<1>5. /\ a.generation \in Nat /\ a.offset \in Nat /\ a.credit \in Credits
      /\ a = [type |-> "Advance", generation |-> a.generation, offset |-> a.offset,
              credit |-> a.credit]
  BY <1>1, <1>2, ToPresenterFields
<1>6. /\ f \in Flows /\ f.next_offset = a.offset /\ f.sent_body_bytes = 0 /\ f.sent_records = 0
      /\ f.credit.bytes \in Nat /\ f.credit.records \in Nat
  <2>1. f \in Flows /\ f.next_offset = a.offset /\ f.sent_body_bytes = 0 /\ f.sent_records = 0
    BY <1>5, NewFlowTyped
  <2> HIDE DEF f
  <2> QED
    BY <2>1, FlowFields
<1>7. PICK m \in ToProducer :
        /\ to_producer' = Append(to_producer, m) /\ m.type \in {"Advanced", "Status"}
        /\ advances => /\ m.type = "Advanced" /\ m.generation = a.generation
                       /\ m.offset = a.offset /\ m.credit = a.credit
        /\ ~advances => m.type = "Status"
  <2>1. [a EXCEPT !.type = "Advanced"] =
          [type |-> "Advanced", generation |-> a.generation, offset |-> a.offset,
           credit |-> a.credit]
    BY <1>5
  <2>2. CASE advances
    <3> DEFINE m == [type |-> "Advanced", generation |-> a.generation, offset |-> a.offset,
                     credit |-> a.credit]
    <3>1. m \in ToProducer
      BY <1>5, ToProducerTyped
    <3>2. to_producer' = to_producer \o <<m>>
      BY <1>1, <2>1, <2>2
    <3>3. to_producer' = Append(to_producer, m)
      BY <3>1, <3>2, FileParts, ConcatMessages
    <3> QED
      BY <2>2, <3>1, <3>3
  <2>3. CASE ~advances
    <3> DEFINE m == [type |-> "Status", phase |-> drop.phase]
    <3>1. m \in ToProducer
      BY FileParts, ToProducerTyped DEF Drops
    <3>2. to_producer' = to_producer \o <<m>>
      BY <1>1, <2>3
    <3>3. to_producer' = Append(to_producer, m)
      BY <3>1, <3>2, FileParts, ConcatMessages
    <3> QED
      BY <2>3, <3>1, <3>3
  <2> QED
    BY <2>2, <2>3
<1>8. /\ drop' \in Drops /\ drop'.grant = drop.grant
      /\ drop'.phase = IF advances THEN "Accepted" ELSE drop.phase
  <2> HIDE DEF f
  <2>1. CASE advances
    BY <1>1, <2>1, FileParts DEF Drops, DropPhases
  <2>2. CASE ~advances
    BY <1>1, <2>2, FileParts
  <2> QED
    BY <2>1, <2>2
<1>9. /\ to_producer' \in Seq(ToProducer) /\ Single(to_producer')
      /\ Elements(to_producer') = Elements(to_producer) \union {m}
  BY <1>3, <1>7, FileParts, AppendElements
<1>10. drop.phase # "None" /\ (drop'.phase # "None")
  <2>1. ~Clear(to_presenter)
    BY <1>1, <1>2, FileParts, ClearElements DEF HandshakeTypes
  <2>2. drop.phase # "None"
    BY <2>1, FileParts DEF HandInv
  <2> QED
    BY <1>8, <2>2
<1>11. HandInv'
  <2>1. Turn(to_producer, to_presenter)'
    <3>1. Turn(to_producer', to_presenter')
      BY <1>3, <1>9 DEF Turn, Clear, Single
    <3> QED
      BY <3>1 DEF Turn, Single, Clear
  <2>2. \A e \in Elements(to_presenter)' : PresenterHears(e)'
    <3>1. \A e \in Elements(to_presenter') : PresenterHears(e)'
      BY <1>2, <1>3, ClearElements, Deaf
    <3> QED
      BY <3>1 DEF Elements
  <2>3. \A e \in Elements(to_producer)' : ProducerHears(e)'
    <3>1. \A e \in Elements(to_producer) : ProducerHears(e)'
      BY <1>3, FileParts, ClearElements, Deaf
    <3>2. ProducerHears(m)'
      BY <1>1, <1>4, <1>7 DEF ProducerHears
    <3> QED
      BY <1>9, <3>1, <3>2 DEF Elements
  <2>4. drop'.phase \in {"Accepted", "Transferring", "Committed"} => drop'.grant = recv'.grant
    BY <1>1, <1>8, FileParts DEF HandInv
  <2> QED
    BY <1>10, <2>1, <2>2, <2>3, <2>4 DEF HandInv
<1>12. ConnInv'
  <2>1. /\ sender'.next_offset <= length'
        /\ sender'.sent_body_bytes <= sender'.credit.bytes
        /\ sender'.sent_records <= sender'.credit.records
    <3>1. length \in Nat /\ sender.next_offset \in Nat
      BY FileParts, FlowFields DEF Typed
    <3>2. CASE advances
      <4>1. a.offset <= sender.next_offset /\ sender.next_offset <= length
        BY <3>2, FileParts DEF ConnInv, Advances
      <4> QED
        BY <1>1, <1>5, <1>6, <3>1, <3>2, <4>1
    <3>3. CASE ~advances
      BY <1>1, <3>3, FileParts DEF ConnInv
    <3> QED
      BY <3>2, <3>3
  <2>2. drop'.phase = "Transferring" => sender'.generation \in DOMAIN conns'
    BY <1>1, <1>8, FileParts DEF ConnInv
  <2> QED
    BY <1>1, <1>4, <2>1, <2>2, FileParts DEF ConnInv
<1>13. CommitInv'
  BY <1>1, <1>8, FileParts, CommitKept
<1>14. ResumesExactly'
  BY <1>1, FileParts DEF ResumesExactly
<1>15. GrantsInv'
  BY <1>1, <1>7, <1>9, FileParts, GrantsKept
<1>16. Typed'
  <2>1. sender' \in Flows
    BY <1>1, <1>6, FileParts
  <2> QED
    BY <1>1, <1>2, <1>8, <1>9, <1>10, <2>1, FileParts DEF Typed
<1> QED
  BY <1>11, <1>12, <1>13, <1>14, <1>15, <1>16 DEF FileInv

LEMMA ReceiveAdvancedStep == ASSUME FileInv, ReceiveAdvanced PROVE FileInv'
<1>0. PICK m : m = Head(to_producer)
  OBVIOUS
<1> DEFINE f == NewFlow(m.generation, m.offset, m.credit)
           s == [recv EXCEPT !.phase = "Accepted"]
<1>1. /\ to_producer # <<>> /\ m.type = "Advanced" /\ to_producer' = Tail(to_producer)
      /\ recv' = IF recv.phase = "Advancing" THEN [s EXCEPT !.flow = f] ELSE recv
      /\ UNCHANGED <<gate, drop, sender, binding, known, to_presenter, conns, length, told, commits>>
  <2>1. /\ to_producer # <<>> /\ m.type = "Advanced" /\ to_producer' = Tail(to_producer)
        /\ UNCHANGED <<gate, drop, sender, binding, known, to_presenter, conns, length, told, commits>>
    BY <1>0 DEF ReceiveAdvanced, FromPresenter, presenterVars, history
  <2>2. recv' = IF recv.phase = "Advancing"
                  THEN [recv EXCEPT !.phase = "Accepted",
                          !.flow = Advanced(@, m.generation, m.offset, m.credit)]
                  ELSE recv
    BY <1>0 DEF ReceiveAdvanced
  <2>3. [recv EXCEPT !.phase = "Accepted",
           !.flow = Advanced(@, m.generation, m.offset, m.credit)] = [s EXCEPT !.flow = f]
    BY FileParts DEF Advanced, Receivers
  <2> HIDE DEF s, f
  <2> QED
    BY <2>1, <2>2, <2>3
<1>2. /\ to_producer' \in Seq(ToProducer) /\ m \in Elements(to_producer) /\ m \in ToProducer
      /\ Elements(to_producer') \subseteq Elements(to_producer)
  BY <1>0, <1>1, FileParts, TailElements
<1>3. Clear(to_producer') /\ Clear(to_presenter)
  BY <1>0, <1>1, FileParts, ShedTurn DEF HandshakeTypes
<1>4. /\ recv.phase \in {"Advancing", "Cancelled"}
      /\ recv.phase = "Advancing" =>
           /\ m.generation = recv.flow.generation + 1
           /\ m.offset = recv.flow.next_offset /\ sender = f
  BY <1>1, <1>2, FileParts DEF HandInv, ProducerHears
<1>5. /\ f \in Flows /\ f.generation = m.generation /\ f.next_offset = m.offset
  BY <1>1, <1>2, ToProducerFields, NewFlowTyped
<1> HIDE DEF f
<1>6. /\ recv' \in Receivers /\ recv'.grant = recv.grant /\ recv'.stored = recv.stored
      /\ recv.phase = "Advancing" => recv'.phase = "Accepted" /\ recv'.flow = f
      /\ recv.phase # "Advancing" => recv' = recv
  <2>1. s = [phase |-> "Accepted", grant |-> recv.grant, flow |-> recv.flow,
             stored |-> recv.stored]
    BY RecvPhase
  <2> HIDE DEF s
  <2>2. [s EXCEPT !.flow = f] =
          [phase |-> "Accepted", grant |-> recv.grant, flow |-> f, stored |-> recv.stored]
    BY <2>1
  <2> QED
    BY <1>1, <1>5, <2>2, FileParts, ReceiverFields DEF Receivers
<1> HIDE DEF s
<1>7. recv'.flow.next_offset = recv.flow.next_offset
  BY <1>4, <1>5, <1>6
<1>8. HandInv'
  <2>1. Turn(to_producer, to_presenter)'
    <3>1. Turn(to_producer', to_presenter')
      BY <1>1, <1>3, ClearTurn
    <3> QED
      BY <3>1 DEF Turn, Single, Clear
  <2>2. \A e \in Elements(to_presenter)' : PresenterHears(e)'
    <3>1. \A e \in Elements(to_presenter') : PresenterHears(e)'
      BY <1>1, <1>3, FileParts, ClearElements, Deaf
    <3> QED
      BY <3>1 DEF Elements
  <2>3. \A e \in Elements(to_producer)' : ProducerHears(e)'
    <3>1. \A e \in Elements(to_producer') : ProducerHears(e)'
      BY <1>2, <1>3, ClearElements, Deaf
    <3> QED
      BY <3>1 DEF Elements
  <2>4. drop.phase # "None"
    <3>1. ~Clear(to_producer)
      BY <1>1, <1>2, FileParts, ClearElements DEF HandshakeTypes
    <3> QED
      BY <3>1, FileParts DEF HandInv
  <2> QED
    BY <1>1, <1>6, <2>1, <2>2, <2>3, <2>4, FileParts DEF HandInv
<1>9. ConnInv'
  <2>1. CASE recv.phase = "Advancing"
    <3>1. /\ recv.flow.generation \in Nat /\ DOMAIN conns \subseteq Nat
          /\ \A g \in DOMAIN conns : g <= recv.flow.generation
      BY FileParts, ReceiverFields DEF ConnInv
    <3>2. /\ f.generation = recv.flow.generation + 1 /\ sender = f
      BY <1>4, <1>5, <2>1
    <3>3. f.generation \notin DOMAIN conns /\ \A g \in DOMAIN conns : g <= f.generation
      BY <3>1, <3>2
    <3> QED
      BY <1>1, <1>6, <2>1, <3>2, <3>3, FileParts DEF ConnInv
  <2>2. CASE recv.phase # "Advancing"
    BY <1>1, <1>6, <2>2, FileParts, ConnKept
  <2> QED
    BY <2>1, <2>2
<1>10. CommitInv'
  BY <1>1, <1>4, <1>6, <1>7, FileParts DEF CommitInv
<1>11. ResumesExactly'
  BY <1>4, <1>6, <1>7, FileParts DEF ResumesExactly
<1>12. GrantsInv'
  BY <1>1, <1>2, FileParts, GrantsKept
<1>13. Typed'
  BY <1>1, <1>2, <1>6, FileParts DEF Typed
<1> QED
  BY <1>8, <1>9, <1>10, <1>11, <1>12, <1>13 DEF FileInv

LEMMA ReceiveStatusStep == ASSUME FileInv, ReceiveStatus PROVE FileInv'
<1>0. PICK m : m = Head(to_producer)
  OBVIOUS
<1>1. /\ to_producer # <<>> /\ m.type = "Status" /\ to_producer' = Tail(to_producer)
      /\ recv' = IF recv.phase # "Advancing" THEN recv
                 ELSE [recv EXCEPT !.phase = IF commits > 0 THEN "Done" ELSE "Cancelled"]
      /\ UNCHANGED <<gate, drop, sender, binding, known, to_presenter, conns, length, told, commits>>
  BY <1>0 DEF ReceiveStatus, FromPresenter, presenterVars, history
<1>2. /\ to_producer' \in Seq(ToProducer) /\ m \in Elements(to_producer)
      /\ Elements(to_producer') \subseteq Elements(to_producer)
  BY <1>0, <1>1, FileParts, TailElements
<1>3. Clear(to_producer') /\ Clear(to_presenter)
  BY <1>0, <1>1, FileParts, ShedTurn DEF HandshakeTypes
<1>4. recv.phase \in {"Advancing", "Cancelled"} /\ commits \in {0, 1}
  BY <1>1, <1>2, FileParts DEF HandInv, ProducerHears, CommitInv
<1>5. /\ recv' \in Receivers /\ recv'.grant = recv.grant /\ recv'.stored = recv.stored
      /\ recv'.flow = recv.flow /\ recv'.phase \in {"Done", "Cancelled"}
      /\ recv'.phase = "Cancelled" => recv.phase = "Cancelled" \/ commits = 0
  <2>1. CASE recv.phase # "Advancing"
    BY <1>1, <1>4, <2>1, FileParts
  <2>2. CASE recv.phase = "Advancing"
    <3> DEFINE p == IF commits > 0 THEN "Done" ELSE "Cancelled"
    <3>1. p \in {"Done", "Cancelled"} /\ (p = "Cancelled" => commits = 0)
      BY <1>4
    <3>2. recv' = [recv EXCEPT !.phase = p]
      BY <1>1, <2>2
    <3> HIDE DEF p
    <3>3. [recv EXCEPT !.phase = p] =
            [phase |-> p, grant |-> recv.grant, flow |-> recv.flow, stored |-> recv.stored]
      BY RecvPhase
    <3> QED
      BY <3>1, <3>2, <3>3, FileParts, ReceiverFields DEF Receivers
  <2> QED
    BY <2>1, <2>2
<1>6. HandInv'
  <2>1. Turn(to_producer, to_presenter)'
    <3>1. Turn(to_producer', to_presenter')
      BY <1>1, <1>3, ClearTurn
    <3> QED
      BY <3>1 DEF Turn, Single, Clear
  <2>2. \A e \in Elements(to_presenter)' : PresenterHears(e)'
    <3>1. \A e \in Elements(to_presenter') : PresenterHears(e)'
      BY <1>1, <1>3, FileParts, ClearElements, Deaf
    <3> QED
      BY <3>1 DEF Elements
  <2>3. \A e \in Elements(to_producer)' : ProducerHears(e)'
    <3>1. \A e \in Elements(to_producer') : ProducerHears(e)'
      BY <1>2, <1>3, ClearElements, Deaf
    <3> QED
      BY <3>1 DEF Elements
  <2>4. drop.phase # "None"
    <3>1. ~Clear(to_producer)
      BY <1>1, <1>2, FileParts, ClearElements DEF HandshakeTypes
    <3> QED
      BY <3>1, FileParts DEF HandInv
  <2> QED
    BY <1>1, <1>5, <2>1, <2>2, <2>3, <2>4, FileParts DEF HandInv
<1>7. ConnInv'
  BY <1>1, <1>5, FileParts DEF ConnInv
<1>8. CommitInv'
  BY <1>1, <1>5, FileParts, CommitKept
<1>9. ResumesExactly'
  BY <1>1, <1>4, <1>5, FileParts DEF ResumesExactly
<1>10. GrantsInv'
  BY <1>1, <1>2, FileParts, GrantsKept
<1>11. Typed'
  BY <1>1, <1>2, <1>5, FileParts DEF Typed
<1> QED
  BY <1>6, <1>7, <1>8, <1>9, <1>10, <1>11 DEF FileInv

-----------------------------------------------------------------------------
(* The transfer.  A step on a connection leaves control alone; most leave  *)
(* the producer alone as well.                                             *)
LEMMA PresenterMoves ==
  ASSUME FileInv,
         UNCHANGED <<gate, binding, known, recv, to_presenter, to_producer, length, told, commits>>,
         NEW g \in DOMAIN conns,
         DOMAIN conns' = DOMAIN conns, conns' \in [DOMAIN conns' -> Connections],
         drop' \in Drops, drop'.grant = drop.grant,
         \/ drop'.phase = drop.phase
         \/ drop.phase = "Accepted" /\ drop'.phase = "Transferring"
         \/ drop.phase = "Transferring" /\ drop'.phase = "Committed" /\ commits = 1,
         drop'.phase = "Transferring" => sender.generation \in DOMAIN conns,
         sender' \in Flows, sender'.generation = sender.generation,
         sender' = sender \/ sender.generation \in DOMAIN conns,
         sender'.next_offset <= length,
         sender'.sent_body_bytes <= sender'.credit.bytes,
         sender'.sent_records <= sender'.credit.records,
         recv.phase = "Receiving" => Aligned',
         \A h \in DOMAIN conns, m \in Ups :
           m.type = "Result" /\ m \in conns'[h].up => m \in conns[h].up
  PROVE  FileInv'
<1>1. ~Fresh /\ recv.phase # "Accepting"
  BY FileParts DEF Fresh, Empty, ConnInv
<1>2. drop.phase # "None"
  BY <1>1, FileParts DEF HandInv
<1>3. recv.phase \in {"Accepted", "Advancing"} /\ sender' # sender =>
        sender.generation <= recv.flow.generation
  BY FileParts DEF ConnInv
<1>4. HandInv'
  <2>1. \A m \in Elements(to_producer)' : ProducerHears(m)'
    <3> SUFFICES ASSUME NEW m \in Elements(to_producer) PROVE ProducerHears(m)'
      BY DEF Elements
    <3>1. ProducerHears(m) /\ m \in ToProducer
      BY FileParts, ElementsTyped DEF HandInv
    <3>2. m.type # "Offer"
      BY <1>1, <3>1 DEF ProducerHears
    <3>3. m.type = "Accepted" => recv.phase = "Cancelled"
      BY <1>1, <3>1 DEF ProducerHears
    <3>4. m.type = "Advanced" /\ recv.phase = "Advancing" => sender' = sender
      <4> SUFFICES ASSUME m.type = "Advanced", recv.phase = "Advancing" PROVE sender' = sender
        OBVIOUS
      <4>1. /\ m.generation = recv.flow.generation + 1
            /\ sender = NewFlow(m.generation, m.offset, m.credit)
        BY <3>1 DEF ProducerHears
      <4>2. sender.generation = recv.flow.generation + 1
        BY <3>1, <4>1, ToProducerFields, NewFlowTyped
      <4>3. recv.flow.generation \in Nat
        BY FileParts, ReceiverFields
      <4> QED
        BY <1>3, <4>2, <4>3
    <3> QED
      BY <1>1, <3>1, <3>2, <3>3, <3>4 DEF ProducerHears
  <2>2. \A m \in Elements(to_presenter)' : PresenterHears(m)'
    <3> SUFFICES ASSUME NEW m \in Elements(to_presenter) PROVE PresenterHears(m)'
      BY DEF Elements
    <3>1. PresenterHears(m)
      BY FileParts DEF HandInv
    <3> QED
      BY <1>1, <3>1 DEF PresenterHears
  <2>3. Turn(to_producer, to_presenter)'
    BY FileParts DEF Turn, Single, Clear
  <2>4. /\ drop'.phase # "None"
        /\ drop'.phase \in {"Accepted", "Transferring", "Committed"} => drop'.grant = recv'.grant
    BY <1>2, FileParts DEF HandInv
  <2> QED
    BY <2>1, <2>2, <2>3, <2>4 DEF HandInv
<1>5. ConnInv'
  <2>1. recv.phase = "Accepted" => sender' = sender
    BY FileParts DEF ConnInv
  <2> QED
    BY <1>1, <2>1, FileParts DEF ConnInv
<1>6. CommitInv'
  <2>1. \A h \in DOMAIN conns' : \A m \in conns'[h].up : m.type = "Result" => commits' = 1
    <3> SUFFICES ASSUME NEW h \in DOMAIN conns, NEW m \in conns'[h].up, m.type = "Result"
                 PROVE commits = 1
      OBVIOUS
    <3>1. m \in Ups
      BY DEF Connections
    <3>2. m \in conns[h].up
      BY <3>1
    <3> QED
      BY <3>2, FileParts DEF CommitInv
  <2> QED
    BY <2>1, FileParts DEF CommitInv
<1>7. ResumesExactly'
  BY FileParts DEF ResumesExactly
<1>8. GrantsInv'
  <2>1. Elements(to_producer') = Elements(to_producer)
    OBVIOUS
  <2> QED
    BY <2>1, FileParts, GrantsKept
<1>9. Typed'
  <2>1. drop'.grant # None
    BY <1>2, FileParts DEF Typed
  <2> QED
    BY <2>1, FileParts DEF Typed
<1> QED
  BY <1>4, <1>5, <1>6, <1>7, <1>8, <1>9 DEF FileInv

LEMMA AlignedKept ==
  ASSUME Aligned, UNCHANGED <<sender, recv, length>>, DOMAIN conns' = DOMAIN conns,
         NEW g, g = recv.flow.generation,
         \A m \in conns'[g].up : m.type = "Max" => m \in conns[g].up,
         conns'[g].open => conns[g].open /\ conns'[g].down = conns[g].down
  PROVE  Aligned'
BY DEF Aligned

LEMMA AdmittedCounts ==
  ASSUME NEW f \in Flows, NEW n \in Nat, NEW t, t = Admitted(f, n)
  PROVE  /\ t.next_offset = f.next_offset + n
         /\ t.sent_body_bytes = f.sent_body_bytes + n + Prefix
         /\ t.sent_records = f.sent_records + 1
<1> DEFINE o == f.next_offset + n
           b == f.sent_body_bytes + n + Prefix
           r == f.sent_records + 1
<1>1. t = [generation |-> f.generation, next_offset |-> o, sent_body_bytes |-> b,
           sent_records |-> r, credit |-> f.credit]
  BY AdmittedFields
<1> HIDE DEF o, b, r
<1>2. t.next_offset = o /\ t.sent_body_bytes = b /\ t.sent_records = r
  BY <1>1
<1> QED
  BY <1>2 DEF o, b, r

LEMMA AtMostTransitive ==
  ASSUME NEW a \in Nat, NEW b \in Nat, NEW c \in Nat, a <= b, b <= c
  PROVE  a <= c
OBVIOUS

LEMMA SumWithin ==
  ASSUME NEW sb \in Nat, NEW rb \in Nat, NEW sn \in Nat, NEW rn \in Nat, NEW n \in Nat,
         NEW rest \in Nat, NEW p \in Nat, rn + n <= sn, sb = rb + (sn - rn) + (rest + p)
  PROVE  rb + n + p <= sb
OBVIOUS

LEMMA SumMoves ==
  ASSUME NEW sb \in Nat, NEW rb \in Nat, NEW sn \in Nat, NEW rn \in Nat, NEW n \in Nat,
         NEW kp \in Nat, NEW p \in Nat, sb = rb + (sn - rn) + kp
  PROVE  sb + n + p = rb + ((sn + n) - rn) + (kp + p)
OBVIOUS

LEMMA SumTaken ==
  ASSUME NEW sb \in Nat, NEW rb \in Nat, NEW sn \in Nat, NEW rn \in Nat, NEW n \in Nat,
         NEW rest \in Nat, NEW p \in Nat, sb = rb + (sn - rn) + (rest + p)
  PROVE  sb = (rb + n + p) + (sn - (rn + n)) + rest
OBVIOUS

LEMMA SentRecord ==
  ASSUME NEW s \in Flows, NEW r \in Flows, NEW l \in Nat, NEW down \in Seq(Downs),
         Lined(s, r, l, down), NEW n \in Nat, n > 0, s.next_offset + n <= l,
         NEW m \in Downs, m.type = "Data", m.offset = s.next_offset, m.n = n
  PROVE  Lined(Admitted(s, n), r, l, Append(down, m))
<1>1. PICK k \in 0..Len(down) : InFlight(s, r, l, down, k)
  BY DEF Lined
<1>2. PICK t \in Flows : t = Admitted(s, n)
  BY AdmittedFields
<1>3. /\ t.next_offset = s.next_offset + n
      /\ t.sent_body_bytes = s.sent_body_bytes + n + Prefix
      /\ t.sent_records = s.sent_records + 1
  BY <1>2, AdmittedCounts
<1>4. PICK q : q = Append(down, m)
  OBVIOUS
<1>5. /\ Len(down) \in Nat /\ Len(q) = Len(down) + 1 /\ q[Len(down) + 1] = m
      /\ \A i \in 1..Len(down) : q[i] = down[i] /\ down[i] \in Downs
  BY <1>4, AppendProperties, LenProperties, ElementOfSeq
<1>6. /\ s.next_offset \in Nat /\ r.next_offset \in Nat /\ s.sent_records \in Nat
      /\ r.sent_records \in Nat /\ s.sent_body_bytes \in Nat /\ r.sent_body_bytes \in Nat
  BY FlowFields
<1>7. k = Len(down)
  BY <1>1, <1>5, <1>6 DEF InFlight
<1>8. /\ \A i \in 1..k : down[i].type = "Data" /\ down[i].n > 0
      /\ \A i \in 1..k : down[i].n \in Nat /\ down[i].offset \in Nat
      /\ \A i \in 1..k : down[i].offset + down[i].n =
           IF i = k THEN s.next_offset ELSE down[i + 1].offset
      /\ \A i \in 1..k : down[i].offset + down[i].n <= s.next_offset
      /\ r.next_offset = IF k = 0 THEN s.next_offset ELSE down[1].offset
      /\ s.sent_records = r.sent_records + k
      /\ s.sent_body_bytes = r.sent_body_bytes + (s.next_offset - r.next_offset) + k * Prefix
  <2>1. \A i \in 1..k : down[i].type = "Data"
    BY <1>1, <1>7 DEF InFlight
  <2>2. \A i \in 1..k : down[i].n \in Nat /\ down[i].offset \in Nat
    BY <1>5, <1>7, <2>1, DownsTyped
  <2> QED
    BY <1>1, <2>1, <2>2 DEF InFlight
<1>9. \A i \in 1..Len(q) : q[i].type = IF i <= k + 1 THEN "Data" ELSE "Finish"
  <2> SUFFICES ASSUME NEW i \in 1..Len(q) PROVE q[i].type = "Data" /\ i <= k + 1
    OBVIOUS
  <2>1. CASE i = k + 1
    BY <1>5, <1>7, <2>1
  <2>2. CASE i # k + 1
    <3>1. i \in 1..k
      BY <1>5, <1>7, <2>2
    <3> QED
      BY <1>5, <1>7, <1>8, <3>1
  <2> QED
    BY <2>1, <2>2
<1>10. \A i \in 1..k + 1 :
         /\ q[i].n > 0
         /\ q[i].offset + q[i].n = IF i = k + 1 THEN t.next_offset ELSE q[i + 1].offset
         /\ q[i].offset + q[i].n <= t.next_offset
  <2> SUFFICES ASSUME NEW i \in 1..k + 1
               PROVE /\ q[i].n > 0
                     /\ q[i].offset + q[i].n =
                          IF i = k + 1 THEN t.next_offset ELSE q[i + 1].offset
                     /\ q[i].offset + q[i].n <= t.next_offset
    OBVIOUS
  <2>1. CASE i = k + 1
    BY <1>3, <1>5, <1>6, <1>7, <2>1
  <2>2. CASE i = k /\ k # 0
    <3>1. q[i] = down[i] /\ q[i + 1].offset = s.next_offset /\ i # k + 1
      BY <1>5, <1>7, <2>2
    <3>2. down[i].offset + down[i].n = s.next_offset /\ down[i].n > 0
      BY <1>8, <2>2
    <3> QED
      BY <1>3, <1>6, <3>1, <3>2
  <2>3. CASE i \notin {k, k + 1}
    <3>1. i \in 1..k /\ i + 1 \in 1..k /\ i # k + 1 /\ i # k
      BY <1>5, <1>7, <2>3
    <3>2. q[i] = down[i] /\ q[i + 1] = down[i + 1]
      BY <1>5, <1>7, <3>1
    <3>3. /\ down[i].offset + down[i].n = down[i + 1].offset /\ down[i].n > 0
          /\ down[i].offset + down[i].n <= s.next_offset
          /\ down[i].n \in Nat /\ down[i].offset \in Nat
      BY <1>8, <3>1
    <3>4. /\ q[i].n > 0 /\ q[i].offset + q[i].n = q[i + 1].offset
          /\ q[i].offset + q[i].n <= s.next_offset
          /\ q[i].n \in Nat /\ q[i].offset \in Nat
      BY <3>2, <3>3
    <3>5. s.next_offset <= t.next_offset /\ t.next_offset \in Nat
      BY <1>3, <1>6
    <3>6. q[i].offset + q[i].n <= t.next_offset
      <4>1. PICK e \in Nat : e = q[i].offset + q[i].n
        BY <3>4
      <4>2. e <= s.next_offset
        BY <3>4, <4>1
      <4>3. e <= t.next_offset
        BY <1>6, <3>5, <4>2
      <4> QED
        BY <4>1, <4>3
    <3> QED
      BY <3>1, <3>4, <3>6
  <2> QED
    BY <1>5, <1>7, <2>1, <2>2, <2>3
<1>11. r.next_offset = IF k + 1 = 0 THEN t.next_offset ELSE q[1].offset
  <2>1. CASE k = 0
    BY <1>5, <1>7, <1>8, <2>1
  <2>2. CASE k # 0
    BY <1>5, <1>7, <1>8, <2>2
  <2> QED
    BY <2>1, <2>2
<1>12. t.sent_body_bytes =
         r.sent_body_bytes + (t.next_offset - r.next_offset) + (k + 1) * Prefix
  <2>1. (k + 1) * Prefix = k * Prefix + Prefix /\ k * Prefix \in Nat
    BY <1>5, <1>7, Constants
  <2>2. PICK kp \in Nat : kp = k * Prefix
    BY <2>1
  <2>3. s.sent_body_bytes = r.sent_body_bytes + (s.next_offset - r.next_offset) + kp
    BY <1>8, <2>2
  <2>4. t.sent_body_bytes =
          r.sent_body_bytes + (t.next_offset - r.next_offset) + (kp + Prefix)
    <3>1. PICK sb \in Nat, rb \in Nat, sn \in Nat, rn \in Nat :
            /\ sb = s.sent_body_bytes /\ rb = r.sent_body_bytes
            /\ sn = s.next_offset /\ rn = r.next_offset
      BY <1>6
    <3>2. sb = rb + (sn - rn) + kp
      BY <2>3, <3>1
    <3>3. sb + n + Prefix = rb + ((sn + n) - rn) + (kp + Prefix)
      BY <3>2, Constants, SumMoves
    <3>4. t.sent_body_bytes = sb + n + Prefix /\ t.next_offset = sn + n
      BY <1>3, <3>1
    <3> QED
      BY <3>1, <3>3, <3>4
  <2> QED
    BY <2>1, <2>2, <2>4
<1>13. InFlight(t, r, l, q, k + 1)
  <2>1. t.sent_records = r.sent_records + (k + 1)
    <3>1. t.sent_records = s.sent_records + 1
      BY <1>3
    <3>2. s.sent_records = r.sent_records + k
      BY <1>8
    <3>3. r.sent_records \in Nat /\ k \in Nat
      BY <1>6
    <3> QED
      BY <3>1, <3>2, <3>3
  <2>2. ~(k + 1 < Len(q))
    BY <1>5, <1>7
  <2> QED
    BY <1>9, <1>10, <1>11, <1>12, <2>1, <2>2 DEF InFlight
<1>14. k + 1 \in 0..Len(q)
  BY <1>5, <1>7
<1> QED
  BY <1>2, <1>4, <1>13, <1>14 DEF Lined

LEMMA SentFinish ==
  ASSUME NEW s \in Flows, NEW r \in Flows, NEW l \in Nat, NEW down \in Seq(Downs),
         Lined(s, r, l, down), s.next_offset = l, NEW m \in Downs, m.type = "Finish"
  PROVE  Lined(s, r, l, Append(down, m))
<1>1. PICK k \in 0..Len(down) : InFlight(s, r, l, down, k)
  BY DEF Lined
<1>2. PICK q : q = Append(down, m)
  OBVIOUS
<1>3. /\ Len(down) \in Nat /\ Len(q) = Len(down) + 1 /\ q[Len(down) + 1] = m
      /\ \A i \in 1..Len(down) : q[i] = down[i]
  BY <1>2, AppendProperties, LenProperties
<1>4. /\ \A i \in 1..k : q[i] = down[i]
      /\ \A i \in 1..k : i # k => q[i + 1] = down[i + 1]
      /\ k # 0 => q[1] = down[1]
  BY <1>3
<1>5. \A i \in 1..Len(q) : q[i].type = IF i <= k THEN "Data" ELSE "Finish"
  <2> SUFFICES ASSUME NEW i \in 1..Len(q)
               PROVE q[i].type = IF i <= k THEN "Data" ELSE "Finish"
    OBVIOUS
  <2>1. CASE i = Len(down) + 1
    BY <1>3, <2>1
  <2>2. CASE i # Len(down) + 1
    <3>1. i \in 1..Len(down)
      BY <1>3, <2>2
    <3> QED
      BY <1>1, <1>3, <3>1 DEF InFlight
  <2> QED
    BY <2>1, <2>2
<1>6. InFlight(s, r, l, q, k)
  BY <1>1, <1>4, <1>5 DEF InFlight
<1>7. k \in 0..Len(q)
  BY <1>3
<1> QED
  BY <1>2, <1>6, <1>7 DEF Lined

LEMMA TakenRecord ==
  ASSUME NEW s \in Flows, NEW r \in Flows, NEW l \in Nat, NEW down \in Seq(Downs),
         Lined(s, r, l, down), down # <<>>, NEW m, m = Head(down), m.type = "Data",
         s.next_offset <= l, s.sent_body_bytes <= s.credit.bytes,
         s.sent_records <= s.credit.records, AtMost(s.credit, r.credit)
  PROVE  /\ m.offset \in Nat /\ m.n \in Nat /\ m.n > 0 /\ m.offset = r.next_offset
         /\ m.offset + m.n <= l /\ Admits(r, m.offset, m.n)
         /\ Lined(s, Admitted(r, m.n), l, Tail(down))
<1>1. PICK k \in 0..Len(down) : InFlight(s, r, l, down, k)
  BY DEF Lined
<1>2. PICK q : q = Tail(down)
  OBVIOUS
<1>3. /\ Len(down) \in Nat \ {0} /\ Len(q) = Len(down) - 1 /\ m = down[1]
      /\ \A i \in 1..Len(q) : q[i] = down[i + 1]
      /\ \A i \in 1..Len(down) : down[i] \in Downs
  BY <1>2, HeadTailProperties, LenProperties, ElementOfSeq, EmptySeq
<1>4. k \in 1..Len(down) /\ k - 1 \in Nat /\ k - 1 \in 0..Len(q)
  <2>1. 1 <= k
    BY <1>1, <1>3 DEF InFlight
  <2> QED
    BY <1>3, <2>1
<1>5. /\ s.next_offset \in Nat /\ r.next_offset \in Nat /\ s.sent_records \in Nat
      /\ r.sent_records \in Nat /\ s.sent_body_bytes \in Nat /\ r.sent_body_bytes \in Nat
      /\ s.credit.bytes \in Nat /\ s.credit.records \in Nat
      /\ r.credit.bytes \in Nat /\ r.credit.records \in Nat
  BY FlowFields
<1>6. /\ \A i \in 1..k : down[i].type = "Data" /\ down[i].n > 0
      /\ \A i \in 1..k : down[i].n \in Nat /\ down[i].offset \in Nat
      /\ \A i \in 1..k : down[i].offset + down[i].n =
           IF i = k THEN s.next_offset ELSE down[i + 1].offset
      /\ \A i \in 1..k : down[i].offset + down[i].n <= s.next_offset
      /\ r.next_offset = down[1].offset
      /\ s.sent_records = r.sent_records + k
      /\ s.sent_body_bytes = r.sent_body_bytes + (s.next_offset - r.next_offset) + k * Prefix
  <2>1. \A i \in 1..k : down[i].type = "Data" /\ down[i] \in Downs
    BY <1>1, <1>3, <1>4 DEF InFlight
  <2>2. \A i \in 1..k : down[i].n \in Nat /\ down[i].offset \in Nat
    BY <2>1, DownsTyped
  <2> QED
    BY <1>1, <1>4, <2>1, <2>2 DEF InFlight
<1>7. /\ m.offset \in Nat /\ m.n \in Nat /\ m.n > 0 /\ m.offset = r.next_offset
      /\ m.offset + m.n <= s.next_offset
  <2>1. 1 \in 1..k /\ m = down[1]
    BY <1>3, <1>4
  <2>2. /\ down[1].offset \in Nat /\ down[1].n \in Nat /\ down[1].n > 0
        /\ down[1].offset + down[1].n <= s.next_offset /\ r.next_offset = down[1].offset
    BY <1>6, <2>1
  <2> QED
    BY <2>1, <2>2
<1>8. PICK rest \in Nat : rest = (k - 1) * Prefix /\ k * Prefix = rest + Prefix
  BY <1>4, Constants
<1>9. Prefix \in Nat
  BY Constants
<1>17. s.sent_body_bytes =
         r.sent_body_bytes + (s.next_offset - r.next_offset) + (rest + Prefix)
  BY <1>6, <1>8
<1>10. Admits(r, m.offset, m.n)
  <2>1. r.sent_body_bytes + m.n + Prefix <= s.sent_body_bytes
    <3>1. r.next_offset + m.n <= s.next_offset
      BY <1>7
    <3> QED
      BY <1>5, <1>7, <1>9, <1>17, <3>1, SumWithin
  <2>2. r.sent_records + 1 <= s.sent_records
    BY <1>4, <1>5, <1>6
  <2>3. s.credit.bytes <= r.credit.bytes /\ s.credit.records <= r.credit.records
    BY DEF AtMost
  <2>4. r.sent_body_bytes + m.n + Prefix <= r.credit.bytes
    <3>1. r.sent_body_bytes \in Nat /\ m.n \in Nat
      BY <1>5, <1>7
    <3>2. r.sent_body_bytes + m.n + Prefix \in Nat
      BY <1>9, <3>1
    <3>3. s.sent_body_bytes \in Nat /\ s.credit.bytes \in Nat /\ r.credit.bytes \in Nat
      BY <1>5
    <3>4. s.sent_body_bytes <= r.credit.bytes
      BY <2>3, <3>3, AtMostTransitive
    <3> QED
      BY <2>1, <3>2, <3>3, <3>4, AtMostTransitive
  <2>5. r.sent_records + 1 <= r.credit.records
    <3> HIDE DEF InFlight, Lined
    <3>1. s.sent_records <= s.credit.records
      OBVIOUS
    <3>2. s.sent_records <= r.credit.records
      BY <1>5, <2>3, <3>1, AtMostTransitive
    <3>3. r.sent_records + 1 \in Nat
      BY <1>5
    <3> QED
      BY <1>5, <2>2, <3>2, <3>3, AtMostTransitive
  <2> QED
    BY <1>7, <2>4, <2>5 DEF Admits
<1> DEFINE n == m.n
<1>11. PICK t \in Flows : t = Admitted(r, n)
  BY <1>7, AdmittedFields
<1>12. /\ t.next_offset = r.next_offset + m.n
       /\ t.sent_body_bytes = r.sent_body_bytes + m.n + Prefix
       /\ t.sent_records = r.sent_records + 1
  <2>1. n \in Nat
    BY <1>7
  <2> HIDE DEF n
  <2>2. /\ t.next_offset = r.next_offset + n
        /\ t.sent_body_bytes = r.sent_body_bytes + n + Prefix
        /\ t.sent_records = r.sent_records + 1
    BY <1>11, <2>1, AdmittedCounts
  <2> QED
    BY <2>2 DEF n
<1>13. \A i \in 1..k - 1 : i + 1 \in 1..k /\ q[i] = down[i + 1] /\ i \in Nat
  BY <1>3, <1>4
<1>14. InFlight(s, t, l, q, k - 1)
  <2>1. \A i \in 1..Len(q) : q[i].type = IF i <= k - 1 THEN "Data" ELSE "Finish"
    <3> SUFFICES ASSUME NEW i \in 1..Len(q)
                 PROVE q[i].type = IF i <= k - 1 THEN "Data" ELSE "Finish"
      OBVIOUS
    <3>1. i + 1 \in 1..Len(down) /\ q[i] = down[i + 1] /\ (i + 1 <= k <=> i <= k - 1)
      BY <1>3, <1>4
    <3> QED
      BY <1>1, <3>1 DEF InFlight
  <2>2. k - 1 < Len(q) => s.next_offset = l
    BY <1>1, <1>3, <1>4 DEF InFlight
  <2>3. \A i \in 1..k - 1 :
          /\ q[i].n > 0
          /\ q[i].offset + q[i].n = IF i = k - 1 THEN s.next_offset ELSE q[i + 1].offset
          /\ q[i].offset + q[i].n <= s.next_offset
    <3> SUFFICES ASSUME NEW i \in 1..k - 1
                 PROVE /\ q[i].n > 0
                       /\ q[i].offset + q[i].n =
                            IF i = k - 1 THEN s.next_offset ELSE q[i + 1].offset
                       /\ q[i].offset + q[i].n <= s.next_offset
      OBVIOUS
    <3> DEFINE j == i + 1
    <3>1. j \in 1..k /\ q[i] = down[j] /\ (i = k - 1 <=> j = k)
      <4>1. i + 1 \in 1..k /\ q[i] = down[i + 1] /\ i \in Nat
        BY <1>13
      <4>2. k \in Nat
        BY <1>4
      <4> QED
        BY <4>1, <4>2
    <3>2. /\ down[j].n > 0 /\ down[j].offset + down[j].n <= s.next_offset
          /\ down[j].offset + down[j].n =
               IF j = k THEN s.next_offset ELSE down[j + 1].offset
      BY <1>6, <3>1
    <3>3. i # k - 1 => q[i + 1] = down[j + 1]
      <4>1. i # k - 1 => i + 1 \in 1..k - 1
        BY <1>4
      <4> QED
        BY <1>13, <4>1
    <3> QED
      BY <3>1, <3>2, <3>3
  <2>4. t.next_offset = IF k - 1 = 0 THEN s.next_offset ELSE q[1].offset
    <3>1. t.next_offset = IF 1 = k THEN s.next_offset ELSE down[2].offset
      BY <1>3, <1>4, <1>6, <1>12
    <3>2. k # 1 => q[1] = down[2]
      BY <1>4, <1>13
    <3> QED
      BY <1>4, <3>1, <3>2
  <2>5. s.sent_records = t.sent_records + (k - 1)
    BY <1>4, <1>5, <1>6, <1>12
  <2>6. s.sent_body_bytes =
          t.sent_body_bytes + (s.next_offset - t.next_offset) + (k - 1) * Prefix
    <3>1. s.sent_body_bytes = t.sent_body_bytes + (s.next_offset - t.next_offset) + rest
      <4>1. PICK sb \in Nat, rb \in Nat, sn \in Nat, rn \in Nat, mn \in Nat :
              /\ sb = s.sent_body_bytes /\ rb = r.sent_body_bytes
              /\ sn = s.next_offset /\ rn = r.next_offset /\ mn = m.n
        BY <1>5, <1>7
      <4>2. sb = rb + (sn - rn) + (rest + Prefix)
        BY <1>17, <4>1
      <4>3. sb = (rb + mn + Prefix) + (sn - (rn + mn)) + rest
        BY <1>9, <4>2, SumTaken
      <4>4. t.sent_body_bytes = rb + mn + Prefix /\ t.next_offset = rn + mn
        BY <1>12, <4>1
      <4> QED
        BY <4>1, <4>3, <4>4
    <3> QED
      BY <1>8, <3>1
  <2> QED
    BY <2>1, <2>2, <2>3, <2>4, <2>5, <2>6 DEF InFlight
<1>15. Lined(s, t, l, q)
  BY <1>4, <1>14 DEF Lined
<1>16. m.offset + m.n <= l
  BY <1>5, <1>7
<1> QED
  BY <1>2, <1>7, <1>10, <1>11, <1>15, <1>16

LEMMA FinishedAtEnd ==
  ASSUME NEW s \in Flows, NEW r \in Flows, NEW l \in Nat, NEW down \in Seq(Downs),
         Lined(s, r, l, down), down # <<>>, Head(down).type = "Finish"
  PROVE  r.next_offset = l
<1>1. PICK k \in 0..Len(down) : InFlight(s, r, l, down, k)
  BY DEF Lined
<1>2. Len(down) \in Nat \ {0} /\ Head(down) = down[1]
  BY HeadTailProperties, LenProperties, EmptySeq
<1>3. k = 0
  BY <1>1, <1>2 DEF InFlight
<1> QED
  BY <1>1, <1>2, <1>3 DEF InFlight

\* A message of a connection that the presenter has dealt with.
LEMMA Heard ==
  ASSUME FileInv, NEW g \in DOMAIN conns, NEW m, conns' = Without(g, m)
  PROVE  /\ DOMAIN conns' = DOMAIN conns /\ conns' \in [DOMAIN conns' -> Connections]
         /\ \A h \in DOMAIN conns : /\ conns'[h].up \subseteq conns[h].up
                                    /\ conns'[h].down = conns[h].down
                                    /\ conns'[h].open = conns[h].open
<1> DEFINE u == conns[g].up \ {m}
           s == conns[g].down
           o == conns[g].open
<1>1. conns \in [DOMAIN conns -> Connections]
  BY FileParts
<1>2. u \in SUBSET Ups /\ s \in Seq(Downs) /\ o \in BOOLEAN
  BY <1>1, ConnFields
<1>3. /\ DOMAIN conns' = DOMAIN conns /\ conns'[g] = [conns[g] EXCEPT !.up = u]
      /\ \A h \in DOMAIN conns : h # g => conns'[h] = conns[h]
      /\ conns' = [h \in DOMAIN conns' |-> conns'[h]]
  BY <1>1 DEF Without
<1>4. conns[g] = [up |-> conns[g].up, down |-> s, open |-> o]
  BY <1>1, ConnFields
<1> HIDE DEF u, s, o
<1>5. conns'[g] = [up |-> u, down |-> s, open |-> o]
  BY <1>3, <1>4
<1>6. conns'[g] \in Connections
  BY <1>2, <1>5 DEF Connections
<1>7. conns' \in [DOMAIN conns' -> Connections]
  BY <1>1, <1>3, <1>6
<1> QED
  BY <1>3, <1>5, <1>7 DEF u, s, o

LEMMA ReceiveOpenStep ==
  ASSUME FileInv, NEW g \in DOMAIN conns, ReceiveOpen(g) PROVE FileInv'
<1>1. PICK m \in Up(g, "Open") :
        /\ drop' = IF drop.phase = "Accepted" /\ g = sender.generation /\ m = Opening(sender)
                     THEN [drop EXCEPT !.phase = "Transferring"] ELSE drop
        /\ conns' = Without(g, m)
        /\ UNCHANGED <<gate, sender, binding, known, recv, to_presenter, to_producer, length,
                       told, commits>>
  BY DEF ReceiveOpen, producerVars, control, history
<1>2. /\ DOMAIN conns' = DOMAIN conns /\ conns' \in [DOMAIN conns' -> Connections]
      /\ \A h \in DOMAIN conns : /\ conns'[h].up \subseteq conns[h].up
                                 /\ conns'[h].down = conns[h].down
                                 /\ conns'[h].open = conns[h].open
  BY <1>1, Heard
<1>3. /\ drop' \in Drops /\ drop'.grant = drop.grant
      /\ \/ drop'.phase = drop.phase
         \/ /\ drop.phase = "Accepted" /\ drop'.phase = "Transferring"
            /\ g = sender.generation
  <2>1. [drop EXCEPT !.phase = "Transferring"] \in Drops
    BY FileParts, DropUpdates DEF DropPhases
  <2>2. [drop EXCEPT !.phase = "Transferring"] =
          [phase |-> "Transferring", grant |-> drop.grant, finished |-> drop.finished]
    BY FileParts, DropUpdates DEF DropPhases
  <2> QED
    BY <1>1, <2>1, <2>2, FileParts
<1>4. recv.phase = "Receiving" => Aligned'
  <2> SUFFICES ASSUME recv.phase = "Receiving" PROVE Aligned'
    OBVIOUS
  <2>1. Aligned /\ recv.flow.generation \in DOMAIN conns
    BY FileParts DEF ConnInv, Aligned
  <2> QED
    BY <1>1, <1>2, <2>1, AlignedKept
<1>5. drop'.phase = "Transferring" => sender.generation \in DOMAIN conns
  BY <1>3, FileParts DEF ConnInv
<1>6. /\ sender' = sender /\ sender \in Flows /\ sender.next_offset <= length
      /\ sender.sent_body_bytes <= sender.credit.bytes
      /\ sender.sent_records <= sender.credit.records
  BY <1>1, FileParts DEF ConnInv
<1>7. \A h \in DOMAIN conns, e \in Ups :
        e.type = "Result" /\ e \in conns'[h].up => e \in conns[h].up
  BY <1>2
<1> QED
  BY <1>1, <1>2, <1>3, <1>4, <1>5, <1>6, <1>7, PresenterMoves

LEMMA ReceiveResultStep ==
  ASSUME FileInv, NEW g \in DOMAIN conns, ReceiveResult(g) PROVE FileInv'
<1>1. PICK m \in Up(g, "Result") :
        /\ drop' = IF drop.phase = "Transferring" /\ g = sender.generation
                     THEN [drop EXCEPT !.phase = "Committed"] ELSE drop
        /\ conns' = Without(g, m)
        /\ UNCHANGED <<gate, sender, binding, known, recv, to_presenter, to_producer, length,
                       told, commits>>
  BY DEF ReceiveResult, producerVars, control, history
<1>2. /\ DOMAIN conns' = DOMAIN conns /\ conns' \in [DOMAIN conns' -> Connections]
      /\ \A h \in DOMAIN conns : /\ conns'[h].up \subseteq conns[h].up
                                 /\ conns'[h].down = conns[h].down
                                 /\ conns'[h].open = conns[h].open
  BY <1>1, Heard
\* Whoever answers has committed the file.
<1>3. commits = 1
  BY <1>1, FileParts DEF Up, CommitInv
<1>4. /\ drop' \in Drops /\ drop'.grant = drop.grant
      /\ \/ drop'.phase = drop.phase
         \/ drop.phase = "Transferring" /\ drop'.phase = "Committed" /\ commits = 1
  <2>1. [drop EXCEPT !.phase = "Committed"] \in Drops
    BY FileParts, DropUpdates DEF DropPhases
  <2>2. [drop EXCEPT !.phase = "Committed"] =
          [phase |-> "Committed", grant |-> drop.grant, finished |-> drop.finished]
    BY FileParts, DropUpdates DEF DropPhases
  <2> QED
    BY <1>1, <1>3, <2>1, <2>2, FileParts
<1>5. recv.phase = "Receiving" => Aligned'
  <2> SUFFICES ASSUME recv.phase = "Receiving" PROVE Aligned'
    OBVIOUS
  <2>1. Aligned /\ recv.flow.generation \in DOMAIN conns
    BY FileParts DEF ConnInv, Aligned
  <2> QED
    BY <1>1, <1>2, <2>1, AlignedKept
<1>6. drop'.phase = "Transferring" => sender.generation \in DOMAIN conns
  BY <1>4, FileParts DEF ConnInv
<1>7. /\ sender' = sender /\ sender \in Flows /\ sender.next_offset <= length
      /\ sender.sent_body_bytes <= sender.credit.bytes
      /\ sender.sent_records <= sender.credit.records
  BY <1>1, FileParts DEF ConnInv
<1>8. \A h \in DOMAIN conns, e \in Ups :
        e.type = "Result" /\ e \in conns'[h].up => e \in conns[h].up
  BY <1>2
<1> QED
  BY <1>1, <1>2, <1>4, <1>5, <1>6, <1>7, <1>8, PresenterMoves

LEMMA ReceiveMaxStep ==
  ASSUME FileInv, NEW g \in DOMAIN conns, ReceiveMax(g) PROVE FileInv'
<1>1. PICK m \in Up(g, "Max") :
        /\ sender' = IF g = sender.generation /\ drop.phase = "Transferring"
                       THEN Raised(sender, m.credit) ELSE sender
        /\ conns' = Without(g, m)
        /\ UNCHANGED <<gate, drop, binding, known, recv, to_presenter, to_producer, length,
                       told, commits>>
  BY DEF ReceiveMax, producerVars, control, history
<1>2. /\ DOMAIN conns' = DOMAIN conns /\ conns' \in [DOMAIN conns' -> Connections]
      /\ \A h \in DOMAIN conns : /\ conns'[h].up \subseteq conns[h].up
                                 /\ conns'[h].down = conns[h].down
                                 /\ conns'[h].open = conns[h].open
  BY <1>1, Heard
<1>3. m \in conns[g].up /\ m.type = "Max" /\ m.credit \in Credits
  BY <1>1, FileParts, ConnFields, UpsTyped DEF Up
<1>4. PICK d \in Credits :
        /\ Raised(sender, m.credit) =
             [generation |-> sender.generation, next_offset |-> sender.next_offset,
              sent_body_bytes |-> sender.sent_body_bytes,
              sent_records |-> sender.sent_records, credit |-> d]
        /\ AtMost(sender.credit, d) /\ AtMost(m.credit, d)
        /\ \A e \in Credits : AtMost(sender.credit, e) /\ AtMost(m.credit, e) => AtMost(d, e)
  BY <1>3, FileParts, RaisedFields
<1>5. /\ sender' \in Flows /\ sender'.generation = sender.generation
      /\ sender'.next_offset = sender.next_offset
      /\ sender'.sent_body_bytes = sender.sent_body_bytes
      /\ sender'.sent_records = sender.sent_records
      /\ AtMost(sender.credit, sender'.credit)
      /\ sender' = sender \/ (g = sender.generation /\ sender'.credit = d)
  <2>1. AtMost(sender.credit, sender.credit)
    BY FileParts, FlowFields DEF AtMost
  <2>2. Raised(sender, m.credit) \in Flows
    BY <1>3, FileParts, RaisedFields
  <2> QED
    BY <1>1, <1>4, <2>1, <2>2, FileParts
<1>6. /\ sender'.next_offset <= length
      /\ sender'.sent_body_bytes <= sender'.credit.bytes
      /\ sender'.sent_records <= sender'.credit.records
  <2>1. /\ sender.next_offset <= length /\ sender.sent_body_bytes <= sender.credit.bytes
        /\ sender.sent_records <= sender.credit.records
    BY FileParts DEF ConnInv
  <2>2. /\ sender.sent_body_bytes \in Nat /\ sender.sent_records \in Nat
        /\ sender.credit.bytes \in Nat /\ sender.credit.records \in Nat
        /\ sender'.credit.bytes \in Nat /\ sender'.credit.records \in Nat
    BY <1>5, FileParts, FlowFields
  <2> QED
    BY <1>5, <2>1, <2>2 DEF AtMost
<1>7. recv.phase = "Receiving" => Aligned'
  <2> SUFFICES ASSUME recv.phase = "Receiving" PROVE Aligned'
    OBVIOUS
  <2>1. Aligned
    BY FileParts DEF ConnInv
  <2>2. PICK h : h = recv.flow.generation
    OBVIOUS
  <2>3. /\ sender.generation = h /\ h \in DOMAIN conns
        /\ AtMost(sender.credit, recv.flow.credit)
        /\ \A e \in conns[h].up : e.type = "Max" => AtMost(e.credit, recv.flow.credit)
        /\ conns[h].open => Lined(sender, recv.flow, length, conns[h].down)
    BY <2>1, <2>2 DEF Aligned
  <2>4. AtMost(sender'.credit, recv.flow.credit)
    <3>1. recv.flow.credit \in Credits
      BY FileParts, ReceiverFields, FlowFields
    <3>2. g = h => AtMost(m.credit, recv.flow.credit)
      BY <1>3, <2>3
    <3> QED
      BY <1>4, <1>5, <2>3, <3>1, <3>2
  <2>5. conns[h].open => Lined(sender', recv.flow, length, conns[h].down)
    BY <1>5, <2>3 DEF Lined, InFlight
  <2> QED
    BY <1>1, <1>2, <1>5, <2>2, <2>3, <2>4, <2>5 DEF Aligned
<1>8. sender' = sender \/ sender.generation \in DOMAIN conns
  BY <1>5
<1>9. /\ drop' = drop /\ drop \in Drops
      /\ drop'.phase = "Transferring" => sender.generation \in DOMAIN conns
  BY <1>1, FileParts DEF ConnInv
<1>10. \A h \in DOMAIN conns, e \in Ups :
         e.type = "Result" /\ e \in conns'[h].up => e \in conns[h].up
  BY <1>2
<1> QED
  BY <1>1, <1>2, <1>5, <1>6, <1>7, <1>8, <1>9, <1>10, PresenterMoves

\* A message on its way to the producer.
LEMMA Sent ==
  ASSUME FileInv, NEW m \in Downs, Sends(m), NEW g, g = sender.generation
  PROVE  /\ drop.phase = "Transferring" /\ g \in DOMAIN conns
         /\ DOMAIN conns' = DOMAIN conns /\ conns' \in [DOMAIN conns' -> Connections]
         /\ \A h \in DOMAIN conns : /\ conns'[h].up = conns[h].up
                                    /\ conns'[h].open = conns[h].open
                                    /\ h # g => conns'[h].down = conns[h].down
         /\ conns[g].open => conns'[g].down = Append(conns[g].down, m)
<1>1. /\ drop.phase = "Transferring" /\ g \in DOMAIN conns
      /\ conns \in [DOMAIN conns -> Connections]
  BY FileParts DEF Sends, ConnInv
<1>2. CASE ~conns[g].open
  BY <1>1, <1>2 DEF Sends
<1>3. CASE conns[g].open
  <2> DEFINE u == conns[g].up
             s == Append(conns[g].down, m)
             o == conns[g].open
  <2>1. u \in SUBSET Ups /\ s \in Seq(Downs) /\ o \in BOOLEAN
    BY <1>1, ConnFields, AppendProperties
  <2>2. /\ DOMAIN conns' = DOMAIN conns /\ conns'[g] = [conns[g] EXCEPT !.down = s]
        /\ \A h \in DOMAIN conns : h # g => conns'[h] = conns[h]
        /\ conns' = [h \in DOMAIN conns' |-> conns'[h]]
    BY <1>1, <1>3 DEF Sends
  <2>3. conns[g] = [up |-> u, down |-> conns[g].down, open |-> o]
    BY <1>1, ConnFields
  <2> HIDE DEF u, s, o
  <2>4. conns'[g] = [up |-> u, down |-> s, open |-> o]
    BY <2>2, <2>3
  <2>5. conns'[g] \in Connections
    BY <2>1, <2>4 DEF Connections
  <2>6. conns' \in [DOMAIN conns' -> Connections]
    BY <1>1, <2>2, <2>5
  <2> QED
    BY <1>1, <2>2, <2>4, <2>6 DEF u, s, o
<1> QED
  BY <1>2, <1>3

LEMMA SendDataStep == ASSUME FileInv, NEW n \in 1..length, SendData(n) PROVE FileInv'
<1>0. PICK m : m = [type |-> "Data", offset |-> sender.next_offset, n |-> n]
  OBVIOUS
<1>1. /\ sender.next_offset + n <= length /\ Admits(sender, sender.next_offset, n)
      /\ Sends(m) /\ sender' = Admitted(sender, n)
      /\ UNCHANGED <<gate, drop, binding, known, recv, to_presenter, to_producer, length,
                     told, commits>>
  BY <1>0 DEF SendData, producerVars, control, history
<1>2. length \in Nat /\ n \in Nat /\ n > 0 /\ sender \in Flows /\ recv.flow \in Flows
  <2>1. length \in Nat
    BY FileParts DEF Typed
  <2> QED
    BY <2>1, FileParts, ReceiverFields
<1>3. /\ sender.next_offset \in Nat /\ sender.sent_body_bytes \in Nat
      /\ sender.sent_records \in Nat
  BY <1>2, FlowFields
<1>4. m \in Downs /\ m.type = "Data" /\ m.offset = sender.next_offset /\ m.n = n
  BY <1>0, <1>2, <1>3, DownsTyped
<1>5. PICK g : g = sender.generation
  OBVIOUS
<1>6. /\ drop.phase = "Transferring" /\ g \in DOMAIN conns
      /\ DOMAIN conns' = DOMAIN conns /\ conns' \in [DOMAIN conns' -> Connections]
      /\ \A h \in DOMAIN conns : /\ conns'[h].up = conns[h].up
                                 /\ conns'[h].open = conns[h].open
                                 /\ h # g => conns'[h].down = conns[h].down
      /\ conns[g].open => conns'[g].down = Append(conns[g].down, m)
  BY <1>1, <1>4, <1>5, Sent
<1>7. /\ sender' \in Flows
      /\ sender' = [generation |-> sender.generation, next_offset |-> sender.next_offset + n,
                    sent_body_bytes |-> sender.sent_body_bytes + n + Prefix,
                    sent_records |-> sender.sent_records + 1, credit |-> sender.credit]
  BY <1>1, <1>2, AdmittedFields
<1>8. /\ sender'.next_offset <= length
      /\ sender'.sent_body_bytes <= sender'.credit.bytes
      /\ sender'.sent_records <= sender'.credit.records
  BY <1>1, <1>7 DEF Admits
<1>9. recv.phase = "Receiving" => Aligned'
  <2> SUFFICES ASSUME recv.phase = "Receiving" PROVE Aligned'
    OBVIOUS
  <2>1. Aligned
    BY FileParts DEF ConnInv
  <2>2. /\ g = recv.flow.generation
        /\ AtMost(sender.credit, recv.flow.credit)
        /\ \A e \in conns[g].up : e.type = "Max" => AtMost(e.credit, recv.flow.credit)
        /\ conns[g].open => Lined(sender, recv.flow, length, conns[g].down)
    BY <1>5, <2>1 DEF Aligned
  <2>3. conns[g].open => Lined(sender', recv.flow, length, conns'[g].down)
    <3> SUFFICES ASSUME conns[g].open
                 PROVE Lined(Admitted(sender, n), recv.flow, length, Append(conns[g].down, m))
      BY <1>1, <1>6
    <3>1. conns[g].down \in Seq(Downs)
      BY <1>6, FileParts, ConnFields
    <3> QED
      BY <1>1, <1>2, <1>4, <2>2, <3>1, SentRecord
  <2>4. sender'.credit = sender.credit /\ sender'.generation = g
    BY <1>5, <1>7
  <2> QED
    BY <1>1, <1>6, <2>2, <2>3, <2>4 DEF Aligned
<1>10. /\ drop' = drop /\ drop \in Drops /\ sender'.generation = sender.generation
       /\ sender.generation \in DOMAIN conns
       /\ \A h \in DOMAIN conns, e \in Ups :
            e.type = "Result" /\ e \in conns'[h].up => e \in conns[h].up
  BY <1>1, <1>5, <1>6, <1>7, FileParts
<1> HIDE DEF SendData
<1> QED
  BY <1>1, <1>6, <1>7, <1>8, <1>9, <1>10, PresenterMoves

LEMMA SendFinishStep == ASSUME FileInv, SendFinish PROVE FileInv'
<1>0. PICK m : m = [type |-> "Finish"]
  OBVIOUS
<1>1. /\ sender.next_offset = length /\ Sends(m)
      /\ drop' = [drop EXCEPT !.finished = sender.generation]
      /\ UNCHANGED <<gate, sender, binding, known, recv, to_presenter, to_producer, length,
                     told, commits>>
  BY <1>0 DEF SendFinish, producerVars, control, history
<1>2. m \in Downs /\ m.type = "Finish"
  BY <1>0, DownsTyped
<1>3. PICK g : g = sender.generation
  OBVIOUS
<1>4. /\ drop.phase = "Transferring" /\ g \in DOMAIN conns
      /\ DOMAIN conns' = DOMAIN conns /\ conns' \in [DOMAIN conns' -> Connections]
      /\ \A h \in DOMAIN conns : /\ conns'[h].up = conns[h].up
                                 /\ conns'[h].open = conns[h].open
                                 /\ h # g => conns'[h].down = conns[h].down
      /\ conns[g].open => conns'[g].down = Append(conns[g].down, m)
  BY <1>1, <1>2, <1>3, Sent
<1>5. drop' \in Drops /\ drop'.grant = drop.grant /\ drop'.phase = drop.phase
  <2>1. g \in Nat /\ drop \in Drops
    BY <1>3, FileParts, FlowFields
  <2>2. /\ [drop EXCEPT !.finished = g] \in Drops
        /\ [drop EXCEPT !.finished = g] =
             [phase |-> drop.phase, grant |-> drop.grant, finished |-> g]
    BY <2>1 DEF Drops
  <2> QED
    BY <1>1, <1>3, <2>2
<1>6. recv.phase = "Receiving" => Aligned'
  <2> SUFFICES ASSUME recv.phase = "Receiving" PROVE Aligned'
    OBVIOUS
  <2>1. Aligned
    BY FileParts DEF ConnInv
  <2>2. /\ g = recv.flow.generation
        /\ AtMost(sender.credit, recv.flow.credit)
        /\ \A e \in conns[g].up : e.type = "Max" => AtMost(e.credit, recv.flow.credit)
        /\ conns[g].open => Lined(sender, recv.flow, length, conns[g].down)
    BY <1>3, <2>1 DEF Aligned
  <2>3. conns[g].open => Lined(sender, recv.flow, length, conns'[g].down)
    <3> SUFFICES ASSUME conns[g].open
                 PROVE Lined(sender, recv.flow, length, Append(conns[g].down, m))
      BY <1>4
    <3>1. conns[g].down \in Seq(Downs) /\ sender \in Flows /\ recv.flow \in Flows
      BY <1>4, FileParts, ConnFields, ReceiverFields
    <3>2. length \in Nat
      BY FileParts DEF Typed
    <3> QED
      BY <1>1, <1>2, <2>2, <3>1, <3>2, SentFinish
  <2> QED
    BY <1>1, <1>3, <1>4, <2>2, <2>3 DEF Aligned
<1>7. /\ sender' = sender /\ sender \in Flows /\ sender.generation \in DOMAIN conns
      /\ sender.next_offset <= length
      /\ sender.sent_body_bytes <= sender.credit.bytes
      /\ sender.sent_records <= sender.credit.records
      /\ \A h \in DOMAIN conns, e \in Ups :
           e.type = "Result" /\ e \in conns'[h].up => e \in conns[h].up
  BY <1>1, <1>3, <1>4, FileParts DEF ConnInv
<1> QED
  BY <1>1, <1>4, <1>5, <1>6, <1>7, PresenterMoves

LEMMA LoseConnectionStep ==
  ASSUME FileInv, NEW g \in DOMAIN conns, LoseConnection(g) PROVE FileInv'
<1>1. PICK arrives \in SUBSET conns[g].up :
        conns' = [conns EXCEPT ![g] = [up |-> arrives, down |-> <<>>, open |-> FALSE]]
  BY DEF LoseConnection
<1>2. UNCHANGED <<gate, drop, sender, binding, known, recv, to_presenter, to_producer, length,
                  told, commits>>
  BY DEF LoseConnection, presenterVars, producerVars, control, history
<1>3. conns \in [DOMAIN conns -> Connections] /\ arrives \in SUBSET Ups /\ <<>> \in Seq(Downs)
  BY FileParts, ConnFields
<1>4. PICK lost \in BOOLEAN : lost = FALSE
  OBVIOUS
<1>5. PICK c : c = [up |-> arrives, down |-> <<>>, open |-> lost]
  OBVIOUS
<1>6. c \in Connections /\ c.up = arrives /\ ~c.open
  BY <1>3, <1>4, <1>5 DEF Connections
<1>7. conns' = [conns EXCEPT ![g] = c]
  BY <1>1, <1>4, <1>5
<1>8. /\ DOMAIN conns' = DOMAIN conns /\ conns' \in [DOMAIN conns' -> Connections]
      /\ conns'[g].up \subseteq conns[g].up /\ ~conns'[g].open
      /\ \A h \in DOMAIN conns : h # g => conns'[h] = conns[h]
  BY <1>3, <1>6, <1>7
<1>9. recv.phase = "Receiving" => Aligned'
  <2> SUFFICES ASSUME recv.phase = "Receiving" PROVE Aligned'
    OBVIOUS
  <2>1. Aligned /\ recv.flow.generation \in DOMAIN conns
    BY FileParts DEF ConnInv, Aligned
  <2> QED
    BY <1>2, <1>8, <2>1, AlignedKept
<1>10. /\ drop \in Drops /\ sender \in Flows
       /\ sender.next_offset <= length
       /\ sender.sent_body_bytes <= sender.credit.bytes
       /\ sender.sent_records <= sender.credit.records
       /\ drop.phase = "Transferring" => sender.generation \in DOMAIN conns
       /\ \A h \in DOMAIN conns, e \in Ups :
            e.type = "Result" /\ e \in conns'[h].up => e \in conns[h].up
  BY <1>8, FileParts DEF ConnInv
<1> QED
  BY <1>2, <1>8, <1>9, <1>10, PresenterMoves

\* A step of the producer while the file is on its way.
LEMMA ProducerMoves ==
  ASSUME FileInv,
         UNCHANGED <<gate, drop, sender, binding, known, to_presenter, to_producer, length, told>>,
         recv.phase \in {"Accepted", "Receiving"},
         recv' \in Receivers, recv'.grant = recv.grant,
         recv'.phase \in {"Receiving", "Committed"},
         DOMAIN conns' \subseteq Nat, conns' \in [DOMAIN conns' -> Connections],
         DOMAIN conns \subseteq DOMAIN conns',
         \A h \in DOMAIN conns' : h <= recv'.flow.generation,
         recv'.phase = "Receiving" => Aligned', CommitInv', ResumesExactly'
  PROVE  FileInv'
<1>1. Clear(to_producer) /\ Clear(to_presenter)
  BY Silent
<1>2. HandInv'
  <2>1. Turn(to_producer, to_presenter)'
    <3>1. Turn(to_producer', to_presenter')
      BY FileParts
    <3> QED
      BY <3>1 DEF Turn, Single, Clear
  <2>2. \A e \in Elements(to_presenter)' : PresenterHears(e)'
    <3>1. \A e \in Elements(to_presenter) : PresenterHears(e)'
      BY <1>1, FileParts, ClearElements, Deaf
    <3> QED
      BY <3>1 DEF Elements
  <2>3. \A e \in Elements(to_producer)' : ProducerHears(e)'
    <3>1. \A e \in Elements(to_producer) : ProducerHears(e)'
      BY <1>1, FileParts, ClearElements, Deaf
    <3> QED
      BY <3>1 DEF Elements
  <2>4. drop.phase # "None"
    BY FileParts DEF HandInv
  <2> QED
    BY <2>1, <2>2, <2>3, <2>4, FileParts DEF HandInv
<1>3. ConnInv'
  BY FileParts DEF ConnInv
<1>4. GrantsInv'
  <2>1. Elements(to_producer') = Elements(to_producer)
    OBVIOUS
  <2> QED
    BY <2>1, FileParts, GrantsKept
<1>5. Typed'
  BY FileParts DEF Typed, CommitInv
<1> QED
  BY <1>2, <1>3, <1>4, <1>5 DEF FileInv

LEMMA OpenTransferStep == ASSUME FileInv, OpenTransfer PROVE FileInv'
<1>0. PICK g : g = recv.flow.generation
  OBVIOUS
<1>1. PICK o : o = Opening(recv.flow)
  OBVIOUS
<1>2. /\ recv.phase = "Accepted" /\ g \notin DOMAIN conns
      /\ conns' = With(conns, g, NewConnection(o)) /\ recv' = [recv EXCEPT !.phase = "Receiving"]
      /\ UNCHANGED <<gate, drop, sender, binding, known, to_presenter, to_producer, length, told,
                     commits>>
  BY <1>0, <1>1 DEF OpenTransfer, presenterVars, control, history
<1>3. /\ recv'.phase = "Receiving" /\ recv'.flow = recv.flow /\ recv'.grant = recv.grant
      /\ recv'.stored = recv.stored /\ recv' \in Receivers
  <2>1. [recv EXCEPT !.phase = "Receiving"] =
          [phase |-> "Receiving", grant |-> recv.grant, flow |-> recv.flow,
           stored |-> recv.stored]
    BY RecvPhase
  <2> QED
    BY <1>2, <2>1, FileParts, ReceiverFields DEF Receivers
<1>4. o \in Ups /\ o.type = "Open"
  <2>1. recv.flow.next_offset \in Nat /\ recv.flow.credit \in Credits
    BY FileParts, ReceiverFields, FlowFields
  <2> QED
    BY <1>1, <2>1, UpsTyped DEF Opening
<1>5. PICK c : c = NewConnection(o)
  OBVIOUS
<1>6. c \in Connections /\ c.up = {o} /\ c.down = <<>>
  <2>1. PICK open \in BOOLEAN : open = TRUE
    OBVIOUS
  <2>2. c = [up |-> {o}, down |-> <<>>, open |-> open]
    BY <1>5, <2>1 DEF NewConnection
  <2>3. {o} \in SUBSET Ups /\ <<>> \in Seq(Downs)
    BY <1>4
  <2> QED
    BY <2>2, <2>3 DEF Connections
<1>7. /\ DOMAIN conns' = DOMAIN conns \union {g} /\ conns'[g] = c
      /\ \A h \in DOMAIN conns : conns'[h] = conns[h]
      /\ conns' \in [DOMAIN conns' -> Connections]
  <2>1. conns \in [DOMAIN conns -> Connections]
    BY FileParts
  <2>2. conns' = [h \in DOMAIN conns \union {g} |-> IF h = g THEN c ELSE conns[h]]
    BY <1>2, <1>5 DEF With
  <2> QED
    BY <1>2, <1>6, <2>1, <2>2
<1>8. g \in Nat /\ DOMAIN conns' \subseteq Nat
  BY <1>0, <1>7, FileParts, ReceiverFields
<1>9. \A h \in DOMAIN conns' : h <= recv'.flow.generation
  BY <1>0, <1>3, <1>7, <1>8, FileParts DEF ConnInv
<1>10. Aligned'
  <2>1. sender = recv.flow
    BY <1>2, FileParts DEF ConnInv
  <2>2. AtMost(sender.credit, recv.flow.credit)
    BY <2>1, FileParts, FlowFields DEF AtMost
  <2>3. Lined(sender, recv.flow, length, <<>>)
    <3>1. InFlight(sender, recv.flow, length, <<>>, 0)
      <4>1. /\ sender.next_offset \in Nat /\ sender.sent_records \in Nat
            /\ sender.sent_body_bytes \in Nat /\ Prefix \in Nat
        BY FileParts, FlowFields, Constants
      <4>2. Len(<<>>) = 0
        OBVIOUS
      <4> QED
        BY <2>1, <4>1, <4>2 DEF InFlight
    <3> QED
      BY <3>1 DEF Lined
  <2> QED
    BY <1>0, <1>2, <1>3, <1>4, <1>6, <1>7, <2>1, <2>2, <2>3 DEF Aligned
<1>11. CommitInv'
  <2>1. \A h \in DOMAIN conns' : \A e \in conns'[h].up : e.type = "Result" => commits = 1
    BY <1>4, <1>6, <1>7, FileParts DEF CommitInv
  <2> QED
    BY <1>2, <1>3, <2>1, FileParts DEF CommitInv
<1>12. ResumesExactly'
  BY <1>2, <1>3, FileParts DEF ResumesExactly
<1> QED
  BY <1>2, <1>3, <1>7, <1>8, <1>9, <1>10, <1>11, <1>12, ProducerMoves

LEMMA RaiseStep == ASSUME FileInv, Raise PROVE FileInv'
<1>0. PICK g : g = recv.flow.generation
  OBVIOUS
<1>1. PICK more : more = [bytes |-> recv.flow.credit.bytes + 1 + Prefix,
                          records |-> recv.flow.credit.records + 1]
  OBVIOUS
<1>2. PICK m : m = [type |-> "Max", credit |-> more]
  OBVIOUS
<1>3. /\ recv.phase = "Receiving" /\ recv' = [recv EXCEPT !.flow = Raised(recv.flow, more)]
      /\ conns' = [conns EXCEPT ![g].up = conns[g].up \union {m}]
      /\ UNCHANGED <<gate, drop, sender, binding, known, to_presenter, to_producer, length, told,
                     commits>>
  BY <1>0, <1>1, <1>2 DEF Raise, presenterVars, control, history
<1>4. recv.flow \in Flows /\ recv.flow.credit \in Credits /\ more \in Credits
  <2>1. /\ recv.flow \in Flows /\ recv.flow.credit \in Credits
        /\ recv.flow.credit.bytes \in Nat /\ recv.flow.credit.records \in Nat
    BY FileParts, ReceiverFields, FlowFields
  <2>2. recv.flow.credit.bytes + 1 + Prefix \in Nat /\ recv.flow.credit.records + 1 \in Nat
    BY <2>1, Constants
  <2> QED
    BY <1>1, <2>1, <2>2 DEF Credits
<1>5. m \in Ups /\ m.type = "Max" /\ m.credit = more
  BY <1>2, <1>4, UpsTyped
<1>6. PICK d \in Credits :
        /\ Raised(recv.flow, more) =
             [generation |-> recv.flow.generation, next_offset |-> recv.flow.next_offset,
              sent_body_bytes |-> recv.flow.sent_body_bytes,
              sent_records |-> recv.flow.sent_records, credit |-> d]
        /\ AtMost(recv.flow.credit, d) /\ AtMost(more, d)
        /\ Raised(recv.flow, more) \in Flows
  BY <1>4, RaisedFields
<1>7. PICK f \in Flows : f = Raised(recv.flow, more)
  BY <1>6
<1>8. /\ f.generation = g /\ f.next_offset = recv.flow.next_offset
      /\ f.sent_body_bytes = recv.flow.sent_body_bytes
      /\ f.sent_records = recv.flow.sent_records /\ f.credit = d
  BY <1>0, <1>6, <1>7
<1>9. /\ recv'.phase = "Receiving" /\ recv'.flow = f /\ recv'.grant = recv.grant
      /\ recv'.stored = recv.stored /\ recv' \in Receivers
  <2>1. [recv EXCEPT !.flow = f] =
          [phase |-> recv.phase, grant |-> recv.grant, flow |-> f, stored |-> recv.stored]
    BY RecvFlow
  <2>2. recv' = [phase |-> recv.phase, grant |-> recv.grant, flow |-> f, stored |-> recv.stored]
    BY <1>3, <1>7, <2>1
  <2>3. recv.grant \in Grants \union {None} /\ recv.stored \in Seq(Nat)
    BY FileParts, ReceiverFields
  <2>4. [phase |-> "Receiving", grant |-> recv.grant, flow |-> f, stored |-> recv.stored]
          \in Receivers
    BY <2>3 DEF Receivers
  <2>5. recv.phase = "Receiving"
    BY <1>3
  <2> QED
    BY <2>2, <2>4, <2>5
<1>10. Aligned
  BY <1>3, FileParts DEF ConnInv
<1>11. g \in DOMAIN conns /\ conns \in [DOMAIN conns -> Connections]
  BY <1>0, <1>10, FileParts DEF Aligned
<1>12. /\ DOMAIN conns' = DOMAIN conns /\ conns' \in [DOMAIN conns' -> Connections]
       /\ \A h \in DOMAIN conns : h # g => conns'[h] = conns[h]
       /\ conns'[g].up = conns[g].up \union {m} /\ conns'[g].down = conns[g].down
       /\ conns'[g].open = conns[g].open
  <2> DEFINE u == conns[g].up \union {m}
             s == conns[g].down
             o == conns[g].open
  <2>1. u \in SUBSET Ups /\ s \in Seq(Downs) /\ o \in BOOLEAN
    BY <1>5, <1>11, ConnFields
  <2>2. /\ DOMAIN conns' = DOMAIN conns /\ conns'[g] = [conns[g] EXCEPT !.up = u]
        /\ \A h \in DOMAIN conns : h # g => conns'[h] = conns[h]
        /\ conns' = [h \in DOMAIN conns' |-> conns'[h]]
    BY <1>3, <1>11
  <2>3. conns[g] = [up |-> conns[g].up, down |-> s, open |-> o]
    BY <1>11, ConnFields
  <2> HIDE DEF u, s, o
  <2>4. conns'[g] = [up |-> u, down |-> s, open |-> o]
    BY <2>2, <2>3
  <2>5. conns'[g] \in Connections
    BY <2>1, <2>4 DEF Connections
  <2>6. conns' \in [DOMAIN conns' -> Connections]
    BY <1>11, <2>2, <2>5
  <2> QED
    BY <2>2, <2>4, <2>6 DEF u, s, o
<1>13. Aligned'
  <2>1. /\ AtMost(sender.credit, recv.flow.credit)
        /\ \A e \in conns[g].up : e.type = "Max" => AtMost(e.credit, recv.flow.credit)
        /\ conns[g].open => Lined(sender, recv.flow, length, conns[g].down)
        /\ sender.generation = g
    BY <1>0, <1>10 DEF Aligned
  <2>2. \A e \in Credits : AtMost(e, recv.flow.credit) => AtMost(e, d)
    <3>1. /\ recv.flow.credit.bytes \in Nat /\ recv.flow.credit.records \in Nat
          /\ d.bytes \in Nat /\ d.records \in Nat
      BY <1>4, <1>6 DEF Credits
    <3>2. \A e \in Credits : e.bytes \in Nat /\ e.records \in Nat
      BY DEF Credits
    <3>3. AtMost(recv.flow.credit, d)
      BY <1>6
    <3> QED
      BY <3>1, <3>2, <3>3 DEF AtMost
  <2>3. AtMost(sender.credit, d)
    BY <2>1, <2>2, FileParts, FlowFields
  <2>4. \A e \in conns'[g].up : e.type = "Max" => AtMost(e.credit, d)
    <3> SUFFICES ASSUME NEW e \in conns'[g].up, e.type = "Max" PROVE AtMost(e.credit, d)
      OBVIOUS
    <3>1. CASE e = m
      BY <1>5, <1>6, <3>1
    <3>2. CASE e \in conns[g].up
      <4>1. e \in Ups
        BY <1>11, <3>2, ConnFields
      <4>2. e.credit \in Credits
        BY <4>1, UpsTyped
      <4> QED
        BY <2>1, <2>2, <3>2, <4>2
    <3> QED
      BY <1>12, <3>1, <3>2
  <2>5. conns'[g].open => Lined(sender, f, length, conns'[g].down)
    <3> SUFFICES ASSUME conns'[g].open
                 PROVE  Lined(sender, f, length, conns'[g].down)
      OBVIOUS
    <3>1. PICK k \in 0..Len(conns[g].down) :
            InFlight(sender, recv.flow, length, conns[g].down, k)
      BY <1>12, <2>1 DEF Lined
    <3>2. InFlight(sender, f, length, conns[g].down, k)
      BY <1>8, <3>1 DEF InFlight
    <3>3. conns'[g].down = conns[g].down
      BY <1>12
    <3> QED
      BY <3>1, <3>2, <3>3 DEF Lined
  <2> QED
    BY <1>3, <1>8, <1>9, <1>11, <1>12, <2>1, <2>3, <2>4, <2>5 DEF Aligned
<1>14. \A h \in DOMAIN conns' : h <= recv'.flow.generation
  BY <1>0, <1>8, <1>9, <1>12, FileParts DEF ConnInv
<1>15. CommitInv'
  <2>1. \A h \in DOMAIN conns' : \A e \in conns'[h].up : e.type = "Result" => commits = 1
    BY <1>5, <1>12, FileParts DEF CommitInv
  <2> QED
    BY <1>3, <1>8, <1>9, <2>1, FileParts DEF CommitInv
<1>16. ResumesExactly'
  BY <1>3, <1>8, <1>9, FileParts DEF ResumesExactly
<1> QED
  BY <1>3, <1>9, <1>12, <1>13, <1>14, <1>15, <1>16, FileParts, ProducerMoves

\* The file up to one place, and the bytes that follow.
LEMMA PrefixGrows ==
  ASSUME NEW a \in Nat, NEW n \in Nat
  PROVE  /\ [i \in 1..a |-> i] \o [i \in 1..n |-> a + i] = [i \in 1..a + n |-> i]
         /\ [i \in 1..a + n |-> i] \in Seq(Nat)
<1> DEFINE p == [i \in 1..a |-> i]
           q == [i \in 1..n |-> a + i]
           r == [i \in 1..a + n |-> i]
<1>1. p \in Seq(Nat) /\ Len(p) = a /\ (\A i \in 1..a : p[i] = i)
  OBVIOUS
<1>2. q \in Seq(Nat) /\ Len(q) = n /\ (\A i \in 1..n : q[i] = a + i)
  OBVIOUS
<1>3. r \in Seq(Nat) /\ Len(r) = a + n /\ (\A i \in 1..a + n : r[i] = i)
  OBVIOUS
<1> HIDE DEF p, q, r
<1>4. /\ p \o q \in Seq(Nat) /\ Len(p \o q) = a + n
      /\ \A i \in 1..a + n : (p \o q)[i] = IF i <= a THEN p[i] ELSE q[i - a]
  BY <1>1, <1>2, ConcatProperties
<1>5. \A i \in 1..a + n : (p \o q)[i] = i
  <2> SUFFICES ASSUME NEW i \in 1..a + n PROVE (p \o q)[i] = i
    OBVIOUS
  <2>1. CASE i <= a
    BY <1>1, <1>4, <2>1
  <2>2. CASE ~(i <= a)
    <3>1. i - a \in 1..n /\ a + (i - a) = i
      BY <2>2
    <3> QED
      BY <1>2, <1>4, <2>2, <3>1
  <2> QED
    BY <2>1, <2>2
<1>6. p \o q = r
  BY <1>3, <1>4, <1>5, SeqEqual
<1> QED
  BY <1>3, <1>6 DEF p, q, r

\* A message that the producer takes from a connection.
LEMMA Took ==
  ASSUME FileInv, NEW g \in DOMAIN conns, conns[g].down # <<>>, NEW D, D = Taken(g)
  PROVE  /\ DOMAIN D = DOMAIN conns /\ D \in [DOMAIN D -> Connections]
         /\ \A h \in DOMAIN conns : h # g => D[h] = conns[h]
         /\ D[g].up = conns[g].up /\ D[g].down = Tail(conns[g].down)
         /\ D[g].open = conns[g].open
<1> DEFINE u == conns[g].up
           s == Tail(conns[g].down)
           o == conns[g].open
<1>1. conns \in [DOMAIN conns -> Connections]
  BY FileParts
<1>2. u \in SUBSET Ups /\ s \in Seq(Downs) /\ o \in BOOLEAN
  BY <1>1, ConnFields, HeadTailProperties
<1>3. /\ DOMAIN D = DOMAIN conns /\ D[g] = [conns[g] EXCEPT !.down = s]
      /\ \A h \in DOMAIN conns : h # g => D[h] = conns[h]
      /\ D = [h \in DOMAIN D |-> D[h]]
  BY <1>1 DEF Taken
<1>4. conns[g] = [up |-> u, down |-> conns[g].down, open |-> o]
  BY <1>1, ConnFields
<1> HIDE DEF u, s, o
<1>5. D[g] = [up |-> u, down |-> s, open |-> o]
  BY <1>3, <1>4
<1>6. D[g] \in Connections
  BY <1>2, <1>5 DEF Connections
<1>7. D \in [DOMAIN D -> Connections]
  BY <1>1, <1>3, <1>6
<1> QED
  BY <1>3, <1>5, <1>7 DEF u, s, o

\* What arrives on the connection of an older generation changes nothing else.
LEMMA Dropped ==
  ASSUME FileInv, NEW g \in DOMAIN conns, conns[g].down # <<>>, conns' = Taken(g),
         ~Receives(g),
         UNCHANGED <<gate, drop, sender, binding, known, recv, to_presenter, to_producer, length,
                     told, commits>>
  PROVE  FileInv'
<1>1. /\ DOMAIN conns' = DOMAIN conns /\ conns' \in [DOMAIN conns' -> Connections]
      /\ \A h \in DOMAIN conns : h # g => conns'[h] = conns[h]
      /\ conns'[g].up = conns[g].up
  BY Took
<1>2. recv.phase = "Receiving" => Aligned'
  <2> SUFFICES ASSUME recv.phase = "Receiving" PROVE Aligned'
    OBVIOUS
  <2>1. Aligned /\ recv.flow.generation \in DOMAIN conns /\ recv.flow.generation # g
    BY FileParts DEF ConnInv, Aligned, Receives
  <2> QED
    BY <1>1, <2>1, AlignedKept
<1>3. /\ drop \in Drops /\ sender \in Flows
      /\ sender.next_offset <= length
      /\ sender.sent_body_bytes <= sender.credit.bytes
      /\ sender.sent_records <= sender.credit.records
      /\ drop.phase = "Transferring" => sender.generation \in DOMAIN conns
      /\ \A h \in DOMAIN conns, e \in Ups :
           e.type = "Result" /\ e \in conns'[h].up => e \in conns[h].up
  BY <1>1, FileParts DEF ConnInv
<1> QED
  BY <1>1, <1>2, <1>3, PresenterMoves

LEMMA ReceiveDataStep ==
  ASSUME FileInv, NEW g \in DOMAIN conns, ReceiveData(g) PROVE FileInv'
<1>0. PICK m : m = Head(conns[g].down)
  OBVIOUS
<1>1. /\ conns[g].open /\ conns[g].down # <<>> /\ m.type = "Data"
      /\ conns' = Taken(g)
      /\ UNCHANGED <<gate, drop, sender, binding, known, to_presenter, to_producer, length, told,
                     commits>>
  BY <1>0 DEF ReceiveData, Arrives, presenterVars, control, history
<1>2. recv' = IF ~Receives(g) THEN recv
              ELSE IF Admits(recv.flow, m.offset, m.n) /\ m.offset + m.n <= length
                THEN [recv EXCEPT !.flow = Admitted(recv.flow, m.n),
                                  !.stored = recv.stored \o Bytes(m)]
                ELSE [recv EXCEPT !.phase = "Failed"]
  BY <1>0 DEF ReceiveData
<1>3. CASE ~Receives(g)
  BY <1>1, <1>2, <1>3, Dropped
<1>4. CASE Receives(g)
  <2>1. /\ recv.phase = "Receiving" /\ g = recv.flow.generation /\ Aligned
        /\ recv.flow \in Flows /\ recv.stored \in Seq(Nat) /\ length \in Nat
    BY <1>4, FileParts, ReceiverFields DEF Receives, ConnInv, Typed
  <2>2. /\ sender.generation = g /\ AtMost(sender.credit, recv.flow.credit)
        /\ \A e \in conns[g].up : e.type = "Max" => AtMost(e.credit, recv.flow.credit)
        /\ Lined(sender, recv.flow, length, conns[g].down)
        /\ conns[g].down \in Seq(Downs)
    BY <1>1, <2>1, FileParts, ConnFields DEF Aligned
  <2>3. /\ sender \in Flows /\ sender.next_offset <= length
        /\ sender.sent_body_bytes <= sender.credit.bytes
        /\ sender.sent_records <= sender.credit.records
    BY FileParts DEF ConnInv
  <2>4. /\ m.offset \in Nat /\ m.n \in Nat /\ m.n > 0 /\ m.offset = recv.flow.next_offset
        /\ m.offset + m.n <= length /\ Admits(recv.flow, m.offset, m.n)
        /\ Lined(sender, Admitted(recv.flow, m.n), length, Tail(conns[g].down))
    <3>1. PICK s \in Flows, r \in Flows, down \in Seq(Downs), l \in Nat :
            s = sender /\ r = recv.flow /\ down = conns[g].down /\ l = length
      BY <2>1, <2>2, <2>3
    <3>2. /\ Lined(s, r, l, down) /\ down # <<>> /\ m = Head(down)
          /\ s.next_offset <= l /\ s.sent_body_bytes <= s.credit.bytes
          /\ s.sent_records <= s.credit.records /\ AtMost(s.credit, r.credit)
      BY <1>0, <1>1, <2>2, <2>3, <3>1
    <3>3. /\ m.offset \in Nat /\ m.n \in Nat /\ m.n > 0 /\ m.offset = r.next_offset
          /\ m.offset + m.n <= l /\ Admits(r, m.offset, m.n)
          /\ Lined(s, Admitted(r, m.n), l, Tail(down))
      BY <1>1, <3>2, TakenRecord
    <3> QED
      BY <3>1, <3>3
  <2>5. PICK n \in Nat : n = m.n
    BY <2>4
  <2>6. PICK f \in Flows : f = Admitted(recv.flow, n)
    BY <2>1, AdmittedFields
  <2>7. /\ f.generation = g /\ f.next_offset = recv.flow.next_offset + n
        /\ f.credit = recv.flow.credit
    BY <2>1, <2>6, AdmittedFields
  <2>8. PICK s : s = recv.stored \o Bytes(m)
    OBVIOUS
  <2>9. s = [i \in 1..f.next_offset |-> i] /\ s \in Seq(Nat)
    <3>1. PICK a \in Nat : a = recv.flow.next_offset
      BY <2>4
    <3>2. recv.stored = [i \in 1..a |-> i]
      BY <2>1, <3>1, FileParts DEF ResumesExactly
    <3>3. Bytes(m) = [i \in 1..n |-> a + i]
      BY <2>4, <2>5, <3>1 DEF Bytes
    <3>4. s = [i \in 1..a + n |-> i] /\ s \in Seq(Nat)
      BY <2>8, <3>2, <3>3, PrefixGrows
    <3> QED
      BY <2>7, <3>1, <3>4
  <2>10. /\ recv'.phase = "Receiving" /\ recv'.flow = f /\ recv'.grant = recv.grant
         /\ recv'.stored = s /\ recv' \in Receivers
    <3> DEFINE x == [recv EXCEPT !.flow = f]
    <3>1. recv' = [x EXCEPT !.stored = s]
      BY <1>2, <1>4, <2>4, <2>5, <2>6, <2>8
    <3>2. x = [phase |-> recv.phase, grant |-> recv.grant, flow |-> f, stored |-> recv.stored]
      BY RecvFlow
    <3> HIDE DEF x
    <3>3. recv' = [phase |-> recv.phase, grant |-> recv.grant, flow |-> f, stored |-> s]
      BY <3>1, <3>2
    <3>4. recv.grant \in Grants \union {None}
      BY FileParts, ReceiverFields
    <3>5. [phase |-> "Receiving", grant |-> recv.grant, flow |-> f, stored |-> s] \in Receivers
      BY <2>9, <3>4 DEF Receivers
    <3> QED
      BY <2>1, <3>3, <3>5
  <2>11. /\ DOMAIN conns' = DOMAIN conns /\ conns' \in [DOMAIN conns' -> Connections]
         /\ \A h \in DOMAIN conns : h # g => conns'[h] = conns[h]
         /\ conns'[g].up = conns[g].up /\ conns'[g].down = Tail(conns[g].down)
         /\ conns'[g].open = conns[g].open
    BY <1>1, Took
  <2>12. Aligned'
    <3>1. Lined(sender, f, length, conns'[g].down)
      BY <2>4, <2>5, <2>6, <2>11
    <3> QED
      BY <1>1, <2>2, <2>7, <2>10, <2>11, <3>1 DEF Aligned
  <2>13. commits = 0
    <3>1. commits = 1 => recv.flow.next_offset = length
      BY FileParts DEF CommitInv
    <3>2. recv.flow.next_offset # length
      BY <2>1, <2>4
    <3> QED
      BY <3>1, <3>2, FileParts DEF CommitInv
  <2>14. CommitInv'
    <3>1. \A h \in DOMAIN conns' : \A e \in conns'[h].up : e.type = "Result" => commits = 1
      BY <2>11, FileParts DEF CommitInv
    <3> QED
      BY <1>1, <2>13, <3>1, FileParts DEF CommitInv
  <2>15. ResumesExactly'
    BY <2>9, <2>10 DEF ResumesExactly
  <2>16. \A h \in DOMAIN conns' : h <= recv'.flow.generation
    BY <2>1, <2>7, <2>10, <2>11, FileParts DEF ConnInv
  <2> QED
    BY <1>1, <2>1, <2>10, <2>11, <2>12, <2>14, <2>15, <2>16, FileParts, ProducerMoves
<1> QED
  BY <1>3, <1>4

LEMMA ReceiveFinishStep ==
  ASSUME FileInv, NEW g \in DOMAIN conns, ReceiveFinish(g) PROVE FileInv'
<1>0. PICK whole \in BOOLEAN : whole <=> recv.flow.next_offset = length
  OBVIOUS
<1>1. PICK answer : answer =
        [type |-> "Result", result |-> IF Commits THEN "Committed" ELSE "AlreadyCommitted"]
  OBVIOUS
<1>2. /\ conns[g].open /\ conns[g].down # <<>> /\ Head(conns[g].down).type = "Finish"
      /\ UNCHANGED <<gate, drop, sender, binding, known, to_presenter, to_producer, length, told>>
  BY DEF ReceiveFinish, Arrives, presenterVars, control
<1>3. /\ recv' = IF ~Receives(g) THEN recv
                 ELSE [recv EXCEPT !.phase = IF whole THEN "Committed" ELSE "Failed"]
      /\ commits' = IF Receives(g) /\ whole /\ Commits THEN commits + 1 ELSE commits
      /\ conns' = IF Receives(g) /\ whole
                    THEN [Taken(g) EXCEPT ![g].up = Taken(g)[g].up \union {answer}]
                    ELSE Taken(g)
  BY <1>0, <1>1 DEF ReceiveFinish
<1>4. CASE ~Receives(g)
  BY <1>2, <1>3, <1>4, Dropped
<1>5. CASE Receives(g)
  <2>1. /\ recv.phase = "Receiving" /\ g = recv.flow.generation /\ Aligned
        /\ recv.flow \in Flows /\ sender \in Flows /\ length \in Nat
    BY <1>5, FileParts, ReceiverFields DEF Receives, ConnInv, Typed
  <2>2. Lined(sender, recv.flow, length, conns[g].down) /\ conns[g].down \in Seq(Downs)
    BY <1>2, <2>1, FileParts, ConnFields DEF Aligned
\* The end of the file is behind all of its data.
  <2>3. recv.flow.next_offset = length /\ whole
    BY <1>0, <1>2, <2>1, <2>2, FinishedAtEnd
  <2>4. /\ recv'.phase = "Committed" /\ recv'.flow = recv.flow /\ recv'.grant = recv.grant
        /\ recv'.stored = recv.stored /\ recv' \in Receivers
    <3>1. recv' = [recv EXCEPT !.phase = "Committed"]
      BY <1>3, <1>5, <2>3
    <3>2. [recv EXCEPT !.phase = "Committed"] =
            [phase |-> "Committed", grant |-> recv.grant, flow |-> recv.flow,
             stored |-> recv.stored]
      BY RecvPhase
    <3> QED
      BY <3>1, <3>2, FileParts, ReceiverFields DEF Receivers
  <2>5. commits' = 1
    BY <1>3, <1>5, <2>3, FileParts DEF CommitInv, Commits
  <2>6. answer \in Ups
    BY <1>1, UpsTyped
  <2>7. PICK D : D = Taken(g)
    OBVIOUS
  <2>8. /\ DOMAIN D = DOMAIN conns /\ D \in [DOMAIN D -> Connections]
        /\ \A h \in DOMAIN conns : h # g => D[h] = conns[h]
        /\ D[g].up = conns[g].up
    BY <1>2, <2>7, Took
  <2>9. /\ DOMAIN conns' = DOMAIN conns /\ conns' \in [DOMAIN conns' -> Connections]
    <3> DEFINE u == D[g].up \union {answer}
               s == D[g].down
               o == D[g].open
    <3>1. u \in SUBSET Ups /\ s \in Seq(Downs) /\ o \in BOOLEAN
      BY <2>6, <2>8, ConnFields
    <3>2. /\ DOMAIN conns' = DOMAIN D /\ conns'[g] = [D[g] EXCEPT !.up = u]
          /\ \A h \in DOMAIN D : h # g => conns'[h] = D[h]
          /\ conns' = [h \in DOMAIN conns' |-> conns'[h]]
      BY <1>3, <1>5, <2>3, <2>7, <2>8
    <3>3. D[g] = [up |-> D[g].up, down |-> s, open |-> o]
      BY <2>8, ConnFields
    <3> HIDE DEF u, s, o
    <3>4. conns'[g] = [up |-> u, down |-> s, open |-> o]
      BY <3>2, <3>3
    <3>5. conns'[g] \in Connections
      BY <3>1, <3>4 DEF Connections
    <3> QED
      BY <2>8, <3>2, <3>5
  <2>10. CommitInv'
    BY <2>3, <1>2, <2>4, <2>5 DEF CommitInv
  <2>11. ResumesExactly'
    BY <2>1, <2>4, FileParts DEF ResumesExactly
  <2>12. \A h \in DOMAIN conns' : h <= recv'.flow.generation
    BY <2>4, <2>9, FileParts DEF ConnInv
  <2> QED
    BY <1>2, <2>1, <2>4, <2>9, <2>10, <2>11, <2>12, FileParts, ProducerMoves
<1> QED
  BY <1>4, <1>5

-----------------------------------------------------------------------------
(* The invariant and what follows from it.                                 *)
LEMMA FileInit == FileDropInit => FileInv
<1> SUFFICES ASSUME FileDropInit PROVE FileInv
  OBVIOUS
<1>1. NoFlow \in Flows /\ NoFlow.generation = 0 /\ NoFlow.next_offset = 0
  <2>1. [bytes |-> 0, records |-> 0] \in Credits
    BY DEF Credits
  <2> QED
    BY <2>1, NewFlowTyped DEF NoFlow
<1>2. NoFlow.sent_body_bytes = 0 /\ NoFlow.sent_records = 0 /\ NoFlow.credit \in Credits
  <2>1. [bytes |-> 0, records |-> 0] \in Credits
    BY DEF Credits
  <2> QED
    BY <2>1, NewFlowTyped DEF NoFlow
<1>3. recv = [phase |-> "None", grant |-> None, flow |-> NoFlow, stored |-> <<>>]
  BY DEF FileDropInit
<1>4. /\ recv.phase = "None" /\ recv.flow = NoFlow /\ recv.stored = <<>> /\ recv \in Receivers
  <2>1. <<>> \in Seq(Nat)
    OBVIOUS
  <2> QED
    BY <1>1, <1>3, <2>1 DEF Receivers
<1>5. DOMAIN conns = {} /\ conns = Empty
  BY DEF FileDropInit, Empty
<1>6. length \in Nat /\ commits = 0 /\ told = {}
  BY Constants DEF FileDropInit
<1>7. to_presenter = <<>> /\ to_producer = <<>>
  BY DEF FileDropInit
<1>8. Elements(to_presenter) = {} /\ Elements(to_producer) = {}
  BY <1>7 DEF Elements
<1>9. Typed
  <2>1. gate \in Gates /\ gate.latest = None /\ gate.last_result = None
    BY DEF FileDropInit, NewGate, Gates
  <2>2. drop \in Drops /\ drop.phase = "None"
    BY DEF FileDropInit, Drops, DropPhases
  <2>3. binding.epoch \in Nat /\ known = None /\ sender = NoFlow
    BY DEF FileDropInit, NoBinding
  <2>4. conns \in [DOMAIN conns -> Connections]
    BY <1>5 DEF Empty
  <2> QED
    BY <1>1, <1>4, <1>5, <1>6, <1>7, <2>1, <2>2, <2>3, <2>4 DEF Typed
<1>10. GrantsInv
  <2>1. gate.last_result = None
    BY DEF FileDropInit, NewGate
  <2>2. Issued = {}
    BY <1>6, <1>8, <2>1 DEF Issued
  <2> QED
    BY <2>2 DEF GrantsInv
<1>11. HandInv
  <2>1. Clear(to_producer) /\ Clear(to_presenter)
    BY <1>7 DEF Clear
  <2>2. Turn(to_producer, to_presenter)
    BY <2>1, ClearTurn
  <2>3. Fresh
    BY <1>4, <1>5, <1>6 DEF Fresh
  <2>4. drop.phase = "None"
    BY DEF FileDropInit
  <2> QED
    BY <1>4, <1>8, <2>1, <2>2, <2>3, <2>4 DEF HandInv
<1>12. ConnInv
  <2>1. drop.phase = "None" /\ sender = NoFlow
    BY DEF FileDropInit
  <2>2. NoFlow.credit.bytes \in Nat /\ NoFlow.credit.records \in Nat
    BY <1>2 DEF Credits
  <2> QED
    BY <1>1, <1>2, <1>4, <1>5, <1>6, <2>1, <2>2 DEF ConnInv
<1>13. CommitInv
  <2>1. drop.phase = "None"
    BY DEF FileDropInit
  <2> QED
    BY <1>5, <1>6, <2>1 DEF CommitInv
<1>14. ResumesExactly
  BY <1>1, <1>4, NothingStored DEF ResumesExactly
<1> QED
  BY <1>9, <1>10, <1>11, <1>12, <1>13, <1>14 DEF FileInv

LEMMA FileUnchanged == ASSUME FileInv, UNCHANGED fileDropVars PROVE FileInv'
<1>1. UNCHANGED <<gate, drop, sender, binding, known, recv, to_presenter, to_producer, conns,
                  length, told, commits>>
  BY DEF fileDropVars, presenterVars, producerVars, control, history
<1>2. HandInv' /\ ConnInv' /\ CommitInv' /\ ResumesExactly'
  <2>1. /\ Elements(to_presenter)' = Elements(to_presenter)
        /\ Elements(to_producer)' = Elements(to_producer)
        /\ Clear(to_presenter)' = Clear(to_presenter) /\ Clear(to_producer)' = Clear(to_producer)
        /\ Turn(to_producer, to_presenter)' = Turn(to_producer, to_presenter)
    BY <1>1 DEF Elements, Clear, Turn, Single
  <2> QED
    BY <1>1, <2>1, FileParts, Aside
<1>3. GrantsInv'
  <2>1. Elements(to_producer') = Elements(to_producer)
    BY <1>1
  <2> QED
    BY <1>1, <2>1, FileParts, GrantsKept
<1>4. Typed'
  BY <1>1, FileParts DEF Typed
<1> QED
  BY <1>2, <1>3, <1>4 DEF FileInv

LEMMA FileStep == FileInv /\ [FileDropNext]_fileDropVars => FileInv'
<1> SUFFICES ASSUME FileInv, [FileDropNext]_fileDropVars PROVE FileInv'
  OBVIOUS
<1>1. CASE ControlNext
  <2>1. CASE \E b \in Bindings : SetBinding(b)
    BY <2>1, SetBindingStep
  <2>2. CASE \E allow \in BOOLEAN : ReceiveBinding(allow)
    BY <2>2, ReceiveBindingStep
  <2>3. CASE ReceiveBound
    BY <2>3, ReceiveBoundStep
  <2>4. CASE Offer
    BY <2>4, OfferStep
  <2>5. CASE DeclineOffer
    BY <2>5, DeclineOfferStep
  <2>6. CASE \E c \in InitialCredits : AcceptOffer(c)
    BY <2>6, AcceptOfferStep
  <2>7. CASE \E c \in InitialCredits : Advance(c)
    BY <2>7, AdvanceStep
  <2>8. CASE ReceiveAccept
    BY <2>8, ReceiveAcceptStep
  <2>9. CASE ReceiveAccepted
    BY <2>9, ReceiveAcceptedStep
  <2>10. CASE PresenterCancels
    BY <2>10, PresenterCancelsStep
  <2>11. CASE ReceiveCancelled
    BY <2>11, ReceiveCancelledStep
  <2>12. CASE ReceiveCancel
    BY <2>12, ReceiveCancelStep
  <2>13. CASE ReceiveAdvance
    BY <2>13, ReceiveAdvanceStep
  <2>14. CASE ReceiveAdvanced
    BY <2>14, ReceiveAdvancedStep
  <2>15. CASE ReceiveStatus
    BY <2>15, ReceiveStatusStep
  <2> QED
    BY <1>1, <2>1, <2>2, <2>3, <2>4, <2>5, <2>6, <2>7, <2>8, <2>9, <2>10, <2>11, <2>12,
       <2>13, <2>14, <2>15 DEF ControlNext
<1>2. CASE TransferNext
  <2>1. CASE OpenTransfer
    BY <2>1, OpenTransferStep
  <2>2. CASE SendFinish
    BY <2>2, SendFinishStep
  <2>3. CASE Raise
    BY <2>3, RaiseStep
  <2>4. CASE \E n \in 1..length : SendData(n)
    BY <2>4, SendDataStep
  <2>5. CASE \E g \in DOMAIN conns : ReceiveOpen(g)
    BY <2>5, ReceiveOpenStep
  <2>6. CASE \E g \in DOMAIN conns : ReceiveData(g)
    BY <2>6, ReceiveDataStep
  <2>7. CASE \E g \in DOMAIN conns : ReceiveFinish(g)
    BY <2>7, ReceiveFinishStep
  <2>8. CASE \E g \in DOMAIN conns : ReceiveMax(g)
    BY <2>8, ReceiveMaxStep
  <2>9. CASE \E g \in DOMAIN conns : ReceiveResult(g)
    BY <2>9, ReceiveResultStep
  <2>10. CASE \E g \in DOMAIN conns : LoseConnection(g)
    BY <2>10, LoseConnectionStep
  <2> QED
    BY <1>2, <2>1, <2>2, <2>3, <2>4, <2>5, <2>6, <2>7, <2>8, <2>9, <2>10 DEF TransferNext
<1>3. CASE UNCHANGED fileDropVars
  BY <1>3, FileUnchanged
<1> QED
  BY <1>1, <1>2, <1>3 DEF FileDropNext

\* The two ends of a transfer and what is in flight between them fit together
\* in every state, however often connections are lost and the file resumed
\* (FileDropGate, FileTransferFlow).
THEOREM FileAlways == FileDropSpec => []FileInv
BY FileInit, FileStep, PTL DEF FileDropSpec

\* The producer holds a prefix of the file, up to the offset it resumes at,
\* and its flow never refuses what a correct presenter sends
\* (FileTransferFlow::admit, advance).
THEOREM ResumedExactly == FileDropSpec => []ResumesExactly
<1>1. FileInv => ResumesExactly
  BY DEF FileInv
<1> QED
  BY <1>1, FileAlways, PTL

\* The file gets its name once, and whole; the presenter takes for committed
\* only what did.
THEOREM CommittedOnlyOnce == FileDropSpec => []CommittedOnce
<1>1. FileInv => CommittedOnce
  <2> SUFFICES ASSUME FileInv PROVE CommittedOnce
    OBVIOUS
  <2>1. commits \in {0, 1} /\ (drop.phase = "Committed" => commits = 1)
    BY DEF FileInv, CommitInv
  <2>2. commits = 1 => recv.flow.next_offset = length /\ recv.phase # "Cancelled"
    BY DEF FileInv, CommitInv
  <2>3. commits = 1 => recv.stored = [i \in 1..length |-> i]
    BY <2>2 DEF FileInv, ResumesExactly
  <2> QED
    BY <2>1, <2>3 DEF CommittedOnce
<1> QED
  BY <1>1, FileAlways, PTL

\* A grant generation that is not zero names one grant for good, and a drop
\* is accepted under the grant it was offered under (FileDropGate::apply).
THEOREM GenerationNamesGrant == FileDropSpec => []GrantNamedOnce
<1>1. FileInv => GrantNamedOnce
  <2> SUFFICES ASSUME FileInv PROVE GrantNamedOnce
    OBVIOUS
  <2>1. \A a, b \in told : a.generation = b.generation /\ a.generation # 0 => a = b
    BY DEF FileInv, GrantsInv, Issued
  <2>2. drop.phase \in {"Accepted", "Transferring", "Committed"} =>
          drop.grant = recv.grant /\ drop.grant.state = "Enabled"
    <3>1. drop.phase # "None" => drop.grant \in EnabledGrants
      BY DEF FileInv, Typed, Drops
    <3> QED
      BY <3>1 DEF FileInv, HandInv, EnabledGrants
  <2> QED
    BY <2>1, <2>2 DEF GrantNamedOnce
<1> QED
  BY <1>1, FileAlways, PTL

-----------------------------------------------------------------------------
(* FileDrop implements FileDelivery.  An offer is the first the producer   *)
(* hears of a drop: no cancellation overtakes it, so a producer that gave  *)
(* up does not begin again.                                                *)
Offers(q) == \E i \in DOMAIN q : q[i].type = "Offer"
Quiet(q) == \A i \in DOMAIN q : q[i].type \notin {"Offer", "Cancelled"}
OfferFirst(q) ==
  \A i, j \in DOMAIN q : q[i].type = "Offer" /\ j < i => q[j].type # "Cancelled"
OfferInv ==
  /\ drop.phase = "None" => recv.phase = "None" /\ Quiet(to_producer)
  /\ Offers(to_producer) => recv.phase = "None"
  /\ OfferFirst(to_producer)

LEMMA OfferTail ==
  ASSUME NEW S, NEW q \in Seq(S), q # <<>>
  PROVE  /\ Offers(Tail(q)) => Offers(q)
         /\ Quiet(q) => Quiet(Tail(q))
         /\ OfferFirst(q) => OfferFirst(Tail(q))
<1>1. DOMAIN Tail(q) = 1..(Len(q) - 1) /\ DOMAIN q = 1..Len(q) /\ Len(q) \in Nat
  OBVIOUS
<1>2. \A i \in DOMAIN Tail(q) : i + 1 \in DOMAIN q /\ Tail(q)[i] = q[i + 1]
  BY <1>1
<1>3. \A i, j \in DOMAIN Tail(q) : j < i => j + 1 < i + 1
  BY <1>1
<1>4. Offers(Tail(q)) => Offers(q)
  BY <1>2 DEF Offers
<1>5. Quiet(q) => Quiet(Tail(q))
  BY <1>2 DEF Quiet
<1>6. OfferFirst(q) => OfferFirst(Tail(q))
  BY <1>2, <1>3 DEF OfferFirst
<1> QED
  BY <1>4, <1>5, <1>6

LEMMA OfferAppended ==
  ASSUME NEW S, NEW q \in Seq(S), NEW ms \in Seq(S), ~Offers(ms)
  PROVE  /\ Offers(q \o ms) => Offers(q)
         /\ Quiet(q) /\ Quiet(ms) => Quiet(q \o ms)
         /\ OfferFirst(q) => OfferFirst(q \o ms)
<1>1. /\ DOMAIN (q \o ms) = 1..(Len(q) + Len(ms))
      /\ DOMAIN q = 1..Len(q) /\ DOMAIN ms = 1..Len(ms)
      /\ Len(q) \in Nat /\ Len(ms) \in Nat
  OBVIOUS
<1>2. \A i \in DOMAIN (q \o ms) :
        \/ i \in DOMAIN q /\ (q \o ms)[i] = q[i]
        \/ i - Len(q) \in DOMAIN ms /\ i > Len(q) /\ (q \o ms)[i] = ms[i - Len(q)]
  BY <1>1
<1>3. \A i \in DOMAIN (q \o ms) :
        (q \o ms)[i].type = "Offer" => i \in DOMAIN q /\ (q \o ms)[i] = q[i]
  BY <1>2 DEF Offers
<1>4. Offers(q \o ms) => Offers(q)
  BY <1>3 DEF Offers
<1>5. Quiet(q) /\ Quiet(ms) => Quiet(q \o ms)
  BY <1>2 DEF Quiet
<1>6. \A i \in DOMAIN q : \A j \in DOMAIN (q \o ms) : j < i =>
        j \in DOMAIN q /\ (q \o ms)[j] = q[j]
  BY <1>1
<1>7. OfferFirst(q) => OfferFirst(q \o ms)
  BY <1>3, <1>6 DEF OfferFirst
<1> QED
  BY <1>4, <1>5, <1>7

DeliveryStep == [Delivery!DeliveryNext]_(Delivery!deliveryVars)

\* A step of the presenter, which leaves the producer and its file alone.
LEMMA PresenterSide ==
  ASSUME FileInv, FileInv', OfferInv, UNCHANGED <<recv, commits, length>>,
         NEW ms \in Seq(ToProducer), to_producer' = to_producer \o ms, ~Offers(ms),
         drop'.phase = "None" => drop.phase = "None" /\ Quiet(ms),
         drop.phase \in {"Committed", "Cancelled"} => drop'.phase = drop.phase
  PROVE  OfferInv' /\ DeliveryStep
<1>1. to_producer \in Seq(ToProducer)
  BY DEF FileInv, Typed
<1>2. OfferInv'
  BY <1>1, OfferAppended DEF OfferInv
<1>3. Received' = Received /\ Receiver' = Receiver
  BY DEF Received, Receiver, Abandoned
<1>4. drop'.phase = "Committed" => Receiver = "Committed"
  BY DEF FileInv, CommitInv, Receiver
<1>5. Outcome' = Outcome \/ (Outcome = "Open" /\ Outcome' = "Cancelled")
        \/ (Outcome = "Open" /\ Outcome' = "Committed" /\ Receiver = "Committed")
  BY <1>4 DEF Outcome
<1>6. DeliveryStep
  BY <1>3, <1>5 DEF DeliveryStep, Delivery!DeliveryNext, Delivery!deliveryVars,
     Delivery!Confirm, Delivery!GiveUp
<1> QED
  BY <1>2, <1>6

LEMMA PresenterSilent ==
  ASSUME FileInv, FileInv', OfferInv, UNCHANGED <<recv, commits, length, to_producer>>,
         drop'.phase = "None" => drop.phase = "None",
         drop.phase \in {"Committed", "Cancelled"} => drop'.phase = drop.phase
  PROVE  OfferInv' /\ DeliveryStep
<1>1. to_producer' = to_producer \o <<>>
  BY DEF FileInv, Typed
<1>2. <<>> \in Seq(ToProducer) /\ ~Offers(<<>>) /\ Quiet(<<>>)
  BY DEF Offers, Quiet
<1> QED
  BY <1>1, <1>2, PresenterSide

\* What the producer holds while it has not given up.
LEMMA Holds ==
  ASSUME FileInv
  PROVE  /\ ~Abandoned => Received = Delivery!File(recv.flow.next_offset)
         /\ Abandoned => Received = <<>>
         /\ recv.flow.next_offset \in Nat
         /\ commits > 0 => Received = Delivery!File(length)
         /\ commits \in {0, 1}
<1>1. commits \in {0, 1} /\ (commits = 1 => recv.flow.next_offset = length /\ recv.phase # "Cancelled")
  BY DEF FileInv, CommitInv
<1>2. recv.flow.next_offset \in Nat
  BY DEF FileInv, Typed, Receivers, Flows
<1>3. ~Abandoned => recv.phase # "Cancelled"
  BY <1>1 DEF Abandoned
<1>4. ~Abandoned => Received = Delivery!File(recv.flow.next_offset)
  BY <1>3 DEF Received, FileInv, ResumesExactly, Delivery!File
<1>5. commits > 0 => ~Abandoned /\ recv.flow.next_offset = length
  BY <1>1 DEF Abandoned
<1> QED
  BY <1>1, <1>2, <1>4, <1>5 DEF Received

\* A step of the producer.
LEMMA ProducerSide ==
  ASSUME FileInv, FileInv', OfferInv, UNCHANGED <<drop, length>>,
         \/ to_producer' = to_producer
         \/ to_producer # <<>> /\ to_producer' = Tail(to_producer),
         \/ recv'.phase = recv.phase \/ recv.phase # "None"
         \/ drop.phase # "None" /\ ~Offers(to_producer'),
         recv.phase = "Cancelled" => recv'.phase = "Cancelled",
         \/ commits' = commits
         \/ commits = 0 /\ recv.flow.next_offset = length
              /\ recv'.flow.next_offset = recv.flow.next_offset,
         \/ recv'.stored = recv.stored \/ recv'.phase = "Cancelled"
         \/ /\ recv'.flow.next_offset > recv.flow.next_offset
            /\ recv'.flow.next_offset <= length
  PROVE  OfferInv' /\ DeliveryStep
<1>1. to_producer \in Seq(ToProducer) /\ length \in Nat
  BY DEF FileInv, Typed
<1>2. OfferInv'
  <2>1. /\ Offers(to_producer') => Offers(to_producer)
        /\ Quiet(to_producer) => Quiet(to_producer')
        /\ OfferFirst(to_producer) => OfferFirst(to_producer')
    <3>1. CASE to_producer' = to_producer
      BY <3>1
    <3>2. CASE to_producer # <<>> /\ to_producer' = Tail(to_producer)
      BY <1>1, <3>2, OfferTail
    <3> QED
      BY <3>1, <3>2
  <2>2. recv.phase # "None" => drop.phase # "None" /\ ~Offers(to_producer)
    BY DEF OfferInv
  <2> QED
    BY <2>1, <2>2 DEF OfferInv
<1>3. /\ ~Abandoned => Received = Delivery!File(recv.flow.next_offset)
      /\ Abandoned => Received = <<>>
      /\ recv.flow.next_offset \in Nat
      /\ commits > 0 => Received = Delivery!File(length)
      /\ commits \in {0, 1}
  BY Holds
<1>4. /\ ~Abandoned' => Received' = Delivery!File(recv'.flow.next_offset)
      /\ Abandoned' => Received' = <<>>
      /\ recv'.flow.next_offset \in Nat
      /\ commits' > 0 => Received' = Delivery!File(length)
      /\ commits' \in {0, 1}
  <2>1. /\ commits' \in {0, 1}
        /\ commits' = 1 => recv'.flow.next_offset = length' /\ recv'.phase # "Cancelled"
    BY DEF FileInv, CommitInv
  <2>2. recv'.flow.next_offset \in Nat
    BY DEF FileInv, Typed, Receivers, Flows
  <2>3. ~Abandoned' => recv'.phase # "Cancelled"
    BY <2>1 DEF Abandoned
  <2>4. ~Abandoned' => Received' = Delivery!File(recv'.flow.next_offset)
    BY <2>3 DEF Received, FileInv, ResumesExactly, Delivery!File
  <2>5. commits' > 0 => ~Abandoned' /\ recv'.flow.next_offset = length
    BY <2>1 DEF Abandoned
  <2> QED
    BY <2>1, <2>2, <2>4, <2>5 DEF Received
<1>5. Outcome' = Outcome
  BY DEF Outcome
<1>6. CASE commits > 0
  <2>1. commits' = commits
    BY <1>3, <1>4, <1>6
  <2>2. Receiver' = Receiver /\ Received' = Received
    BY <1>3, <1>4, <1>6, <2>1 DEF Receiver
  <2> QED
    BY <1>2, <1>5, <2>2 DEF DeliveryStep, Delivery!deliveryVars
<1>7. CASE commits = 0 /\ recv.phase = "Cancelled"
  <2>1. commits' = 0
    BY <1>4, <1>7 DEF FileInv, CommitInv
  <2>2. Abandoned /\ Abandoned'
    BY <1>7, <2>1 DEF Abandoned
  <2>3. Receiver' = Receiver /\ Received' = Received
    BY <1>3, <1>4, <1>7, <2>1, <2>2 DEF Receiver
  <2> QED
    BY <1>2, <1>5, <2>3 DEF DeliveryStep, Delivery!deliveryVars
<1>8. CASE commits = 0 /\ recv.phase # "Cancelled"
  <2>0. ~Abandoned /\ Receiver = "Open"
    BY <1>8 DEF Abandoned, Receiver
  <2>1. CASE commits' = 1
    <3>1. Receiver' = "Committed"
      BY <2>1 DEF Receiver
    <3>2. recv.flow.next_offset = length
      BY <1>8, <2>1
    <3>3. Received = Delivery!File(length) /\ Received' = Received
      BY <1>3, <1>4, <2>0, <2>1, <3>2
    <3>4. Delivery!Commit
      BY <1>5, <2>0, <3>1, <3>3 DEF Delivery!Commit
    <3> QED
      BY <1>2, <3>4 DEF DeliveryStep, Delivery!DeliveryNext
  <2>2. CASE commits' = 0 /\ recv'.phase = "Cancelled"
    <3>1. Receiver' = "Abandoned" /\ Received' = <<>>
      BY <1>4, <2>2 DEF Receiver, Abandoned
    <3>2. Delivery!Abandon
      BY <1>5, <2>0, <3>1 DEF Delivery!Abandon
    <3> QED
      BY <1>2, <3>2 DEF DeliveryStep, Delivery!DeliveryNext
  <2>3. CASE commits' = 0 /\ recv'.phase # "Cancelled"
    <3>1. ~Abandoned' /\ Receiver' = "Open"
      BY <2>3 DEF Abandoned, Receiver
    <3>2. CASE recv'.stored = recv.stored
      <4>1. Received' = Received
        BY <2>0, <3>1, <3>2 DEF Received
      <4> QED
        BY <1>2, <1>5, <2>0, <3>1, <4>1 DEF DeliveryStep, Delivery!deliveryVars
    <3>3. CASE recv'.stored # recv.stored
      <4> DEFINE n == recv'.flow.next_offset
      <4>1. n > recv.flow.next_offset /\ n \in 1..length
        BY <1>1, <1>3, <1>4, <2>3, <3>3
      <4>2. Received = Delivery!File(recv.flow.next_offset)
        BY <1>3, <2>0
      <4>3. Len(Received) = recv.flow.next_offset
        BY <1>3, <4>2 DEF Delivery!File
      <4>4. Received' = Delivery!File(n)
        BY <1>4, <3>1
      <4> HIDE DEF n
      <4>5. Delivery!Receive(n)
        BY <1>5, <2>0, <3>1, <4>1, <4>2, <4>3, <4>4 DEF Delivery!Receive
      <4> QED
        BY <1>2, <4>1, <4>5 DEF DeliveryStep, Delivery!DeliveryNext
    <3> QED
      BY <3>2, <3>3
  <2> QED
    BY <1>4, <2>1, <2>2, <2>3
<1> QED
  BY <1>3, <1>6, <1>7, <1>8

LEMMA PhaseSet ==
  ASSUME NEW r \in Receivers, NEW p
  PROVE  LET s == [r EXCEPT !.phase = p] IN
         s.phase = p /\ s.flow = r.flow /\ s.stored = r.stored
BY DEF Receivers

LEMMA DropSet ==
  ASSUME NEW d \in Drops, NEW p
  PROVE  [d EXCEPT !.phase = p].phase = p
BY DEF Drops

LEMMA HeadFirst ==
  ASSUME FileInv, to_producer # <<>>
  PROVE  /\ 1 \in DOMAIN to_producer /\ Head(to_producer) = to_producer[1]
         /\ to_producer \in Seq(ToProducer)
         /\ Head(to_producer).type = "Offer" => Offers(to_producer)
         /\ Head(to_producer).type \in {"Offer", "Cancelled"} => ~Quiet(to_producer)
<1>1. to_producer \in Seq(ToProducer)
  BY DEF FileInv, Typed
<1>2. 1 \in DOMAIN to_producer /\ Head(to_producer) = to_producer[1]
  BY <1>1
<1> QED
  BY <1>1, <1>2 DEF Offers, Quiet

LEMMA SetBindingDelivers ==
  ASSUME FileInv, FileInv', OfferInv, NEW b \in Bindings, SetBinding(b)
  PROVE  OfferInv' /\ DeliveryStep
BY PresenterSilent DEF SetBinding, presenterVars, history

LEMMA ReceiveBindingDelivers ==
  ASSUME FileInv, FileInv', OfferInv, NEW allow \in BOOLEAN, ReceiveBinding(allow)
  PROVE  OfferInv' /\ DeliveryStep
<1> DEFINE m == [type |-> "Bound", grant |-> gate'.last_result]
           n == [type |-> "Cancelled"]
           ends == gate'.latest # gate.latest /\ DropLives
           ms == <<m>> \o (IF ends THEN <<n>> ELSE <<>>)
<1>1. /\ drop' = IF ends THEN [drop EXCEPT !.phase = "Cancelled"] ELSE drop
      /\ to_producer' = to_producer \o ms
      /\ UNCHANGED <<recv, commits, length>>
  BY DEF ReceiveBinding, TellProducer, producerVars, history
<1>2. gate'.last_result \in Grants
  <2>1. /\ to_presenter # <<>> /\ Head(to_presenter).type = "Bind"
        /\ gate' \in Apply(gate, Head(to_presenter).binding, allow)
    BY DEF ReceiveBinding, FromProducer
  <2>2. Head(to_presenter).binding \in Bindings
    BY <2>1, FileParts, TailElements, ToPresenterFields
  <2> QED
    BY <2>1, <2>2, FileParts, ApplyGate
<1>3. m \in ToProducer /\ n \in ToProducer /\ m.type = "Bound" /\ n.type = "Cancelled"
  BY <1>2, ToProducerTyped
<1>4. ms = IF ends THEN Append(<<m>>, n) ELSE <<m>>
  <2> HIDE DEF m, n, ends
  <2>1. <<m>> \in Seq(ToProducer)
    BY <1>3
  <2>2. <<m>> \o <<n>> = Append(<<m>>, n) /\ <<m>> \o <<>> = <<m>>
    BY <1>3, <2>1, ConcatMessages
  <2> QED
    BY <2>2
<1>5. drop'.phase = IF ends THEN "Cancelled" ELSE drop.phase
  BY <1>1, FileParts, DropSet
<1>6. ends => drop.phase \in LivePhases
  BY DEF DropLives
<1> HIDE DEF m, n, ends
<1> HIDE DEF ms
<1>7. ms \in Seq(ToProducer) /\ \A i \in DOMAIN ms : ms[i] \in {m, n}
  <2>1. /\ <<m>> \in Seq(ToProducer)
        /\ \A i \in DOMAIN <<m>> : <<m>>[i] = m
    BY <1>3
  <2>2. /\ Append(<<m>>, n) \in Seq(ToProducer)
        /\ \A i \in DOMAIN Append(<<m>>, n) : Append(<<m>>, n)[i] \in {m, n}
    BY <1>3, <2>1
  <2> QED
    BY <1>4, <2>1, <2>2
<1>8. ~Offers(ms) /\ (~ends => Quiet(ms))
  <2>1. ~ends => \A i \in DOMAIN ms : ms[i] = m
    BY <1>4
  <2> QED
    BY <1>3, <1>7, <2>1 DEF Offers, Quiet
<1> QED
  BY <1>1, <1>5, <1>6, <1>7, <1>8, PresenterSide DEF LivePhases

LEMMA OfferDelivers ==
  ASSUME FileInv, FileInv', OfferInv, Offer
  PROVE  OfferInv' /\ DeliveryStep
<1> DEFINE m == [type |-> "Offer", grant |-> gate.current]
<1>1. /\ drop.phase = "None" /\ gate.current # None
      /\ drop' = [phase |-> "Offered", grant |-> gate.current, finished |-> 0]
      /\ to_producer' = to_producer \o <<m>>
      /\ UNCHANGED <<recv, commits, length>>
  BY DEF Offer, TellProducer, producerVars, history
<1>2. m \in ToProducer /\ m.type = "Offer"
  BY <1>1, FileParts, ToProducerTyped DEF Gates, EnabledGrants
<1>3. recv.phase = "None" /\ Quiet(to_producer)
  BY <1>1 DEF OfferInv
<1> HIDE DEF m
<1>4. \A i \in DOMAIN to_producer' : i = Len(to_producer) + 1 \/
        (i \in DOMAIN to_producer /\ to_producer'[i] = to_producer[i])
  BY <1>1, <1>2, FileParts
<1>5. \A i, j \in DOMAIN to_producer' : j < i => j \in DOMAIN to_producer
  BY <1>1, <1>2, FileParts
<1>6. \A j \in DOMAIN to_producer :
        to_producer'[j] = to_producer[j] /\ to_producer[j].type # "Cancelled"
  BY <1>1, <1>2, <1>3, FileParts DEF Quiet
<1>7. OfferFirst(to_producer')
  BY <1>5, <1>6 DEF OfferFirst
<1>8. OfferInv'
  BY <1>1, <1>3, <1>7 DEF OfferInv
<1>9. Received' = Received /\ Receiver' = Receiver /\ Outcome' = Outcome
  BY <1>1 DEF Received, Receiver, Outcome, Abandoned
<1> QED
  BY <1>1, <1>8, <1>9 DEF DeliveryStep, Delivery!deliveryVars

LEMMA PresenterCancelsDelivers ==
  ASSUME FileInv, FileInv', OfferInv, PresenterCancels
  PROVE  OfferInv' /\ DeliveryStep
<1> DEFINE ms == <<[type |-> "Cancelled"]>>
<1>1. /\ drop.phase \in LivePhases /\ drop' = [drop EXCEPT !.phase = "Cancelled"]
      /\ to_producer' = to_producer \o ms /\ UNCHANGED <<recv, commits, length>>
  BY DEF PresenterCancels, DropLives, TellProducer, producerVars, history
<1>2. ms \in Seq(ToProducer) /\ ~Offers(ms)
  BY ToProducerTyped DEF Offers
<1>3. drop'.phase = "Cancelled"
  BY <1>1, FileParts, DropSet
<1> HIDE DEF ms
<1> QED
  BY <1>1, <1>2, <1>3, PresenterSide DEF LivePhases

LEMMA ReceiveCancelDelivers ==
  ASSUME FileInv, FileInv', OfferInv, ReceiveCancel
  PROVE  OfferInv' /\ DeliveryStep
<1>1. /\ drop' = IF DropLives THEN [drop EXCEPT !.phase = "Cancelled"] ELSE drop
      /\ UNCHANGED <<recv, commits, length, to_producer>>
  BY DEF ReceiveCancel, producerVars, history
<1>2. drop'.phase = IF DropLives THEN "Cancelled" ELSE drop.phase
  BY <1>1, FileParts, DropSet
<1> QED
  BY <1>1, <1>2, PresenterSilent DEF DropLives, LivePhases

LEMMA ReceiveAcceptDelivers ==
  ASSUME FileInv, FileInv', OfferInv, ReceiveAccept
  PROVE  OfferInv' /\ DeliveryStep
<1>1. PICK current \in BOOLEAN :
        /\ current => drop.phase = "Offered"
        /\ drop' = IF current THEN [drop EXCEPT !.phase = "Accepted"] ELSE drop
        /\ to_producer' = to_producer \o (IF current THEN <<[type |-> "Accepted"]>> ELSE <<>>)
        /\ UNCHANGED <<recv, commits, length>>
  BY DEF ReceiveAccept, TellProducer, producerVars, history
<1>2. PICK ms : ms = IF current THEN <<[type |-> "Accepted"]>> ELSE <<>>
  OBVIOUS
<1>3. ms \in Seq(ToProducer) /\ ~Offers(ms) /\ Quiet(ms)
  BY <1>2, ToProducerTyped DEF Offers, Quiet
<1>4. drop'.phase = IF current THEN "Accepted" ELSE drop.phase
  BY <1>1, FileParts, DropSet
<1>5. to_producer' = to_producer \o ms
  BY <1>1, <1>2
<1>6. drop'.phase = "None" => drop.phase = "None"
  BY <1>4
<1>7. drop.phase \in {"Committed", "Cancelled"} => drop'.phase = drop.phase
  BY <1>1, <1>4
<1>8. UNCHANGED <<recv, commits, length>>
  BY <1>1
<1> QED
  BY <1>3, <1>5, <1>6, <1>7, <1>8, PresenterSide

LEMMA ReceiveAdvanceDelivers ==
  ASSUME FileInv, FileInv', OfferInv, ReceiveAdvance
  PROVE  OfferInv' /\ DeliveryStep
<1> DEFINE m == Head(to_presenter)
           told_of == IF drop.phase \in {"Accepted", "Transferring"}
                          /\ Advances(sender, m.generation, m.offset, m.credit)
                        THEN [m EXCEPT !.type = "Advanced"]
                        ELSE [type |-> "Status", phase |-> drop.phase]
<1>1. /\ to_presenter # <<>> /\ m.type = "Advance"
      /\ to_producer' = to_producer \o <<told_of>> /\ UNCHANGED <<recv, commits, length>>
      /\ \/ drop' = drop
         \/ /\ drop.phase \in {"Accepted", "Transferring"}
            /\ drop' = [drop EXCEPT !.phase = "Accepted"]
  BY DEF ReceiveAdvance, FromProducer, TellProducer, producerVars, history
<1>2. m \in ToPresenter
  BY <1>1, FileParts, TailElements
<1>3. /\ m.generation \in Nat /\ m.offset \in Nat /\ m.credit \in Credits
      /\ m = [type |-> "Advance", generation |-> m.generation, offset |-> m.offset,
              credit |-> m.credit]
  BY <1>1, <1>2, ToPresenterFields
<1> HIDE DEF m
<1>4. [m EXCEPT !.type = "Advanced"] =
        [type |-> "Advanced", generation |-> m.generation, offset |-> m.offset,
         credit |-> m.credit]
  BY <1>3
<1>5. told_of \in ToProducer /\ told_of.type \in {"Advanced", "Status"}
  BY <1>3, <1>4, FileParts, ToProducerTyped DEF Drops
<1>6. drop'.phase = drop.phase \/ (drop.phase # "None" /\ drop'.phase = "Accepted"
        /\ drop.phase \in {"Accepted", "Transferring"})
  BY <1>1, FileParts, DropSet
<1> HIDE DEF told_of
<1>7. <<told_of>> \in Seq(ToProducer) /\ ~Offers(<<told_of>>) /\ Quiet(<<told_of>>)
  BY <1>5 DEF Offers, Quiet
<1> QED
  BY <1>1, <1>6, <1>7, PresenterSide

LEMMA ReceiveOpenDelivers ==
  ASSUME FileInv, FileInv', OfferInv, NEW g \in DOMAIN conns, ReceiveOpen(g)
  PROVE  OfferInv' /\ DeliveryStep
<1>1. /\ \/ drop' = drop
         \/ drop.phase = "Accepted" /\ drop' = [drop EXCEPT !.phase = "Transferring"]
      /\ UNCHANGED <<recv, commits, length, to_producer>>
  BY DEF ReceiveOpen, producerVars, control, history
<1>2. drop'.phase = drop.phase \/ (drop.phase = "Accepted" /\ drop'.phase = "Transferring")
  BY <1>1, FileParts, DropSet
<1> QED
  BY <1>1, <1>2, PresenterSilent

LEMMA ReceiveResultDelivers ==
  ASSUME FileInv, FileInv', OfferInv, NEW g \in DOMAIN conns, ReceiveResult(g)
  PROVE  OfferInv' /\ DeliveryStep
<1>1. /\ \/ drop' = drop
         \/ drop.phase = "Transferring" /\ drop' = [drop EXCEPT !.phase = "Committed"]
      /\ UNCHANGED <<recv, commits, length, to_producer>>
  BY DEF ReceiveResult, producerVars, control, history
<1>2. drop'.phase = drop.phase \/ (drop.phase = "Transferring" /\ drop'.phase = "Committed")
  BY <1>1, FileParts, DropSet
<1> QED
  BY <1>1, <1>2, PresenterSilent

LEMMA ReceiveMaxDelivers ==
  ASSUME FileInv, FileInv', OfferInv, NEW g \in DOMAIN conns, ReceiveMax(g)
  PROVE  OfferInv' /\ DeliveryStep
<1>1. UNCHANGED <<drop, recv, commits, length, to_producer>>
  BY DEF ReceiveMax, producerVars, control, history
<1> QED
  BY <1>1, PresenterSilent

LEMMA LoseConnectionDelivers ==
  ASSUME FileInv, FileInv', OfferInv, NEW g \in DOMAIN conns, LoseConnection(g)
  PROVE  OfferInv' /\ DeliveryStep
<1>1. UNCHANGED <<drop, recv, commits, length, to_producer>>
  BY DEF LoseConnection, presenterVars, producerVars, control, history
<1> QED
  BY <1>1, PresenterSilent

LEMMA SendDataDelivers ==
  ASSUME FileInv, FileInv', OfferInv, NEW n \in 1..length, SendData(n)
  PROVE  OfferInv' /\ DeliveryStep
<1>1. UNCHANGED <<drop, recv, commits, length, to_producer>>
  BY DEF SendData, producerVars, control, history
<1> QED
  BY <1>1, PresenterSilent

LEMMA SendFinishDelivers ==
  ASSUME FileInv, FileInv', OfferInv, SendFinish
  PROVE  OfferInv' /\ DeliveryStep
<1>1. /\ drop' = [drop EXCEPT !.finished = sender.generation]
      /\ UNCHANGED <<recv, commits, length, to_producer>>
  BY DEF SendFinish, producerVars, control, history
<1>2. drop'.phase = drop.phase
  BY <1>1, FileParts DEF Drops
<1> QED
  BY <1>1, <1>2, PresenterSilent

LEMMA ReceiveBoundDelivers ==
  ASSUME FileInv, FileInv', OfferInv, ReceiveBound
  PROVE  OfferInv' /\ DeliveryStep
<1>1. /\ to_producer # <<>> /\ to_producer' = Tail(to_producer)
      /\ UNCHANGED <<drop, recv, commits, length>>
  BY DEF ReceiveBound, FromPresenter, presenterVars
<1> QED
  BY <1>1, ProducerSide

\* The one offer is gone from control, and the producer had not begun.
LEMMA OfferTaken ==
  ASSUME FileInv, OfferInv, FromPresenter("Offer"), to_producer' = Tail(to_producer)
  PROVE  recv.phase = "None" /\ drop.phase # "None" /\ ~Offers(to_producer')
<1>1. to_producer # <<>> /\ Head(to_producer).type = "Offer"
  BY DEF FromPresenter
<1>2. recv.phase = "None" /\ drop.phase # "None"
  BY <1>1, HeadFirst DEF OfferInv
<1>3. Clear(to_producer')
  BY <1>1, FileParts, ShedTurn DEF HandshakeTypes
<1> QED
  BY <1>2, <1>3 DEF Clear, HandshakeTypes, Offers

LEMMA AcceptOfferDelivers ==
  ASSUME FileInv, FileInv', OfferInv, NEW credit \in InitialCredits, AcceptOffer(credit)
  PROVE  OfferInv' /\ DeliveryStep
<1>1. /\ FromPresenter("Offer") /\ to_producer # <<>> /\ to_producer' = Tail(to_producer)
      /\ recv' = [recv EXCEPT !.phase = "Accepting", !.grant = known,
                              !.flow = NewFlow(1, 0, credit)]
      /\ UNCHANGED <<drop, commits, length>>
  BY DEF AcceptOffer, FromPresenter, presenterVars, history
<1>2. recv'.stored = recv.stored
  BY <1>1, FileParts DEF Receivers
<1> QED
  BY <1>1, <1>2, OfferTaken, ProducerSide

LEMMA DeclineOfferDelivers ==
  ASSUME FileInv, FileInv', OfferInv, DeclineOffer
  PROVE  OfferInv' /\ DeliveryStep
<1>1. /\ FromPresenter("Offer") /\ to_producer # <<>> /\ to_producer' = Tail(to_producer)
      /\ recv' = [recv EXCEPT !.phase = "Cancelled"]
      /\ UNCHANGED <<drop, commits, length>>
  BY DEF DeclineOffer, FromPresenter, presenterVars, history
<1>2. recv'.phase = "Cancelled" /\ recv'.stored = recv.stored
  BY <1>1, FileParts, PhaseSet
<1> QED
  BY <1>1, <1>2, OfferTaken, ProducerSide

LEMMA ReceiveAcceptedDelivers ==
  ASSUME FileInv, FileInv', OfferInv, ReceiveAccepted
  PROVE  OfferInv' /\ DeliveryStep
<1>1. /\ to_producer # <<>> /\ to_producer' = Tail(to_producer)
      /\ recv' = IF recv.phase = "Accepting" THEN [recv EXCEPT !.phase = "Accepted"] ELSE recv
      /\ UNCHANGED <<drop, commits, length>>
  BY DEF ReceiveAccepted, FromPresenter, presenterVars, history
<1>2. /\ recv'.phase = recv.phase \/ recv.phase = "Accepting"
      /\ recv'.stored = recv.stored
  BY <1>1, FileParts, PhaseSet
<1> QED
  BY <1>1, <1>2, ProducerSide

LEMMA ReceiveCancelledDelivers ==
  ASSUME FileInv, FileInv', OfferInv, ReceiveCancelled
  PROVE  OfferInv' /\ DeliveryStep
<1>1. /\ to_producer # <<>> /\ Head(to_producer).type = "Cancelled"
      /\ to_producer' = Tail(to_producer)
      /\ recv' = IF commits = 0 THEN [recv EXCEPT !.phase = "Cancelled", !.stored = <<>>]
                 ELSE recv
      /\ UNCHANGED <<drop, commits, length>>
  BY DEF ReceiveCancelled, FromPresenter, presenterVars, history
<1>2. drop.phase # "None"
  BY <1>1, HeadFirst DEF OfferInv
\* What follows a cancellation is no offer.
<1>3. ~Offers(to_producer')
  <2>1. \A i \in DOMAIN to_producer' :
          i + 1 \in DOMAIN to_producer /\ 1 < i + 1 /\ to_producer'[i] = to_producer[i + 1]
    BY <1>1, FileParts
  <2>2. \A i \in DOMAIN to_producer : 1 < i => to_producer[i].type # "Offer"
    BY <1>1, HeadFirst DEF OfferInv, OfferFirst
  <2> QED
    BY <2>1, <2>2 DEF Offers
<1>4. recv' = recv \/ recv'.phase = "Cancelled"
  BY <1>1, FileParts DEF Receivers
<1> QED
  BY <1>1, <1>2, <1>3, <1>4, ProducerSide

LEMMA AdvanceDelivers ==
  ASSUME FileInv, FileInv', OfferInv, NEW credit \in InitialCredits, Advance(credit)
  PROVE  OfferInv' /\ DeliveryStep
<1>1. /\ recv.phase \in {"Receiving", "Committed"}
      /\ recv' = [recv EXCEPT !.phase = "Advancing"]
      /\ UNCHANGED <<drop, commits, length, to_producer>>
  BY DEF Advance, presenterVars, history
<1>2. recv'.stored = recv.stored
  BY <1>1, FileParts, PhaseSet
<1> QED
  BY <1>1, <1>2, ProducerSide

LEMMA ReceiveAdvancedDelivers ==
  ASSUME FileInv, FileInv', OfferInv, ReceiveAdvanced
  PROVE  OfferInv' /\ DeliveryStep
<1> DEFINE m == Head(to_producer)
           f == Advanced(recv.flow, m.generation, m.offset, m.credit)
<1>1. /\ to_producer # <<>> /\ to_producer' = Tail(to_producer)
      /\ recv' = IF recv.phase = "Advancing"
                   THEN [recv EXCEPT !.phase = "Accepted", !.flow = f] ELSE recv
      /\ UNCHANGED <<drop, commits, length>>
  BY DEF ReceiveAdvanced, FromPresenter, presenterVars, history, Advanced
<1> HIDE DEF f
<1>2. /\ recv'.phase = recv.phase \/ recv.phase = "Advancing"
      /\ recv'.stored = recv.stored
  BY <1>1, FileParts DEF Receivers
<1> QED
  BY <1>1, <1>2, ProducerSide

LEMMA ReceiveStatusDelivers ==
  ASSUME FileInv, FileInv', OfferInv, ReceiveStatus
  PROVE  OfferInv' /\ DeliveryStep
<1>1. /\ to_producer # <<>> /\ to_producer' = Tail(to_producer)
      /\ recv' = IF recv.phase # "Advancing" THEN recv
                 ELSE [recv EXCEPT !.phase = IF commits > 0 THEN "Done" ELSE "Cancelled"]
      /\ UNCHANGED <<drop, commits, length>>
  BY DEF ReceiveStatus, FromPresenter, presenterVars, history
<1>2. /\ recv'.phase = recv.phase \/ recv.phase = "Advancing"
      /\ recv'.stored = recv.stored
  BY <1>1, FileParts, PhaseSet
<1> QED
  BY <1>1, <1>2, ProducerSide

LEMMA OpenTransferDelivers ==
  ASSUME FileInv, FileInv', OfferInv, OpenTransfer
  PROVE  OfferInv' /\ DeliveryStep
<1>1. /\ recv.phase = "Accepted" /\ recv' = [recv EXCEPT !.phase = "Receiving"]
      /\ UNCHANGED <<drop, commits, length, to_producer>>
  BY DEF OpenTransfer, presenterVars, control, history
<1>2. recv'.stored = recv.stored
  BY <1>1, FileParts, PhaseSet
<1> QED
  BY <1>1, <1>2, ProducerSide

LEMMA RaiseDelivers ==
  ASSUME FileInv, FileInv', OfferInv, Raise
  PROVE  OfferInv' /\ DeliveryStep
<1> DEFINE more == [bytes |-> recv.flow.credit.bytes + 1 + Prefix,
                    records |-> recv.flow.credit.records + 1]
           f == Raised(recv.flow, more)
<1>1. /\ recv.phase = "Receiving" /\ recv' = [recv EXCEPT !.flow = f]
      /\ UNCHANGED <<drop, commits, length, to_producer>>
  BY DEF Raise, Raised, presenterVars, control, history
<1> HIDE DEF f
<1>2. recv'.stored = recv.stored /\ recv'.phase = recv.phase
  BY <1>1, FileParts DEF Receivers
<1> QED
  BY <1>1, <1>2, ProducerSide

LEMMA ReceiveDataDelivers ==
  ASSUME FileInv, FileInv', OfferInv, NEW g \in DOMAIN conns, ReceiveData(g)
  PROVE  OfferInv' /\ DeliveryStep
<1>0. PICK m : m = Head(conns[g].down)
  OBVIOUS
<1>1. /\ conns[g].down # <<>> /\ m.type = "Data"
      /\ UNCHANGED <<drop, commits, length, to_producer>>
  BY <1>0 DEF ReceiveData, Arrives, presenterVars, control, history
<1>2. recv' = IF ~Receives(g) THEN recv
              ELSE IF Admits(recv.flow, m.offset, m.n) /\ m.offset + m.n <= length
                THEN [recv EXCEPT !.flow = Admitted(recv.flow, m.n),
                                  !.stored = recv.stored \o Bytes(m)]
                ELSE [recv EXCEPT !.phase = "Failed"]
  BY <1>0 DEF ReceiveData
<1>3. CASE recv' = recv
  BY <1>1, <1>3, ProducerSide
<1>4. CASE Receives(g) /\ recv' = [recv EXCEPT !.phase = "Failed"]
  <2>1. recv'.phase = "Failed"
    BY <1>4, FileParts, PhaseSet
  <2> QED
    BY <2>1 DEF FileInv, ResumesExactly
<1>5. CASE /\ Receives(g) /\ Admits(recv.flow, m.offset, m.n) /\ m.offset + m.n <= length
           /\ recv' = [recv EXCEPT !.flow = Admitted(recv.flow, m.n),
                                   !.stored = recv.stored \o Bytes(m)]
  <2>1. m.offset \in Nat /\ m.n \in Nat
    BY <1>0, <1>1, FileParts, ConnFields, DownsTyped, HeadTailProperties
  <2>2. m.offset = recv.flow.next_offset /\ m.n > 0 /\ recv.flow.next_offset \in Nat
    BY <1>5, <2>1, FileParts, ReceiverFields DEF Admits
  <2>3. PICK f : f = Admitted(recv.flow, m.n)
    OBVIOUS
  <2>4. f.next_offset = recv.flow.next_offset + m.n
    <3>1. recv.flow \in Flows
      BY FileParts, ReceiverFields
    <3> QED
      BY <2>1, <2>3, <3>1, AdmittedCounts
  <2>5. recv'.flow = f /\ recv'.phase = recv.phase
    <3>1. PICK s : s = recv.stored \o Bytes(m)
      OBVIOUS
    <3>2. recv' = [recv EXCEPT !.flow = f, !.stored = s]
      BY <1>5, <2>3, <3>1
    <3> QED
      BY <3>2, FileParts DEF Receivers
  <2>6. /\ recv'.flow.next_offset > recv.flow.next_offset
        /\ recv'.flow.next_offset <= length
    BY <1>5, <2>1, <2>2, <2>4, <2>5
  <2> QED
    BY <1>1, <2>5, <2>6, ProducerSide
<1> QED
  BY <1>2, <1>3, <1>4, <1>5

LEMMA ReceiveFinishDelivers ==
  ASSUME FileInv, FileInv', OfferInv, NEW g \in DOMAIN conns, ReceiveFinish(g)
  PROVE  OfferInv' /\ DeliveryStep
<1>1. PICK whole \in BOOLEAN : whole <=> recv.flow.next_offset = length
  OBVIOUS
<1>2. /\ recv' = IF ~Receives(g) THEN recv
                 ELSE [recv EXCEPT !.phase = IF whole THEN "Committed" ELSE "Failed"]
      /\ commits' = IF Receives(g) /\ whole /\ Commits THEN commits + 1 ELSE commits
      /\ UNCHANGED <<drop, length, to_producer>>
  BY <1>1 DEF ReceiveFinish, presenterVars, control
<1>3. /\ recv'.phase = recv.phase \/ recv.phase = "Receiving"
      /\ recv'.stored = recv.stored /\ recv'.flow = recv.flow
  BY <1>2, FileParts, PhaseSet DEF Receives
<1>4. commits' = commits \/ (commits = 0 /\ recv.flow.next_offset = length)
  BY <1>1, <1>2 DEF Commits
<1> QED
  BY <1>2, <1>3, <1>4, ProducerSide

LEMMA DeliveryStart == FileDropInit => OfferInv /\ Delivery!DeliveryInit
BY DEF FileDropInit, OfferInv, Offers, Quiet, OfferFirst, Delivery!DeliveryInit, Received,
   Receiver, Outcome, Abandoned

LEMMA DeliversStep ==
  ASSUME FileInv, FileInv', OfferInv, [FileDropNext]_fileDropVars
  PROVE  OfferInv' /\ DeliveryStep
<1>1. CASE ControlNext
  BY <1>1, SetBindingDelivers, ReceiveBindingDelivers, ReceiveBoundDelivers, OfferDelivers,
     DeclineOfferDelivers, AcceptOfferDelivers, AdvanceDelivers, ReceiveAcceptDelivers,
     ReceiveAcceptedDelivers, PresenterCancelsDelivers, ReceiveCancelledDelivers,
     ReceiveCancelDelivers, ReceiveAdvanceDelivers, ReceiveAdvancedDelivers,
     ReceiveStatusDelivers DEF ControlNext
<1>2. CASE TransferNext
  BY <1>2, OpenTransferDelivers, SendFinishDelivers, RaiseDelivers, SendDataDelivers,
     ReceiveOpenDelivers, ReceiveDataDelivers, ReceiveFinishDelivers, ReceiveMaxDelivers,
     ReceiveResultDelivers, LoseConnectionDelivers DEF TransferNext
<1>3. CASE UNCHANGED fileDropVars
  BY <1>3, PresenterSilent DEF fileDropVars, presenterVars, producerVars, control, history
<1> QED
  BY <1>1, <1>2, <1>3 DEF FileDropNext

\* FileDrop implements FileDelivery: however often connections are lost, the
\* transfer is resumed or the drop cancelled, the producer's file grows in
\* order, is committed whole and once or kept not at all, and the presenter
\* confirms only a delivery that happened (FileDropGate, FileTransferFlow).
THEOREM FileDropImplementsDelivery == FileDropSpec => ImplementsDelivery
<1>1. FileInv /\ FileInv' /\ OfferInv /\ [FileDropNext]_fileDropVars
        => OfferInv' /\ [Delivery!DeliveryNext]_(Delivery!deliveryVars)
  BY DeliversStep DEF DeliveryStep
<1> QED
  BY <1>1, DeliveryStart, FileAlways, PTL
     DEF FileDropSpec, ImplementsDelivery, Delivery!DeliverySpec
=============================================================================
