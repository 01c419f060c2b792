----------------------------- MODULE TrackProofs -----------------------------
(***************************************************************************)
(* Proofs about TrackStream: a sender that keeps to its allowance is never *)
(* refused for flow, the media of one generation arrives on one connection,*)
(* readiness is the current generation's, and only the accepted connection *)
(* is charged.  The invariant has five parts: which generations there are, *)
(* which connection a generation is attached to, what the flows count, how *)
(* what is in flight fits, and what was delivered.                         *)
(***************************************************************************)
EXTENDS TrackStream, SequenceTheorems, TLAPS

RaiseRecords == [bytes: 0..MaxFlow, records: 0..MaxFlow]
MediaRecords == [body: 1..MaxRecordBody, epoch: Nat, id: Nat, key: BOOLEAN]
Outcomes ==
  [generation: Nat, nonce: Nonces \union {None}, acceptance: {InitialBytes},
   transport_live: BOOLEAN, media_admitted: BOOLEAN]
Senders ==
  [generation: Nat, conn: Conns \union {None}, flow: Flow, epoch: Nat, media_id: Nat]

ChannelTypes ==
  /\ accepted \in SUBSET Outcomes /\ \A o \in accepted : accepted = {o}
  /\ revision \in 1..MaxRevision /\ channel_generation \in Nat
  /\ milestones \in SUBSET Milestones
  /\ media_epoch \in Nat /\ last_media_id \in Nat
  /\ flow \in Flow /\ lost \in BOOLEAN

StreamTypes ==
  /\ ChannelTypes
  /\ conn \in [Conns -> Connection]
  /\ bound \in Conns \union {None}
  /\ up \in [Conns -> Seq(MediaRecords)]
  /\ down \in [Conns -> Seq(RaiseRecords)]
  /\ advance \in {"None", "Asked", "Answered"}
  /\ sender \in Senders
  /\ delivered \in SUBSET (Nat \X Conns)

GenerationInv ==
  /\ sender.generation \in 1..MaxGeneration
  /\ channel_generation \in {sender.generation, sender.generation + 1}
  /\ channel_generation <= MaxGeneration
  /\ advance = "Answered" => channel_generation = sender.generation + 1 /\ bound = None
  /\ advance = "Asked" => sender.generation < MaxGeneration
  /\ \A c \in Conns : conn[c].generation <= sender.generation
  /\ \A x \in delivered : x[1] <= channel_generation
  /\ \A o \in accepted : 1 <= o.generation /\ o.generation <= channel_generation

AttachInv ==
  /\ \A c \in Conns : conn[c].phase \in {"Unused", "Opening"} =>
       up[c] = <<>> /\ down[c] = <<>> /\ c # bound /\ c # sender.conn
  /\ \A c \in Conns :
       conn[c].phase \in {"Accepting", "Bound"} \/ up[c] # <<>> =>
         c = bound \/ conn[c].generation < channel_generation
  /\ \A c \in Conns : conn[c].phase = "Accepting" => up[c] = <<>> /\ c # sender.conn
  /\ bound # None => \E o \in accepted :
       /\ o.generation = conn[bound].generation /\ o.transport_live
       /\ o.generation = channel_generation \/ sender.generation < channel_generation
  /\ sender.conn # None => conn[sender.conn].phase \in {"Bound", "Failed", "Closed"}

FlowInv ==
  \A f \in {flow, sender.flow} :
    f.sent_bytes <= f.max_bytes /\ f.sent_records <= f.max_records

RaisesWithin(raises) ==
  \A i \in 1..Len(raises) :
    raises[i].bytes <= flow.max_bytes /\ raises[i].records <= flow.max_records

Attached == bound # None /\ conn[bound].generation = channel_generation

Credit ==
  /\ Fits(flow, up[bound], flow.max_bytes, flow.max_records)
  /\ RaisesWithin(down[bound])
  /\ conn[bound].phase = "Accepting" =>
       /\ flow.sent_bytes = 0 /\ flow.sent_records = 0
       /\ InitialBytes <= flow.max_bytes /\ InitialRecords <= flow.max_records
  /\ sender.conn = bound =>
       /\ Fits(flow, up[bound], sender.flow.sent_bytes, sender.flow.sent_records)
       /\ sender.flow.max_bytes <= flow.max_bytes
       /\ sender.flow.max_records <= flow.max_records

CreditInv == Attached => Credit

MediaInv ==
  /\ FirstMediaIsCurrent
  /\ \A x \in delivered : x[1] = channel_generation =>
       /\ \E o \in accepted : o.generation = channel_generation /\ o.media_admitted
       /\ bound # None => x[2] = bound
  /\ OneMediaConnectionPerGeneration

LengthsInv ==
  \A c \in Conns : Len(up[c]) <= QueueCapacity /\ Len(down[c]) <= QueueCapacity

StreamInv ==
  StreamTypes /\ GenerationInv /\ AttachInv /\ FlowInv /\ CreditInv /\ MediaInv /\ LengthsInv

-----------------------------------------------------------------------------
LEMMA ConstantFacts ==
  /\ MaxRevision \in Nat \ {0} /\ MaxFlow \in Nat \ {0}
  /\ MaxRecordBody \in 1..MaxFlow /\ None \notin Conns
  /\ InitialBytes \in MaxRecordBody..MaxFlow /\ InitialRecords \in 1..MaxFlow
  /\ MaxGeneration \in Nat \ {0} /\ MaxMediaId \in Nat /\ MaxEpoch \in Nat
  /\ QueueCapacity \in Nat \ {0}
BY TrackAssumption, StreamAssumption

LEMMA NewFlowTyped ==
  ASSUME NEW b \in 0..MaxFlow, NEW n \in 0..MaxFlow
  PROVE  /\ NewFlow(b, n) \in Flow
         /\ NewFlow(b, n).sent_bytes = 0 /\ NewFlow(b, n).sent_records = 0
         /\ NewFlow(b, n).max_bytes = b /\ NewFlow(b, n).max_records = n
BY ConstantFacts DEF NewFlow, Flow

LEMMA FlowFields ==
  ASSUME NEW f \in Flow
  PROVE  f = [sent_bytes |-> f.sent_bytes, sent_records |-> f.sent_records,
              max_bytes |-> f.max_bytes, max_records |-> f.max_records]
BY DEF Flow

LEMMA ChargedTyped ==
  ASSUME NEW f \in Flow, NEW body \in Nat, FlowAdmits(f, body)
  PROVE  /\ Charged(f, body) \in Flow
         /\ Charged(f, body).sent_bytes = f.sent_bytes + body
         /\ Charged(f, body).sent_records = f.sent_records + 1
         /\ Charged(f, body).max_bytes = f.max_bytes
         /\ Charged(f, body).max_records = f.max_records
         /\ f.sent_bytes + body <= f.max_bytes /\ f.sent_records + 1 <= f.max_records
<1>1. Charged(f, body) =
        [sent_bytes |-> f.sent_bytes + body, sent_records |-> f.sent_records + 1,
         max_bytes |-> f.max_bytes, max_records |-> f.max_records]
  <2> DEFINE g == [f EXCEPT !.sent_bytes = f.sent_bytes + body]
  <2>1. g = [sent_bytes |-> f.sent_bytes + body, sent_records |-> f.sent_records,
             max_bytes |-> f.max_bytes, max_records |-> f.max_records]
    BY DEF Flow
  <2>2. Charged(f, body) = [g EXCEPT !.sent_records = f.sent_records + 1]
    BY DEF Charged, Flow
  <2> HIDE DEF g
  <2> QED
    BY <2>1, <2>2
<1>2. /\ f.sent_bytes \in 0..MaxFlow /\ f.sent_records \in 0..MaxFlow
      /\ f.max_bytes \in 0..MaxFlow /\ f.max_records \in 0..MaxFlow
  BY DEF Flow
<1>3. /\ f.sent_bytes + body <= f.max_bytes /\ f.sent_records + 1 <= f.max_records
      /\ f.sent_bytes + body \in 0..MaxFlow /\ f.sent_records + 1 \in 0..MaxFlow
  BY <1>2, ConstantFacts DEF FlowAdmits
<1> QED
  BY <1>1, <1>2, <1>3 DEF Flow

LEMMA RaisedTyped ==
  ASSUME NEW f \in Flow, NEW b \in 0..MaxFlow, NEW n \in 0..MaxFlow
  PROVE  /\ Raised(f, b, n) \in Flow
         /\ Raised(f, b, n).sent_bytes = f.sent_bytes
         /\ Raised(f, b, n).sent_records = f.sent_records
         /\ Raised(f, b, n).max_bytes >= f.max_bytes
         /\ Raised(f, b, n).max_records >= f.max_records
         /\ Raised(f, b, n).max_bytes >= b /\ Raised(f, b, n).max_records >= n
         /\ Raised(f, b, n).max_bytes \in {f.max_bytes, b}
         /\ Raised(f, b, n).max_records \in {f.max_records, n}
<1> DEFINE mb == IF b > f.max_bytes THEN b ELSE f.max_bytes
           mn == IF n > f.max_records THEN n ELSE f.max_records
<1>1. Raised(f, b, n) =
        [sent_bytes |-> f.sent_bytes, sent_records |-> f.sent_records,
         max_bytes |-> mb, max_records |-> mn]
  <2> DEFINE g == [f EXCEPT !.max_bytes = mb]
  <2>1. g = [sent_bytes |-> f.sent_bytes, sent_records |-> f.sent_records,
             max_bytes |-> mb, max_records |-> f.max_records]
    BY DEF Flow
  <2>2. Raised(f, b, n) = [g EXCEPT !.max_records = mn]
    BY DEF Raised, Flow
  <2> HIDE DEF g, mb, mn
  <2> QED
    BY <2>1, <2>2
<1>2. /\ f.sent_bytes \in 0..MaxFlow /\ f.sent_records \in 0..MaxFlow
      /\ f.max_bytes \in 0..MaxFlow /\ f.max_records \in 0..MaxFlow
  BY DEF Flow
<1>3. /\ mb \in 0..MaxFlow /\ mn \in 0..MaxFlow
      /\ mb >= f.max_bytes /\ mn >= f.max_records /\ mb >= b /\ mn >= n
      /\ mb \in {f.max_bytes, b} /\ mn \in {f.max_records, n}
  BY <1>2, ConstantFacts
<1> HIDE DEF mb, mn
<1> QED
  BY <1>1, <1>2, <1>3 DEF Flow

-----------------------------------------------------------------------------
(* Fits, by what happens to the records.                                   *)
Totals(f, records, bytes) ==
  {t \in [0..Len(records) -> 0..bytes] :
     t[0] = f.sent_bytes /\ \A i \in 1..Len(records) : t[i] = t[i - 1] + records[i].body}

LEMMA FitsTotals ==
  ASSUME NEW f, NEW s, NEW bytes, NEW count
  PROVE  Fits(f, s, bytes, count)
           <=> Totals(f, s, bytes) # {} /\ f.sent_records + Len(s) <= count
BY DEF Fits, Totals

LEMMA FitsNothing ==
  ASSUME NEW f \in Flow, NEW bytes \in Nat, NEW count \in Nat,
         f.sent_bytes <= bytes, f.sent_records <= count
  PROVE  Fits(f, <<>>, bytes, count)
<1> DEFINE t == [i \in 0..0 |-> f.sent_bytes]
<1>1. t \in Totals(f, <<>>, bytes)
  BY ConstantFacts DEF Totals, Flow
<1>2. f.sent_records + Len(<<>>) <= count
  BY ConstantFacts DEF Flow
<1> QED
  BY <1>1, <1>2, FitsTotals

LEMMA AtMostTransitive ==
  ASSUME NEW a \in Nat, NEW b \in Nat, NEW c \in Nat, a <= b, b <= c
  PROVE  a <= c
OBVIOUS

LEMMA FitsWithin ==
  ASSUME NEW f \in Flow, NEW s \in Seq(MediaRecords),
         NEW bytes \in Nat, NEW count \in Nat, Fits(f, s, bytes, count),
         NEW b \in Nat, NEW n \in Nat, bytes <= b, count <= n
  PROVE  Fits(f, s, b, n)
<1>1. PICK t \in Totals(f, s, bytes) : TRUE
  BY FitsTotals
<1>2. Len(s) \in Nat /\ f.sent_records \in Nat
  BY LenProperties, ConstantFacts DEF Flow
<1>3. f.sent_records + Len(s) <= n
  BY <1>2 DEF Fits
<1>4. t \in Totals(f, s, b)
  BY <1>1 DEF Totals
<1> QED
  BY <1>3, <1>4, FitsTotals

LEMMA FitsAppend ==
  ASSUME NEW f \in Flow, NEW s \in Seq(MediaRecords), NEW r \in MediaRecords,
         NEW bytes \in Nat, NEW count \in Nat, Fits(f, s, bytes, count)
  PROVE  Fits(f, Append(s, r), bytes + r.body, count + 1)
<1> DEFINE n == Len(s)
           q == Append(s, r)
<1>1. PICK t \in Totals(f, s, bytes) : TRUE
  BY FitsTotals
<1>2. /\ n \in Nat /\ Len(q) = n + 1 /\ q[n + 1] = r
      /\ \A i \in 1..n : q[i] = s[i]
  BY AppendProperties, LenProperties
<1>3. /\ t \in [0..n -> 0..bytes] /\ t[0] = f.sent_bytes
      /\ \A i \in 1..n : t[i] = t[i - 1] + s[i].body
  BY DEF Totals
<1>4. r.body \in Nat /\ f.sent_records \in Nat
  BY ConstantFacts DEF MediaRecords, Flow
<1>5. f.sent_records + (n + 1) <= count + 1
  BY <1>2, <1>4 DEF Fits
<1> HIDE DEF n, q
<1> DEFINE u == [i \in 0..n + 1 |-> IF i = n + 1 THEN t[n] + r.body ELSE t[i]]
<1>6. u \in [0..n + 1 -> 0..bytes + r.body]
  <2>1. SUFFICES ASSUME NEW i \in 0..n + 1
                 PROVE  (IF i = n + 1 THEN t[n] + r.body ELSE t[i]) \in 0..bytes + r.body
    OBVIOUS
  <2>2. CASE i = n + 1
    BY <2>2, <1>2, <1>3, <1>4
  <2>3. CASE i # n + 1
    BY <2>3, <1>2, <1>3, <1>4
  <2> QED
    BY <2>2, <2>3
<1>7. u[0] = f.sent_bytes
  BY <1>2, <1>3
<1>8. ASSUME NEW i \in 1..n + 1 PROVE u[i] = u[i - 1] + q[i].body
  <2>1. CASE i = n + 1
    BY <2>1, <1>2
  <2>2. CASE i # n + 1
    <3>1. i \in 1..n
      BY <2>2, <1>2
    <3> QED
      <4>1. i \in 0..n + 1 /\ i - 1 \in 0..n + 1 /\ i # n + 1 /\ i - 1 # n + 1
        BY <3>1, <1>2
      <4>2. u[i] = t[i] /\ u[i - 1] = t[i - 1]
        BY <4>1
      <4>3. q[i] = s[i] /\ t[i] = t[i - 1] + s[i].body
        BY <3>1, <1>2, <1>3
      <4> QED
        BY <4>2, <4>3
  <2> QED
    BY <2>1, <2>2
<1> HIDE DEF u
<1>9. u \in Totals(f, q, bytes + r.body)
  BY <1>2, <1>6, <1>7, <1>8 DEF Totals
<1> QED
  BY <1>2, <1>5, <1>9, FitsTotals DEF q

\* The first record is admitted, and the rest fits after it was charged.
LEMMA FitsHead ==
  ASSUME NEW f \in Flow, NEW s \in Seq(MediaRecords), s # <<>>,
         NEW bytes \in Nat, NEW count \in Nat, Fits(f, s, bytes, count)
  PROVE  /\ f.sent_bytes + Head(s).body <= bytes
         /\ f.sent_records + 1 <= count
         /\ Head(s).body \in Nat
<1>1. PICK t \in Totals(f, s, bytes) : TRUE
  BY FitsTotals
<1>2. Len(s) \in Nat \ {0} /\ Head(s) = s[1] /\ Head(s) \in MediaRecords
  BY HeadTailProperties, EmptySeq, LenProperties
<1>3. t[1] = t[0] + s[1].body /\ t[1] \in 0..bytes /\ t[0] = f.sent_bytes
  <2>1. /\ t \in [0..Len(s) -> 0..bytes] /\ t[0] = f.sent_bytes
        /\ \A i \in 1..Len(s) : t[i] = t[i - 1] + s[i].body
    BY DEF Totals
  <2>2. 1 \in 1..Len(s) /\ 1 \in 0..Len(s) /\ 1 - 1 = 0
    BY <1>2
  <2>3. t[1] = t[1 - 1] + s[1].body
    BY <2>1, <2>2
  <2> QED
    BY <2>1, <2>2, <2>3
<1>4. f.sent_records \in Nat
  BY ConstantFacts DEF Flow
<1>5. f.sent_records + Len(s) <= count
  BY DEF Fits
<1>6. Head(s).body \in Nat
  BY <1>2, ConstantFacts DEF MediaRecords
<1> QED
  BY <1>2, <1>3, <1>4, <1>5, <1>6

LEMMA FitsTail ==
  ASSUME NEW f \in Flow, NEW s \in Seq(MediaRecords), s # <<>>,
         NEW bytes \in Nat, NEW count \in Nat, Fits(f, s, bytes, count),
         NEW g \in Flow, g.sent_bytes = f.sent_bytes + Head(s).body,
         g.sent_records = f.sent_records + 1
  PROVE  Fits(g, Tail(s), bytes, count)
<1> DEFINE n == Len(s) - 1
           q == Tail(s)
<1>1. PICK t \in Totals(f, s, bytes) : TRUE
  BY FitsTotals
<1>2. /\ n \in Nat /\ Len(s) = n + 1 /\ Len(q) = n /\ Head(s) = s[1]
      /\ \A i \in 1..n : q[i] = s[i + 1]
  BY HeadTailProperties, EmptySeq, LenProperties
<1>3. /\ t \in [0..n + 1 -> 0..bytes] /\ t[0] = f.sent_bytes
      /\ \A i \in 1..n + 1 : t[i] = t[i - 1] + s[i].body
  BY <1>2 DEF Totals
<1>4. f.sent_records \in Nat
  BY ConstantFacts DEF Flow
<1>5. f.sent_records + (n + 1) <= count
  BY <1>2 DEF Fits
<1> HIDE DEF n, q
<1> DEFINE u == [i \in 0..n |-> t[i + 1]]
<1>6. u \in [0..n -> 0..bytes]
  BY <1>2, <1>3
<1>7. u[0] = g.sent_bytes
  <2>1. t[1] = t[0] + s[1].body
    BY <1>2, <1>3
  <2> QED
    BY <2>1, <1>2, <1>3
<1>8. ASSUME NEW i \in 1..n PROVE u[i] = u[i - 1] + q[i].body
  <2>1. i + 1 \in 1..n + 1 /\ i \in 0..n /\ i - 1 \in 0..n /\ (i + 1) - 1 = i /\ (i - 1) + 1 = i
    BY <1>2
  <2>2. t[i + 1] = t[i] + s[i + 1].body
    BY <2>1, <1>3
  <2> QED
    BY <2>1, <2>2, <1>2
<1> HIDE DEF u
<1>9. u \in Totals(g, q, bytes)
  BY <1>2, <1>6, <1>7, <1>8 DEF Totals
<1>10. g.sent_records + n <= count
  BY <1>2, <1>4, <1>5
<1> QED
  BY <1>2, <1>9, <1>10, FitsTotals DEF q

-----------------------------------------------------------------------------
(* Records that change in a field.                                         *)
LEMMA OutcomeSet ==
  ASSUME NEW o \in Outcomes, NEW b \in BOOLEAN
  PROVE  /\ [o EXCEPT !.transport_live = b] \in Outcomes
         /\ [o EXCEPT !.media_admitted = b] \in Outcomes
         /\ [o EXCEPT !.transport_live = b].generation = o.generation
         /\ [o EXCEPT !.transport_live = b].transport_live = b
         /\ [o EXCEPT !.transport_live = b].media_admitted = o.media_admitted
         /\ [o EXCEPT !.media_admitted = b].generation = o.generation
         /\ [o EXCEPT !.media_admitted = b].transport_live = o.transport_live
         /\ [o EXCEPT !.media_admitted = b].media_admitted = b
BY DEF Outcomes

LEMMA BecomesTyped ==
  ASSUME StreamTypes, NEW c \in Conns, NEW phase \in Phases, Becomes(c, phase)
  PROVE  /\ conn' \in [Conns -> Connection]
         /\ conn'[c].phase = phase
         /\ \A d \in Conns : /\ conn'[d].generation = conn[d].generation
                             /\ conn'[d].nonce = conn[d].nonce
                             /\ d # c => conn'[d] = conn[d]
<1>1. conn[c] \in Connection /\ conn \in [Conns -> Connection]
  BY DEF StreamTypes
<1>2. conn' = [conn EXCEPT ![c] = [conn[c] EXCEPT !.phase = phase]]
  BY DEF Becomes
<1>3. /\ [conn[c] EXCEPT !.phase = phase] \in Connection
      /\ [conn[c] EXCEPT !.phase = phase].phase = phase
      /\ [conn[c] EXCEPT !.phase = phase].generation = conn[c].generation
      /\ [conn[c] EXCEPT !.phase = phase].nonce = conn[c].nonce
  BY <1>1 DEF Connection
<1> QED
  BY <1>1, <1>2, <1>3

LEMMA SenderSet ==
  ASSUME NEW s \in Senders, NEW c \in Conns \union {None}, NEW f \in Flow,
         NEW g \in Nat
  PROVE  /\ [s EXCEPT !.conn = c] =
              [generation |-> s.generation, conn |-> c, flow |-> s.flow,
               epoch |-> s.epoch, media_id |-> s.media_id]
         /\ [s EXCEPT !.flow = f] =
              [generation |-> s.generation, conn |-> s.conn, flow |-> f,
               epoch |-> s.epoch, media_id |-> s.media_id]
         /\ [s EXCEPT !.generation = g, !.conn = c] =
              [generation |-> g, conn |-> c, flow |-> s.flow,
               epoch |-> s.epoch, media_id |-> s.media_id]
         /\ [s EXCEPT !.conn = c, !.flow = f] =
              [generation |-> s.generation, conn |-> c, flow |-> f,
               epoch |-> s.epoch, media_id |-> s.media_id]
<1>1. s = [generation |-> s.generation, conn |-> s.conn, flow |-> s.flow,
           epoch |-> s.epoch, media_id |-> s.media_id]
  BY DEF Senders
<1> DEFINE r == [s EXCEPT !.generation = g]
           q == [s EXCEPT !.conn = c]
<1>2. q = [generation |-> s.generation, conn |-> c, flow |-> s.flow,
           epoch |-> s.epoch, media_id |-> s.media_id]
  BY <1>1
<1>3. [s EXCEPT !.flow = f] =
        [generation |-> s.generation, conn |-> s.conn, flow |-> f,
         epoch |-> s.epoch, media_id |-> s.media_id]
  BY <1>1
<1>4. r = [generation |-> g, conn |-> s.conn, flow |-> s.flow,
           epoch |-> s.epoch, media_id |-> s.media_id]
  BY <1>1
<1>5. [s EXCEPT !.generation = g, !.conn = c] = [r EXCEPT !.conn = c]
  BY <1>1
<1>6. [s EXCEPT !.conn = c, !.flow = f] = [q EXCEPT !.flow = f]
  BY <1>1
<1>7. q = [s EXCEPT !.conn = c]
  OBVIOUS
<1> HIDE DEF r, q
<1>8. [q EXCEPT !.flow = f] =
        [generation |-> s.generation, conn |-> c, flow |-> f,
         epoch |-> s.epoch, media_id |-> s.media_id]
  BY <1>2
<1>9. [r EXCEPT !.conn = c] =
        [generation |-> g, conn |-> c, flow |-> s.flow,
         epoch |-> s.epoch, media_id |-> s.media_id]
  BY <1>4
<1> QED
  BY <1>2, <1>3, <1>5, <1>6, <1>7, <1>8, <1>9

LEMMA SenderCharges ==
  ASSUME NEW s \in Senders, NEW f \in Flow, NEW e \in Nat, NEW n \in Nat
  PROVE  [s EXCEPT !.flow = f, !.epoch = e, !.media_id = n] =
              [generation |-> s.generation, conn |-> s.conn, flow |-> f,
               epoch |-> e, media_id |-> n]
<1>1. s = [generation |-> s.generation, conn |-> s.conn, flow |-> s.flow,
           epoch |-> s.epoch, media_id |-> s.media_id]
  BY DEF Senders
<1> DEFINE r == [s EXCEPT !.flow = f]
           q == [r EXCEPT !.epoch = e]
<1>2. r = [generation |-> s.generation, conn |-> s.conn, flow |-> f,
           epoch |-> s.epoch, media_id |-> s.media_id]
  BY <1>1
<1>3. q = [generation |-> s.generation, conn |-> s.conn, flow |-> f,
           epoch |-> e, media_id |-> s.media_id]
  <2> HIDE DEF r
  <2> QED
    BY <1>2
<1>4. [s EXCEPT !.flow = f, !.epoch = e, !.media_id = n] = [q EXCEPT !.media_id = n]
  BY <1>1
<1> HIDE DEF r, q
<1> QED
  BY <1>3, <1>4

-----------------------------------------------------------------------------
(* What a step leaves alone keeps what is said of it.                      *)
LEMMA MediaKept ==
  ASSUME MediaInv, UNCHANGED <<milestones, delivered, channel_generation, accepted, bound>>
  PROVE  MediaInv'
BY DEF MediaInv, FirstMediaIsCurrent, OneMediaConnectionPerGeneration

\* The fit of what is in flight, when only other connections change.
LEMMA CreditKept ==
  ASSUME StreamTypes, CreditInv,
         UNCHANGED <<bound, flow, channel_generation>>,
         bound # None => /\ conn'[bound].generation = conn[bound].generation
                         /\ up'[bound] = up[bound] /\ down'[bound] = down[bound]
                         /\ conn'[bound].phase = "Accepting" => conn[bound].phase = "Accepting"
                         /\ sender'.conn = bound =>
                              sender.conn = bound /\ sender'.flow = sender.flow
  PROVE  CreditInv'
<1>1. SUFFICES ASSUME Attached' PROVE Credit'
  BY DEF CreditInv
<1>2. /\ Attached /\ bound' = bound /\ flow' = flow
      /\ up'[bound] = up[bound] /\ down'[bound] = down[bound]
      /\ conn'[bound].phase = "Accepting" => conn[bound].phase = "Accepting"
      /\ sender'.conn = bound => sender.conn = bound /\ sender'.flow = sender.flow
  BY <1>1 DEF Attached
<1> QED
  BY <1>2 DEF CreditInv, Credit, RaisesWithin

LEMMA SendOpenStep ==
  ASSUME StreamInv, NEW c \in Conns, NEW nonce \in Nonces, SendOpen(c, nonce)
  PROVE  StreamInv'
<1> USE DEF StreamInv
<1> DEFINE r == [phase |-> "Opening", generation |-> sender.generation, nonce |-> nonce]
<1>1. /\ conn[c].phase = "Unused" /\ conn' = [conn EXCEPT ![c] = r]
      /\ UNCHANGED <<accepted, revision, channel_generation, milestones, media_epoch,
                     last_media_id, flow, lost>>
      /\ UNCHANGED <<bound, up, down, advance, sender, delivered>>
  BY DEF SendOpen, channelVars, openVars, trackVars, trackState
<1>2. r \in Connection /\ r.phase = "Opening" /\ r.generation = sender.generation
  BY DEF GenerationInv, Connection, Phases
<1> HIDE DEF r
<1>3. /\ conn' \in [Conns -> Connection] /\ conn'[c] = r
      /\ \A d \in Conns : d # c => conn'[d] = conn[d]
  BY <1>1, <1>2 DEF StreamTypes
<1>4. StreamTypes'
  BY <1>1, <1>3 DEF StreamTypes, ChannelTypes
<1>5. GenerationInv'
  BY <1>1, <1>2, <1>3 DEF GenerationInv, StreamTypes, Senders
<1>6. up[c] = <<>> /\ down[c] = <<>> /\ c # bound /\ c # sender.conn
  BY <1>1 DEF AttachInv
<1>7. AttachInv'
  BY <1>1, <1>2, <1>3, <1>6 DEF AttachInv, StreamTypes, Senders
<1>8. CreditInv'
  BY <1>1, <1>3, <1>6, CreditKept DEF StreamTypes
<1> QED
  BY <1>1, <1>4, <1>5, <1>7, <1>8, MediaKept DEF FlowInv, LengthsInv

-----------------------------------------------------------------------------
(* PresenterOpens.                                                         *)
LEMMA OpenEffect ==
  ASSUME ChannelTypes, NEW g \in Nat, NEW nonce \in Nonces \union {None}, Open(g, nonce, InitialBytes)
  PROVE  \/ decision' \notin {"Fresh", "ExactReplay"} /\ accepted' = accepted
         \/ /\ decision' \in {"Fresh", "ExactReplay"} /\ g = channel_generation
            /\ \A o \in accepted : o.generation = g => ~o.transport_live /\ ~o.media_admitted
            /\ \E o \in Outcomes : /\ accepted' = {o} /\ o.generation = g
                                   /\ o.transport_live /\ ~o.media_admitted
<1> DEFINE stored == {o \in accepted : o.generation = g}
           new(yes, no) == [generation |-> g, nonce |-> nonce, acceptance |-> InitialBytes,
                            transport_live |-> yes, media_admitted |-> no]
<1>1. PICK yes \in BOOLEAN, no \in BOOLEAN : yes = TRUE /\ no = FALSE
  OBVIOUS
<1>b. yes \in BOOLEAN /\ no \in BOOLEAN
  BY <1>1
<1>2. \/ decision' \notin {"Fresh", "ExactReplay"} /\ accepted' = accepted
      \/ /\ g = channel_generation /\ decision' = "ExactReplay"
         /\ \E o \in stored : /\ ~o.transport_live /\ ~o.media_admitted
                              /\ accepted' = {[o EXCEPT !.transport_live = yes]}
      \/ /\ g = channel_generation /\ decision' = "Fresh" /\ stored = {}
         /\ accepted' = {new(yes, no)}
  BY <1>1 DEF Open, Decide
<1>3. CASE /\ g = channel_generation /\ decision' = "ExactReplay"
           /\ \E o \in stored : /\ ~o.transport_live /\ ~o.media_admitted
                                /\ accepted' = {[o EXCEPT !.transport_live = yes]}
  <2>1. PICK o \in stored : /\ ~o.transport_live /\ ~o.media_admitted
                            /\ accepted' = {[o EXCEPT !.transport_live = yes]}
    BY <1>3
  <2>2. o \in Outcomes /\ accepted = {o} /\ o.generation = g
    BY <2>1 DEF ChannelTypes
  <2> DEFINE q == [o EXCEPT !.transport_live = yes]
  <2>3. /\ q \in Outcomes /\ q.generation = o.generation /\ q.transport_live = yes
        /\ q.media_admitted = o.media_admitted
    BY <1>b, <2>2 DEF Outcomes
  <2> HIDE DEF q
  <2>4. accepted' = {q}
    BY <2>1 DEF q
  <2> QED
    BY <1>1, <1>3, <2>1, <2>2, <2>3, <2>4
<1>4. CASE /\ g = channel_generation /\ decision' = "Fresh" /\ stored = {}
           /\ accepted' = {new(yes, no)}
  <2>1. new(yes, no) \in Outcomes
    BY DEF Outcomes
  <2>2. /\ new(yes, no).generation = g /\ new(yes, no).transport_live = yes
        /\ new(yes, no).media_admitted = no
    OBVIOUS
  <2> HIDE DEF new
  <2> QED
    BY <1>1, <1>4, <2>1, <2>2
<1> QED
  BY <1>2, <1>3, <1>4

LEMMA RevisionEffect ==
  ASSUME revision \in 1..MaxRevision, AdvanceRevision
  PROVE  revision' \in 1..MaxRevision /\ track_result' \in {"Ok", "Exhausted"}
BY ConstantFacts DEF AdvanceRevision, TrackReturns

LEMMA AcceptEffect ==
  ASSUME ChannelTypes, NEW g \in Nat, AcceptChannel(g, InitialBytes, InitialRecords)
  PROVE  /\ UNCHANGED <<channel_generation, media_epoch, last_media_id, lost>>
         /\ revision' \in 1..MaxRevision
         /\ \/ track_result' = "Refused" /\ UNCHANGED <<flow, milestones>>
            \/ /\ milestones' = {"ACCEPTED"}
               /\ flow' = NewFlow(InitialBytes, InitialRecords)
BY RevisionEffect DEF AcceptChannel, TrackRefuses, TrackReturns, trackState, ChannelTypes

\* A connection that closes or fails, with nothing bound, sent or accepted by it.
LEMMA AttachEnded ==
  ASSUME StreamTypes, AttachInv, NEW c \in Conns, conn'[c].phase \in {"Closed", "Failed"},
         \A d \in Conns : conn'[d].generation = conn[d].generation,
         \A d \in Conns \ {c} : conn'[d] = conn[d],
         UNCHANGED <<up, down, bound, accepted, channel_generation, sender>>
  PROVE  AttachInv'
<1>1. \A d \in Conns :
        /\ conn'[d].generation = conn[d].generation
        /\ \/ d = c /\ conn'[d].phase \in {"Closed", "Failed"}
           \/ conn'[d].phase = conn[d].phase
  <2> SUFFICES ASSUME NEW d \in Conns
               PROVE  /\ conn'[d].generation = conn[d].generation
                      /\ \/ d = c /\ conn'[d].phase \in {"Closed", "Failed"}
                         \/ conn'[d].phase = conn[d].phase
    OBVIOUS
  <2>1. CASE d = c
    BY <2>1
  <2>2. CASE d # c
    BY <2>2
  <2> QED
    BY <2>1, <2>2
<1>2. bound # None => bound \in Conns /\ conn'[bound].generation = conn[bound].generation
  BY <1>1 DEF StreamTypes
<1>3. sender.conn # None => sender.conn \in Conns
  BY DEF StreamTypes, Senders
<1>4. \A d \in Conns : conn'[d].phase \in {"Unused", "Opening"} =>
        up'[d] = <<>> /\ down'[d] = <<>> /\ d # bound' /\ d # sender'.conn
  BY <1>1 DEF AttachInv
<1>5. \A d \in Conns : conn'[d].phase \in {"Accepting", "Bound"} \/ up'[d] # <<>> =>
        d = bound' \/ conn'[d].generation < channel_generation'
  <2> SUFFICES ASSUME NEW d \in Conns, conn'[d].phase \in {"Accepting", "Bound"} \/ up'[d] # <<>>
               PROVE  d = bound' \/ conn'[d].generation < channel_generation'
    OBVIOUS
  <2>1. conn[d].phase \in {"Accepting", "Bound"} \/ up[d] # <<>>
    BY <1>1
  <2>2. d = bound \/ conn[d].generation < channel_generation
    BY <2>1 DEF AttachInv
  <2> QED
    BY <1>1, <2>2
<1>6. \A d \in Conns : conn'[d].phase = "Accepting" => up'[d] = <<>> /\ d # sender'.conn
  BY <1>1 DEF AttachInv
<1>7. bound' # None => \E o \in accepted' :
        /\ o.generation = conn'[bound'].generation /\ o.transport_live
        /\ o.generation = channel_generation' \/ sender'.generation < channel_generation'
  BY <1>2 DEF AttachInv
<1>8. sender'.conn # None => conn'[sender'.conn].phase \in {"Bound", "Failed", "Closed"}
  BY <1>1, <1>3 DEF AttachInv
<1> QED
  BY <1>4, <1>5, <1>6, <1>7, <1>8 DEF AttachInv

LEMMA PresenterOpensStep ==
  ASSUME StreamInv, NEW c \in Conns, PresenterOpens(c)
  PROVE  StreamInv'
<1> USE DEF StreamInv
<1> DEFINE g == conn[c].generation
           n == conn[c].nonce
<1>1. /\ conn[c].phase = "Opening" /\ Open(g, n, InitialBytes)
      /\ UNCHANGED <<up, down, advance, sender, delivered>>
  BY DEF PresenterOpens
<1>2. g \in Nat /\ n \in Nonces \union {None} /\ ChannelTypes
  <2>1. conn[c] \in Connection
    BY DEF StreamTypes
  <2> QED
    BY <2>1, ConstantFacts DEF Connection, StreamTypes
<1> HIDE DEF g, n
<1>3. /\ up[c] = <<>> /\ down[c] = <<>> /\ c # bound /\ c # sender.conn /\ c # None
      /\ g <= sender.generation /\ conn[c].generation = g /\ conn[c].nonce = n
  BY <1>1, ConstantFacts DEF AttachInv, GenerationInv, g, n
<1>4. CASE decision' \notin {"Fresh", "ExactReplay"} /\ accepted' = accepted
  <2>1. Becomes(c, "Closed") /\ UNCHANGED <<trackVars, bound>>
    BY <1>4 DEF PresenterOpens
  <2>2. UNCHANGED <<revision, channel_generation, milestones, media_epoch,
                    last_media_id, flow, lost>>
    BY <2>1 DEF trackVars, trackState
  <2>3. /\ conn' \in [Conns -> Connection] /\ conn'[c].phase = "Closed"
        /\ \A d \in Conns : /\ conn'[d].generation = conn[d].generation
                            /\ d # c => conn'[d] = conn[d]
    BY <2>1, BecomesTyped DEF Phases
  <2>4. StreamTypes'
    BY <1>1, <1>4, <2>1, <2>2, <2>3 DEF StreamTypes, ChannelTypes
  <2>5. GenerationInv'
    BY <1>1, <1>4, <2>1, <2>2, <2>3 DEF GenerationInv
  <2>6. AttachInv'
    BY <1>1, <1>4, <2>1, <2>2, <2>3, AttachEnded
  <2>7. CreditInv'
    BY <1>1, <1>3, <2>1, <2>2, <2>3, CreditKept DEF StreamTypes
  <2> QED
    BY <1>1, <1>4, <2>1, <2>2, <2>4, <2>5, <2>6, <2>7, MediaKept DEF FlowInv, LengthsInv
<1>5. CASE /\ decision' \in {"Fresh", "ExactReplay"} /\ g = channel_generation
           /\ \A o \in accepted : o.generation = g => ~o.transport_live /\ ~o.media_admitted
           /\ \E o \in Outcomes : /\ accepted' = {o} /\ o.generation = g
                                  /\ o.transport_live /\ ~o.media_admitted
  <2>1. /\ AcceptChannel(g, InitialBytes, InitialRecords) /\ bound' = c
        /\ Becomes(c, IF track_result' = "Ok" THEN "Accepting" ELSE "Failed")
    BY <1>5 DEF PresenterOpens, g
  <2>2. /\ UNCHANGED <<channel_generation, media_epoch, last_media_id, lost>>
        /\ revision' \in 1..MaxRevision
        /\ \/ track_result' = "Refused" /\ UNCHANGED <<flow, milestones>>
           \/ /\ milestones' = {"ACCEPTED"}
              /\ flow' = NewFlow(InitialBytes, InitialRecords)
    BY <1>2, <2>1, AcceptEffect
  <2>3. PICK phase \in {"Accepting", "Failed"} :
          phase = IF track_result' = "Ok" THEN "Accepting" ELSE "Failed"
    OBVIOUS
  <2>4. /\ conn' \in [Conns -> Connection] /\ conn'[c].phase = phase
        /\ \A d \in Conns : /\ conn'[d].generation = conn[d].generation
                            /\ d # c => conn'[d] = conn[d]
    BY <2>1, <2>3, BecomesTyped DEF Phases
  <2>5. /\ bound = None
        /\ \A x \in delivered : x[1] # channel_generation
        /\ channel_generation = sender.generation /\ advance # "Answered"
    <3>1. channel_generation = sender.generation /\ advance # "Answered"
      BY <1>3, <1>5 DEF GenerationInv, StreamTypes, Senders
    <3>2. bound = None
      BY <1>5, <3>1 DEF AttachInv, StreamTypes, Senders
    <3>3. \A x \in delivered : x[1] # channel_generation
      BY <1>5 DEF MediaInv
    <3> QED
      BY <3>1, <3>2, <3>3
  <2>6. /\ InitialBytes \in 0..MaxFlow /\ InitialRecords \in 0..MaxFlow
    BY ConstantFacts
  <2>7. /\ flow' \in Flow /\ flow'.sent_bytes <= flow'.max_bytes
        /\ flow'.sent_records <= flow'.max_records
        /\ phase = "Accepting" => /\ flow'.sent_bytes = 0 /\ flow'.sent_records = 0
                                  /\ flow'.max_bytes = InitialBytes
                                  /\ flow'.max_records = InitialRecords
    BY <2>2, <2>3, <2>6, NewFlowTyped DEF FlowInv, StreamTypes, ChannelTypes
  <2>8. StreamTypes'
    BY <1>1, <1>5, <2>1, <2>2, <2>4, <2>7 DEF StreamTypes, ChannelTypes, Milestones
  <2>9. GenerationInv'
    BY <1>1, <1>3, <1>5, <2>1, <2>2, <2>4, <2>5 DEF GenerationInv
  <2>10. AttachInv'
    <3>1. \A d \in Conns : d # c =>
            /\ conn'[d] = conn[d] /\ d # bound /\ d # bound'
            /\ up'[d] = up[d] /\ down'[d] = down[d]
      BY <1>1, <2>1, <2>4, <2>5, ConstantFacts
    <3>2. /\ conn'[c].phase = phase /\ up'[c] = <<>> /\ c = bound' /\ c # sender'.conn
          /\ conn'[bound'].generation = channel_generation'
      BY <1>1, <1>3, <1>5, <2>1, <2>2, <2>4
    <3>3. AttachInv!1'
      BY <1>1, <2>3, <3>1, <3>2 DEF AttachInv
    <3>4. AttachInv!2'
      BY <1>1, <2>2, <3>1, <3>2 DEF AttachInv
    <3>5. AttachInv!3'
      BY <1>1, <3>1, <3>2 DEF AttachInv
    <3>6. AttachInv!4'
      BY <1>5, <2>2, <3>2
    <3>7. AttachInv!5'
      BY <1>1, <1>3, <2>4 DEF AttachInv, StreamTypes, Senders
    <3> QED
      BY <3>3, <3>4, <3>5, <3>6, <3>7 DEF AttachInv
  <2>11. FlowInv'
    BY <1>1, <2>7 DEF FlowInv
  <2>12. CreditInv'
    <3>1. Fits(flow', <<>>, flow'.max_bytes, flow'.max_records)
      BY <2>7, FitsNothing, ConstantFacts DEF Flow
    <3>2. RaisesWithin(<<>>)'
      BY DEF RaisesWithin
    <3>3. /\ up'[bound'] = <<>> /\ down'[bound'] = <<>> /\ sender'.conn # bound'
          /\ conn'[bound'].phase = phase
      BY <1>1, <1>3, <2>1, <2>4
    <3>4. InitialBytes \in Nat /\ InitialRecords \in Nat
      BY ConstantFacts
    <3> QED
      BY <2>7, <3>1, <3>2, <3>3, <3>4 DEF CreditInv, Credit, RaisesWithin
  <2>13. MediaInv'
    BY <1>1, <2>2, <2>5 DEF MediaInv, FirstMediaIsCurrent, OneMediaConnectionPerGeneration
  <2> QED
    BY <1>1, <2>8, <2>9, <2>10, <2>11, <2>12, <2>13 DEF LengthsInv
<1> QED
  BY <1>1, <1>2, <1>4, <1>5, OpenEffect

LEMMA SenderAcceptedStep ==
  ASSUME StreamInv, NEW c \in Conns, SenderAccepted(c)
  PROVE  StreamInv'
<1> USE DEF StreamInv
<1>1. /\ conn[c].phase = "Accepting"
      /\ UNCHANGED <<accepted, revision, channel_generation, milestones, media_epoch,
                     last_media_id, flow, lost>>
      /\ UNCHANGED <<bound, up, down, advance, delivered>>
  BY DEF SenderAccepted, channelVars, openVars, trackVars, trackState
<1>2. /\ up[c] = <<>> /\ c # sender.conn /\ c # None
      /\ c = bound \/ conn[c].generation < channel_generation
  BY <1>1, ConstantFacts DEF AttachInv
<1>3. /\ sender \in Senders /\ InitialBytes \in 0..MaxFlow /\ InitialRecords \in 0..MaxFlow
      /\ 0 \in 0..MaxFlow
  BY ConstantFacts DEF StreamTypes
<1>4. CASE conn[c].generation = sender.generation /\ Becomes(c, "Bound")
           /\ sender' = [sender EXCEPT !.conn = c, !.flow = NewFlow(InitialBytes, InitialRecords)]
  <2> DEFINE f == NewFlow(InitialBytes, InitialRecords)
  <2>1. /\ f \in Flow /\ f.sent_bytes = 0 /\ f.sent_records = 0
        /\ f.max_bytes = InitialBytes /\ f.max_records = InitialRecords
    BY <1>3, NewFlowTyped
  <2>2. sender' = [sender EXCEPT !.conn = c, !.flow = f]
    BY <1>4
  <2> HIDE DEF f
  <2>3. /\ sender' = [generation |-> sender.generation, conn |-> c, flow |-> f,
                      epoch |-> sender.epoch, media_id |-> sender.media_id]
    BY <1>3, <2>1, <2>2, SenderSet DEF Senders
  <2>4. /\ sender' \in Senders /\ sender'.conn = c /\ sender'.flow = f
        /\ sender'.generation = sender.generation
    BY <1>3, <2>1, <2>3 DEF Senders
  <2>5. /\ conn' \in [Conns -> Connection] /\ conn'[c].phase = "Bound"
        /\ \A d \in Conns : /\ conn'[d].generation = conn[d].generation
                            /\ d # c => conn'[d] = conn[d]
    BY <1>4, BecomesTyped DEF Phases
  <2>6. StreamTypes'
    BY <1>1, <2>4, <2>5 DEF StreamTypes, ChannelTypes
  <2>7. GenerationInv'
    BY <1>1, <2>4, <2>5 DEF GenerationInv
  <2>8. AttachInv'
    <3>1. AttachInv!1'
      BY <1>1, <2>4, <2>5 DEF AttachInv
    <3>2. AttachInv!2'
      BY <1>1, <1>2, <2>5 DEF AttachInv
    <3>3. AttachInv!3'
      BY <1>1, <2>4, <2>5 DEF AttachInv
    <3>4. AttachInv!4'
      BY <1>1, <2>4, <2>5 DEF AttachInv, StreamTypes
    <3>5. AttachInv!5'
      BY <2>4, <2>5
    <3> QED
      BY <3>1, <3>2, <3>3, <3>4, <3>5 DEF AttachInv
  <2>9. FlowInv'
    BY <1>1, <1>3, <2>1, <2>4 DEF FlowInv
  <2>10. CreditInv'
    <3>1. CASE bound = c
      <4>1. SUFFICES ASSUME Attached PROVE Credit'
        BY <1>1, <2>5, <3>1 DEF CreditInv, Attached
      <4>2. /\ flow.sent_bytes = 0 /\ flow.sent_records = 0
            /\ InitialBytes <= flow.max_bytes /\ InitialRecords <= flow.max_records
            /\ Fits(flow, up[c], flow.max_bytes, flow.max_records)
            /\ RaisesWithin(down[c])
        BY <1>1, <3>1, <4>1 DEF CreditInv, Credit
      <4>3. Fits(flow, <<>>, 0, 0)
        <5>1. flow \in Flow /\ flow.sent_bytes <= 0 /\ flow.sent_records <= 0
          BY <4>2 DEF StreamTypes, ChannelTypes
        <5>2. 0 \in Nat
          OBVIOUS
        <5> QED
          BY <5>1, <5>2, FitsNothing
      <4> QED
        BY <1>1, <1>2, <2>1, <2>4, <2>5, <3>1, <4>2, <4>3 DEF Credit, RaisesWithin
    <3>2. CASE bound # c
      BY <1>1, <2>4, <2>5, <3>2, CreditKept DEF StreamTypes
    <3> QED
      BY <3>1, <3>2
  <2> QED
    BY <1>1, <2>6, <2>7, <2>8, <2>9, <2>10, MediaKept DEF LengthsInv
<1>5. CASE Becomes(c, "Failed") /\ UNCHANGED sender
  <2>1. /\ conn' \in [Conns -> Connection] /\ conn'[c].phase = "Failed"
        /\ \A d \in Conns : /\ conn'[d].generation = conn[d].generation
                            /\ d # c => conn'[d] = conn[d]
    BY <1>5, BecomesTyped DEF Phases
  <2>2. StreamTypes'
    BY <1>1, <1>5, <2>1 DEF StreamTypes, ChannelTypes
  <2>3. GenerationInv'
    BY <1>1, <1>5, <2>1 DEF GenerationInv
  <2>4. AttachInv'
    BY <1>1, <1>5, <2>1, AttachEnded
  <2>5. CreditInv'
    BY <1>1, <1>5, <2>1, CreditKept DEF StreamTypes
  <2> QED
    BY <1>1, <1>5, <2>2, <2>3, <2>4, <2>5, MediaKept DEF FlowInv, LengthsInv
<1> QED
  BY <1>4, <1>5 DEF SenderAccepted

-----------------------------------------------------------------------------
(* Media and flow.                                                         *)
LEMMA SendMediaStep ==
  ASSUME StreamInv, NEW body \in 1..MaxRecordBody, NEW key \in BOOLEAN,
         NEW epoch \in sender.epoch..MaxEpoch, SendMedia(body, epoch, key)
  PROVE  StreamInv'
<1> USE DEF StreamInv
<1> DEFINE c == sender.conn
           r == [body |-> body, epoch |-> epoch, id |-> sender.media_id + 1, key |-> key]
           f == Charged(sender.flow, body)
<1>1. /\ c # None /\ Len(up[c]) < QueueCapacity /\ FlowAdmits(sender.flow, body)
      /\ sender' = [sender EXCEPT !.flow = f, !.epoch = epoch, !.media_id = sender.media_id + 1]
      /\ up' = IF conn[c].phase = "Bound" THEN [up EXCEPT ![c] = Append(up[c], r)] ELSE up
      /\ UNCHANGED <<accepted, revision, channel_generation, milestones, media_epoch,
                     last_media_id, flow, lost>>
      /\ UNCHANGED <<conn, bound, down, advance, delivered>>
  BY DEF SendMedia, channelVars, openVars, trackVars, trackState
<1>2. /\ sender \in Senders /\ sender.flow \in Flow /\ c \in Conns /\ body \in Nat
      /\ epoch \in Nat /\ sender.media_id + 1 \in Nat
      /\ up[c] \in Seq(MediaRecords) /\ flow \in Flow
  <2>1. sender \in Senders /\ flow \in Flow
    BY DEF StreamTypes, ChannelTypes
  <2>2. /\ sender.flow \in Flow /\ c \in Conns /\ sender.media_id + 1 \in Nat
        /\ sender.epoch \in Nat
    BY <1>1, <2>1 DEF Senders
  <2>3. body \in Nat /\ epoch \in Nat
    BY <2>2, ConstantFacts
  <2>4. up[c] \in Seq(MediaRecords)
    BY <2>2 DEF StreamTypes
  <2> QED
    BY <2>1, <2>2, <2>3, <2>4
<1>3. r \in MediaRecords /\ r.body = body
  BY <1>2 DEF MediaRecords
<1>4. /\ f \in Flow
      /\ f.sent_bytes = sender.flow.sent_bytes + body
      /\ f.sent_records = sender.flow.sent_records + 1
      /\ f.max_bytes = sender.flow.max_bytes /\ f.max_records = sender.flow.max_records
      /\ f.sent_bytes <= f.max_bytes /\ f.sent_records <= f.max_records
  BY <1>1, <1>2, ChargedTyped
<1> HIDE DEF r, f
<1>5. sender' = [generation |-> sender.generation, conn |-> sender.conn, flow |-> f,
                 epoch |-> epoch, media_id |-> sender.media_id + 1]
  <2> DEFINE s == sender
             m == sender.media_id + 1
  <2>1. s \in Senders /\ f \in Flow /\ epoch \in Nat /\ m \in Nat
    BY <1>2, <1>4
  <2>2. sender' = [s EXCEPT !.flow = f, !.epoch = epoch, !.media_id = m]
    BY <1>1
  <2>3. sender' = [generation |-> s.generation, conn |-> s.conn, flow |-> f,
                   epoch |-> epoch, media_id |-> m]
    <3> HIDE DEF s, m
    <3> QED
      BY <2>1, <2>2, SenderCharges
  <2> QED
    BY <2>3
<1>6. /\ sender' \in Senders /\ sender'.conn = sender.conn /\ sender'.flow = f
      /\ sender'.generation = sender.generation
  BY <1>2, <1>4, <1>5 DEF Senders
<1>7. /\ Append(up[c], r) \in Seq(MediaRecords) /\ Len(Append(up[c], r)) = Len(up[c]) + 1
      /\ Len(up[c]) \in Nat
  BY <1>2, <1>3, AppendProperties, LenProperties
<1>8. /\ up' \in [Conns -> Seq(MediaRecords)]
      /\ \A d \in Conns : d # c => up'[d] = up[d]
      /\ up'[c] = IF conn[c].phase = "Bound" THEN Append(up[c], r) ELSE up[c]
  BY <1>1, <1>2, <1>7 DEF StreamTypes
<1>9. StreamTypes'
  BY <1>1, <1>6, <1>8 DEF StreamTypes, ChannelTypes
<1>10. GenerationInv'
  BY <1>1, <1>6 DEF GenerationInv
<1>11. conn[c].phase \in {"Bound", "Failed", "Closed"}
  BY <1>1 DEF AttachInv
<1>12. AttachInv'
  <2>1. AttachInv!1'
    BY <1>1, <1>6, <1>8, <1>11 DEF AttachInv
  <2>2. AttachInv!2'
    BY <1>1, <1>8 DEF AttachInv
  <2>3. AttachInv!3'
    BY <1>1, <1>6, <1>8 DEF AttachInv
  <2>4. AttachInv!4'
    BY <1>1, <1>6 DEF AttachInv, StreamTypes
  <2>5. AttachInv!5'
    BY <1>1, <1>6 DEF AttachInv
  <2> QED
    BY <2>1, <2>2, <2>3, <2>4, <2>5 DEF AttachInv
<1>13. FlowInv'
  BY <1>1, <1>4, <1>6 DEF FlowInv
<1>14. CreditInv'
  <2>1. CASE bound = c
    <3>1. SUFFICES ASSUME Attached PROVE Credit'
      BY <1>1 DEF CreditInv, Attached
    <3>2. /\ Fits(flow, up[c], flow.max_bytes, flow.max_records)
          /\ RaisesWithin(down[c])
          /\ Fits(flow, up[c], sender.flow.sent_bytes, sender.flow.sent_records)
          /\ sender.flow.max_bytes <= flow.max_bytes
          /\ sender.flow.max_records <= flow.max_records
      BY <2>1, <3>1 DEF CreditInv, Credit
    <3>3. /\ sender.flow.sent_bytes \in Nat /\ sender.flow.sent_records \in Nat
          /\ f.sent_bytes \in Nat /\ f.sent_records \in Nat
          /\ f.max_bytes \in Nat /\ f.max_records \in Nat
          /\ flow.max_bytes \in Nat /\ flow.max_records \in Nat
      BY <1>2, <1>4, ConstantFacts DEF Flow
    <3>4. Fits(flow, up'[c], f.sent_bytes, f.sent_records)
      <4>1. CASE conn[c].phase = "Bound"
        <5>1. up'[c] = Append(up[c], r)
          BY <1>8, <4>1
        <5>2. Fits(flow, Append(up[c], r), f.sent_bytes, f.sent_records)
          BY <1>2, <1>3, <1>4, <3>2, <3>3, FitsAppend
        <5> QED
          BY <5>1, <5>2
      <4>2. CASE conn[c].phase # "Bound"
        <5>1. /\ sender.flow.sent_bytes <= f.sent_bytes
              /\ sender.flow.sent_records <= f.sent_records
          <6>1. /\ f.sent_bytes = sender.flow.sent_bytes + body /\ body \in Nat
                /\ f.sent_records = sender.flow.sent_records + 1
            BY <1>2, <1>4
          <6> QED
            BY <3>3, <6>1
        <5>2. up'[c] = up[c]
          BY <1>8, <4>2
        <5> QED
          BY <1>2, <3>2, <3>3, <5>1, <5>2, FitsWithin
      <4> QED
        BY <4>1, <4>2
    <3>5. Fits(flow, up'[c], flow.max_bytes, flow.max_records)
      <4>1. f.sent_bytes <= flow.max_bytes /\ f.sent_records <= flow.max_records
        BY <1>4, <3>2, <3>3
      <4>2. up'[c] \in Seq(MediaRecords)
        BY <1>2, <1>8
      <4> QED
        BY <1>2, <3>3, <3>4, <4>1, <4>2, FitsWithin
    <3>6. /\ bound' = c /\ flow' = flow /\ down'[c] = down[c] /\ conn'[c].phase # "Accepting"
          /\ sender'.flow = f
      BY <1>1, <1>6, <1>11, <2>1
    <3> QED
      BY <1>4, <3>2, <3>4, <3>5, <3>6 DEF Credit, RaisesWithin
  <2>2. CASE bound # c
    BY <1>1, <1>6, <1>8, <2>2, CreditKept DEF StreamTypes
  <2> QED
    BY <2>1, <2>2
<1>15. LengthsInv'
  <2>1. Len(up'[c]) <= QueueCapacity
    BY <1>1, <1>7, <1>8, ConstantFacts
  <2> QED
    BY <1>1, <1>8, <2>1 DEF LengthsInv
<1> QED
  BY <1>1, <1>9, <1>10, <1>12, <1>13, <1>14, <1>15, MediaKept

LEMMA FitsSent ==
  ASSUME NEW f \in Flow, NEW s \in Seq(MediaRecords),
         NEW bytes \in Nat, NEW count \in Nat, Fits(f, s, bytes, count)
  PROVE  Fits(f, <<>>, bytes, count)
<1>1. PICK t \in Totals(f, s, bytes) : TRUE
  BY FitsTotals
<1>2. Len(s) \in Nat /\ f.sent_records \in Nat
  BY LenProperties, ConstantFacts DEF Flow
<1>3. f.sent_bytes <= bytes
  BY <1>2 DEF Totals
<1>4. f.sent_records <= count
  BY <1>2 DEF Fits
<1> QED
  BY <1>3, <1>4, FitsNothing

\* Reading the first record of c: it may be charged, and what follows it may
\* be dropped.
LEMMA CreditRead ==
  ASSUME StreamInv, NEW c \in Conns, up[c] # <<>>,
         UNCHANGED <<bound, channel_generation, sender, down>>,
         \A d \in Conns : d # c => conn'[d] = conn[d] /\ up'[d] = up[d],
         conn'[c].generation = conn[c].generation,
         conn'[c].phase \in {conn[c].phase, "Failed"},
         \/ flow' = flow /\ up'[c] = <<>>
         \/ /\ Attached /\ bound = c /\ FlowAdmits(flow, Head(up[c]).body)
            /\ flow' = Charged(flow, Head(up[c]).body)
            /\ up'[c] \in {<<>>, Tail(up[c])}
  PROVE  CreditInv'
<1> USE DEF StreamInv
<1>1. CASE bound # c
  BY <1>1, CreditKept DEF StreamTypes
<1>2. CASE bound = c
  <2>1. SUFFICES ASSUME Attached PROVE Credit'
    BY <1>2 DEF CreditInv, Attached
  <2>2. /\ flow \in Flow /\ up[c] \in Seq(MediaRecords) /\ sender.flow \in Flow
        /\ bound' = c /\ conn'[c].phase # "Accepting"
    BY <1>2 DEF StreamTypes, ChannelTypes, Senders, AttachInv
  <2>3. /\ Fits(flow, up[c], flow.max_bytes, flow.max_records)
        /\ RaisesWithin(down[c])
        /\ sender.conn = c =>
             /\ Fits(flow, up[c], sender.flow.sent_bytes, sender.flow.sent_records)
             /\ sender.flow.max_bytes <= flow.max_bytes
             /\ sender.flow.max_records <= flow.max_records
    BY <1>2, <2>1 DEF CreditInv, Credit
  <2>4. /\ flow.max_bytes \in Nat /\ flow.max_records \in Nat
        /\ sender.flow.sent_bytes \in Nat /\ sender.flow.sent_records \in Nat
    BY <2>2, ConstantFacts DEF Flow
  <2>5. Head(up[c]).body \in Nat
    BY <2>2, <2>3, <2>4, FitsHead
  <2>6. ASSUME NEW b \in Nat, NEW n \in Nat, Fits(flow, up[c], b, n)
        PROVE  Fits(flow', up'[c], b, n) /\ flow'.max_bytes = flow.max_bytes
                 /\ flow'.max_records = flow.max_records
    <3>1. CASE flow' = flow /\ up'[c] = <<>>
      BY <2>2, <2>6, <3>1, FitsSent
    <3>2. CASE /\ FlowAdmits(flow, Head(up[c]).body)
               /\ flow' = Charged(flow, Head(up[c]).body)
               /\ up'[c] \in {<<>>, Tail(up[c])}
      <4>1. /\ flow' \in Flow
            /\ flow'.sent_bytes = flow.sent_bytes + Head(up[c]).body
            /\ flow'.sent_records = flow.sent_records + 1
            /\ flow'.max_bytes = flow.max_bytes /\ flow'.max_records = flow.max_records
        BY <2>2, <2>5, <3>2, ChargedTyped
      <4>2. Fits(flow', Tail(up[c]), b, n)
        BY <2>2, <2>6, <4>1, FitsTail
      <4>3. Tail(up[c]) \in Seq(MediaRecords)
        BY <2>2, HeadTailProperties, EmptySeq
      <4>4. Fits(flow', <<>>, b, n)
        BY <4>1, <4>2, <4>3, FitsSent
      <4> QED
        BY <3>2, <4>1, <4>2, <4>4
    <3> QED
      BY <3>1, <3>2
  <2>7. /\ Fits(flow', up'[c], flow'.max_bytes, flow'.max_records)
        /\ flow'.max_bytes = flow.max_bytes /\ flow'.max_records = flow.max_records
    BY <2>3, <2>4, <2>6
  <2>8. sender.conn = c => Fits(flow', up'[c], sender.flow.sent_bytes, sender.flow.sent_records)
    BY <2>3, <2>4, <2>6
  <2>9. down'[c] = down[c] /\ sender' = sender
    OBVIOUS
  <2> QED
    BY <2>2, <2>3, <2>7, <2>8, <2>9 DEF Credit, RaisesWithin
<1> QED
  BY <1>1, <1>2

LEMMA AdmitOpenEffect ==
  ASSUME ChannelTypes, NEW g \in Nat, OpenForMedia(g), OpenAdmitMedia(g)
  PROVE  \E o \in Outcomes, q \in Outcomes :
           /\ accepted = {o} /\ accepted' = {q}
           /\ o.generation = g /\ q.generation = g
           /\ o.transport_live /\ q.transport_live /\ q.media_admitted
<1>1. PICK yes \in BOOLEAN : yes = TRUE
  OBVIOUS
<1>2. PICK o \in accepted : o.generation = g /\ o.transport_live
  BY DEF OpenForMedia
<1>3. o \in Outcomes /\ accepted = {o}
  BY <1>2 DEF ChannelTypes
<1> DEFINE q == [o EXCEPT !.media_admitted = yes]
<1>4. /\ q \in Outcomes /\ q.generation = o.generation
      /\ q.transport_live = o.transport_live /\ q.media_admitted = yes
  <2>1. yes \in BOOLEAN
    BY <1>1
  <2> QED
    BY <1>3, <2>1 DEF Outcomes
<1>5. accepted' = {q}
  BY <1>1, <1>3 DEF OpenAdmitMedia
<1> HIDE DEF q
<1> QED
  BY <1>1, <1>2, <1>3, <1>4, <1>5

LEMMA AdmitMediaEffect ==
  ASSUME ChannelTypes, NEW g \in Nat, NEW body \in Nat, NEW e \in Nat, NEW id \in Nat,
         NEW key \in BOOLEAN, AdmitMedia(g, body, e, id, key)
  PROVE  /\ UNCHANGED <<revision, channel_generation, lost>>
         /\ media_epoch' \in Nat /\ last_media_id' \in Nat
         /\ \/ track_result' # "Ok" /\ flow' = flow /\ milestones' = milestones
            \/ /\ g = channel_generation /\ FlowAdmits(flow, body)
               /\ flow' = Charged(flow, body)
               /\ \/ track_result' # "Ok" /\ milestones' = milestones
                  \/ /\ track_result' = "Ok" /\ milestones' \in SUBSET Milestones
                     /\ "FIRST_MEDIA" \in milestones'
BY DEF AdmitMedia, TrackRefuses, TrackReturns, trackState, ChannelTypes, Milestones

LEMMA PresenterMediaStep ==
  ASSUME StreamInv, NEW c \in Conns, PresenterMedia(c)
  PROVE  StreamInv'
<1> USE DEF StreamInv
<1> DEFINE g == conn[c].generation
           r == Head(up[c])
<1>1. /\ up[c] # <<>> /\ OpenAdmitMedia(g)
      /\ UNCHANGED <<bound, down, advance, sender>>
      /\ \/ ~OpenForMedia(g) /\ RefuseRecord(c) /\ UNCHANGED trackVars
         \/ /\ OpenForMedia(g)
            /\ AdmitMedia(g, r.body, r.epoch, r.id, r.key)
            /\ IF track_result' = "Ok"
                 THEN /\ up' = [up EXCEPT ![c] = Tail(@)]
                      /\ delivered' = delivered \union {<<g, c>>}
                      /\ UNCHANGED conn
                 ELSE RefuseRecord(c)
  BY DEF PresenterMedia, RecordGeneration
<1>2. /\ conn[c] \in Connection /\ g \in Nat /\ up[c] \in Seq(MediaRecords)
      /\ r \in MediaRecords /\ Tail(up[c]) \in Seq(MediaRecords)
      /\ Len(Tail(up[c])) = Len(up[c]) - 1 /\ Len(up[c]) \in Nat \ {0} /\ Len(<<>>) = 0
  <2>1. conn[c] \in Connection /\ up[c] \in Seq(MediaRecords)
    BY DEF StreamTypes
  <2>2. g \in Nat
    BY <2>1, ConstantFacts DEF Connection
  <2> QED
    BY <1>1, <2>1, <2>2, HeadTailProperties, EmptySeq, LenProperties
<1>3. /\ r.body \in Nat /\ r.epoch \in Nat /\ r.id \in Nat /\ r.key \in BOOLEAN
  BY <1>2, ConstantFacts DEF MediaRecords
<1>4. /\ conn[c].phase \notin {"Unused", "Opening", "Accepting"} /\ c # None
      /\ c = bound \/ conn[c].generation < channel_generation
  BY <1>1, ConstantFacts DEF AttachInv
<1> HIDE DEF g, r
\* What a refusal leaves behind.
<1>5. ASSUME RefuseRecord(c)
      PROVE  /\ up' \in [Conns -> Seq(MediaRecords)] /\ up'[c] = <<>>
             /\ \A d \in Conns : d # c => up'[d] = up[d]
             /\ conn' \in [Conns -> Connection] /\ conn'[c].phase = "Failed"
             /\ \A d \in Conns : /\ conn'[d].generation = conn[d].generation
                                 /\ d # c => conn'[d] = conn[d]
             /\ delivered' = delivered
  <2>1. /\ up' = [up EXCEPT ![c] = <<>>] /\ Becomes(c, "Failed") /\ delivered' = delivered
    BY <1>5 DEF RefuseRecord
  <2>2. <<>> \in Seq(MediaRecords) /\ up \in [Conns -> Seq(MediaRecords)]
    BY DEF StreamTypes
  <2> QED
    BY <2>1, <2>2, BecomesTyped DEF Phases
\* What a refusal and an admission have in common.
<1>6. ASSUME up' \in [Conns -> Seq(MediaRecords)], up'[c] \in {<<>>, Tail(up[c])},
             \A d \in Conns : d # c => up'[d] = up[d],
             conn' \in [Conns -> Connection], conn'[c].phase \in {conn[c].phase, "Failed"},
             \A d \in Conns : /\ conn'[d].generation = conn[d].generation
                              /\ d # c => conn'[d] = conn[d],
             ChannelTypes', channel_generation' = channel_generation,
             delivered' \in SUBSET (Nat \X Conns),
             \A x \in delivered' : x[1] <= channel_generation,
             \A o \in accepted : \E q \in accepted' :
               /\ q.generation = o.generation
               /\ o.transport_live => q.transport_live,
             \A q \in accepted' : 1 <= q.generation /\ q.generation <= channel_generation
      PROVE  StreamTypes' /\ GenerationInv' /\ AttachInv' /\ LengthsInv'
  <2>1. StreamTypes'
    BY <1>1, <1>6 DEF StreamTypes
  <2>2. GenerationInv'
    BY <1>1, <1>6 DEF GenerationInv
  <2>3. AttachInv'
    <3>1. AttachInv!1'
      <4>1. SUFFICES ASSUME NEW d \in Conns, conn'[d].phase \in {"Unused", "Opening"}
                     PROVE  up'[d] = <<>> /\ down'[d] = <<>> /\ d # bound' /\ d # sender'.conn
        OBVIOUS
      <4>2. d # c /\ conn'[d] = conn[d] /\ up'[d] = up[d]
        BY <1>4, <1>6, <4>1
      <4>3. up[d] = <<>> /\ down[d] = <<>> /\ d # bound /\ d # sender.conn
        BY <4>1, <4>2 DEF AttachInv
      <4> QED
        BY <1>1, <4>2, <4>3
    <3>2. AttachInv!2'
      BY <1>1, <1>4, <1>6 DEF AttachInv
    <3>3. AttachInv!3'
      BY <1>1, <1>4, <1>6 DEF AttachInv
    <3>4. AttachInv!4'
      <4>1. SUFFICES ASSUME bound # None
                     PROVE  \E o \in accepted' :
                       /\ o.generation = conn'[bound].generation /\ o.transport_live
                       /\ \/ o.generation = channel_generation
                          \/ sender.generation < channel_generation
        BY <1>1, <1>6
      <4>2. PICK o \in accepted :
              /\ o.generation = conn[bound].generation /\ o.transport_live
              /\ o.generation = channel_generation \/ sender.generation < channel_generation
        BY <4>1 DEF AttachInv
      <4>3. PICK q \in accepted' :
              q.generation = o.generation /\ (o.transport_live => q.transport_live)
        BY <1>6, <4>2
      <4>4. conn'[bound].generation = conn[bound].generation
        BY <1>6, <4>1 DEF StreamTypes
      <4> QED
        BY <4>2, <4>3, <4>4
    <3>5. AttachInv!5'
      BY <1>1, <1>6 DEF AttachInv, StreamTypes, Senders
    <3> QED
      BY <3>1, <3>2, <3>3, <3>4, <3>5 DEF AttachInv
  <2>4. LengthsInv'
    <3>1. Len(up'[c]) <= QueueCapacity
      BY <1>2, <1>6, ConstantFacts DEF LengthsInv
    <3> QED
      BY <1>1, <1>6, <3>1 DEF LengthsInv
  <2> QED
    BY <2>1, <2>2, <2>3, <2>4
<1>7. CASE ~OpenForMedia(g) /\ RefuseRecord(c) /\ UNCHANGED trackVars
  <2>1. /\ accepted' = accepted
        /\ UNCHANGED <<revision, channel_generation, milestones, media_epoch,
                       last_media_id, flow, lost>>
    BY <1>1, <1>7 DEF OpenAdmitMedia, trackVars, trackState
  <2>2. ChannelTypes'
    BY <2>1 DEF ChannelTypes, StreamTypes
  <2>3. StreamTypes' /\ GenerationInv' /\ AttachInv' /\ LengthsInv'
    BY <1>1, <1>5, <1>6, <1>7, <2>1, <2>2 DEF StreamTypes, GenerationInv
  <2>4. CreditInv'
    BY <1>1, <1>5, <1>7, <2>1, CreditRead
  <2> QED
    BY <1>1, <1>5, <1>7, <2>1, <2>3, <2>4, MediaKept DEF FlowInv
<1>8. CASE /\ OpenForMedia(g)
           /\ AdmitMedia(g, r.body, r.epoch, r.id, r.key)
           /\ IF track_result' = "Ok"
                THEN /\ up' = [up EXCEPT ![c] = Tail(@)]
                     /\ delivered' = delivered \union {<<g, c>>}
                     /\ UNCHANGED conn
                ELSE RefuseRecord(c)
  <2>1. PICK o \in Outcomes, q \in Outcomes :
           /\ accepted = {o} /\ accepted' = {q}
           /\ o.generation = g /\ q.generation = g
           /\ o.transport_live /\ q.transport_live /\ q.media_admitted
    BY <1>1, <1>2, <1>8, AdmitOpenEffect DEF StreamTypes
  <2>2. /\ UNCHANGED <<revision, channel_generation, lost>>
        /\ media_epoch' \in Nat /\ last_media_id' \in Nat
        /\ \/ track_result' # "Ok" /\ flow' = flow /\ milestones' = milestones
           \/ /\ g = channel_generation /\ FlowAdmits(flow, r.body)
              /\ flow' = Charged(flow, r.body)
              /\ \/ track_result' # "Ok" /\ milestones' = milestones
                 \/ /\ track_result' = "Ok" /\ milestones' \in SUBSET Milestones
                    /\ "FIRST_MEDIA" \in milestones'
    <3> DEFINE body == r.body
               e == r.epoch
               id == r.id
               key == r.key
    <3>1. /\ ChannelTypes /\ g \in Nat /\ body \in Nat /\ e \in Nat /\ id \in Nat
          /\ key \in BOOLEAN /\ AdmitMedia(g, body, e, id, key)
      BY <1>2, <1>3, <1>8 DEF StreamTypes
    <3> HIDE DEF g, body, e, id, key
    <3>2. /\ UNCHANGED <<revision, channel_generation, lost>>
          /\ media_epoch' \in Nat /\ last_media_id' \in Nat
          /\ \/ track_result' # "Ok" /\ flow' = flow /\ milestones' = milestones
             \/ /\ g = channel_generation /\ FlowAdmits(flow, body)
                /\ flow' = Charged(flow, body)
                /\ \/ track_result' # "Ok" /\ milestones' = milestones
                   \/ /\ track_result' = "Ok" /\ milestones' \in SUBSET Milestones
                      /\ "FIRST_MEDIA" \in milestones'
      BY <3>1, AdmitMediaEffect
    <3> QED
      BY <3>2 DEF body
  <2>3. flow' \in Flow /\ FlowInv'
    <3>1. CASE flow' = flow
      BY <1>1, <3>1 DEF FlowInv, StreamTypes, ChannelTypes
    <3>2. CASE FlowAdmits(flow, r.body) /\ flow' = Charged(flow, r.body)
      <4>1. /\ flow' \in Flow /\ flow'.sent_bytes <= flow'.max_bytes
            /\ flow'.sent_records <= flow'.max_records
        <5>1. flow \in Flow
          BY DEF StreamTypes, ChannelTypes
        <5> QED
          BY <1>3, <3>2, <5>1, ChargedTyped
      <4> QED
        BY <1>1, <4>1 DEF FlowInv
    <3> QED
      BY <2>2, <3>1, <3>2
  <2>4. ChannelTypes'
    BY <2>1, <2>2, <2>3 DEF ChannelTypes, StreamTypes
  <2>5. 1 <= g /\ g <= channel_generation
    BY <2>1 DEF GenerationInv
  <2>6. /\ \A x \in accepted : \E y \in accepted' :
               /\ y.generation = x.generation
               /\ x.transport_live => y.transport_live
        /\ \A x \in accepted' : 1 <= x.generation /\ x.generation <= channel_generation
    BY <2>1, <2>5
  <2>7. CASE track_result' # "Ok"
    <3>1. RefuseRecord(c)
      BY <1>8, <2>7
    <3>2. StreamTypes' /\ GenerationInv' /\ AttachInv' /\ LengthsInv'
      BY <1>1, <1>5, <1>6, <2>2, <2>4, <2>6, <3>1 DEF StreamTypes, GenerationInv
    <3>3. CreditInv'
      <4>1. \/ flow' = flow /\ up'[c] = <<>>
            \/ /\ Attached /\ bound = c /\ FlowAdmits(flow, Head(up[c]).body)
               /\ flow' = Charged(flow, Head(up[c]).body)
               /\ up'[c] \in {<<>>, Tail(up[c])}
        BY <1>4, <1>5, <2>2, <3>1, <2>7, ConstantFacts DEF Attached, g, r, GenerationInv, StreamTypes
      <4> QED
        BY <1>1, <1>5, <2>2, <3>1, <4>1, CreditRead
    <3>4. MediaInv'
      BY <1>1, <1>5, <2>1, <2>2, <2>7, <3>1
      DEF MediaInv, FirstMediaIsCurrent, OneMediaConnectionPerGeneration
    <3> QED
      BY <2>3, <3>2, <3>3, <3>4
  <2>8. CASE track_result' = "Ok"
    <3>1. /\ up' = [up EXCEPT ![c] = Tail(up[c])]
          /\ delivered' = delivered \union {<<g, c>>} /\ conn' = conn
          /\ g = channel_generation /\ FlowAdmits(flow, r.body)
          /\ flow' = Charged(flow, r.body)
          /\ milestones' \in SUBSET Milestones /\ "FIRST_MEDIA" \in milestones'
      BY <1>8, <2>2, <2>8
    <3>2. /\ up' \in [Conns -> Seq(MediaRecords)] /\ up'[c] = Tail(up[c])
          /\ \A d \in Conns : d # c => up'[d] = up[d]
      BY <1>2, <3>1 DEF StreamTypes
    <3>3. c = bound /\ Attached
      BY <1>4, <2>5, <3>1, ConstantFacts DEF g, Attached, GenerationInv, StreamTypes
    <3>4. StreamTypes' /\ GenerationInv' /\ AttachInv' /\ LengthsInv'
      BY <1>1, <1>2, <1>6, <2>2, <2>4, <2>5, <2>6, <3>1, <3>2 DEF StreamTypes, GenerationInv
    <3>5. CreditInv'
      BY <1>1, <2>2, <3>1, <3>2, <3>3, CreditRead DEF r
    <3>6. MediaInv'
      <4>1. FirstMediaIsCurrent'
        <5>1. <<g, c>> \in delivered' /\ <<g, c>>[1] = channel_generation'
          BY <2>2, <3>1
        <5> QED
          BY <3>1, <5>1 DEF FirstMediaIsCurrent
      <4>2. \A x \in delivered' : x[1] = channel_generation => x[2] = c
        BY <3>1, <3>3, ConstantFacts DEF MediaInv, Attached
      <4>3. OneMediaConnectionPerGeneration'
        <5>1. SUFFICES ASSUME NEW x \in delivered', NEW y \in delivered', x[1] = y[1]
                       PROVE  x[2] = y[2]
          BY DEF OneMediaConnectionPerGeneration
        <5>2. CASE x[1] = channel_generation
          <6>1. x[2] = c
            BY <4>2, <5>2
          <6>2. y[2] = c
            BY <4>2, <5>1, <5>2
          <6> QED
            BY <6>1, <6>2
        <5>3. CASE x[1] # channel_generation
          BY <3>1, <5>1, <5>3 DEF MediaInv, OneMediaConnectionPerGeneration
        <5> QED
          BY <5>2, <5>3
      <4>4. \E o2 \in accepted' : o2.generation = channel_generation' /\ o2.media_admitted
        BY <2>1, <2>2, <3>1
      <4> QED
        BY <1>1, <2>2, <3>3, <4>1, <4>2, <4>3, <4>4 DEF MediaInv
    <3> QED
      BY <2>3, <3>4, <3>5, <3>6
  <2> QED
    BY <2>7, <2>8
<1> QED
  BY <1>1, <1>7, <1>8

-----------------------------------------------------------------------------
(* The allowance.                                                          *)
LEMMA FitsRaised ==
  ASSUME NEW f \in Flow, NEW g \in Flow, NEW s \in Seq(MediaRecords),
         NEW bytes \in Nat, NEW count \in Nat, Fits(f, s, bytes, count),
         g.sent_bytes = f.sent_bytes, g.sent_records = f.sent_records,
         NEW b \in Nat, NEW n \in Nat, bytes <= b, count <= n
  PROVE  Fits(g, s, b, n)
<1>1. Fits(f, s, b, n)
  BY FitsWithin
<1> QED
  BY <1>1 DEF Fits

LEMMA PresenterRaisesStep ==
  ASSUME StreamInv, NEW bytes \in 0..MaxFlow, NEW records \in 0..MaxFlow,
         PresenterRaises(bytes, records)
  PROVE  StreamInv'
<1> USE DEF StreamInv
<1> DEFINE r == [bytes |-> bytes, records |-> records]
<1>1. /\ bound \in Conns /\ Len(down[bound]) < QueueCapacity
      /\ flow' = Raised(flow, bytes, records)
      /\ UNCHANGED <<revision, channel_generation, milestones, media_epoch,
                     last_media_id, lost, accepted>>
      /\ down' = [down EXCEPT ![bound] = Append(down[bound], r)]
      /\ UNCHANGED <<conn, bound, up, advance, sender, delivered>>
  BY DEF PresenterRaises, RaiseMaxima, StreamTypes, openVars
<1>2. /\ flow \in Flow /\ flow' \in Flow
      /\ flow'.sent_bytes = flow.sent_bytes /\ flow'.sent_records = flow.sent_records
      /\ flow'.max_bytes >= flow.max_bytes /\ flow'.max_records >= flow.max_records
      /\ flow'.max_bytes >= bytes /\ flow'.max_records >= records
  BY <1>1, RaisedTyped DEF StreamTypes, ChannelTypes
<1>3. /\ flow.sent_bytes \in Nat /\ flow.sent_records \in Nat
      /\ flow.max_bytes \in Nat /\ flow.max_records \in Nat
      /\ flow'.max_bytes \in Nat /\ flow'.max_records \in Nat
      /\ bytes \in Nat /\ records \in Nat
  BY <1>2, ConstantFacts DEF Flow
<1>4. r \in RaiseRecords /\ r.bytes = bytes /\ r.records = records
  BY DEF RaiseRecords
<1> HIDE DEF r
<1>5. down[bound] \in Seq(RaiseRecords) /\ up[bound] \in Seq(MediaRecords)
  BY <1>1 DEF StreamTypes
<1> DEFINE q == Append(down[bound], r)
<1>6. /\ q \in Seq(RaiseRecords) /\ Len(q) = Len(down[bound]) + 1
      /\ Len(down[bound]) \in Nat /\ q[Len(down[bound]) + 1] = r
      /\ \A i \in 1..Len(down[bound]) : q[i] = down[bound][i]
  BY <1>4, <1>5, AppendProperties, LenProperties
<1> HIDE DEF q
<1>7. /\ down' \in [Conns -> Seq(RaiseRecords)] /\ down'[bound] = q
      /\ \A d \in Conns : d # bound => down'[d] = down[d]
  BY <1>1, <1>6 DEF StreamTypes, q
<1>8. StreamTypes'
  BY <1>1, <1>2, <1>7 DEF StreamTypes, ChannelTypes
<1>9. GenerationInv'
  BY <1>1 DEF GenerationInv
<1>10. AttachInv'
  <2>1. AttachInv!1'
    BY <1>1, <1>7 DEF AttachInv
  <2> QED
    BY <1>1, <2>1 DEF AttachInv
<1>11. FlowInv'
  BY <1>1, <1>2, <1>3 DEF FlowInv
<1>12. CreditInv'
  <2>1. SUFFICES ASSUME Attached PROVE Credit'
    BY <1>1 DEF CreditInv, Attached
  <2>2. /\ Fits(flow, up[bound], flow.max_bytes, flow.max_records)
        /\ RaisesWithin(down[bound])
    BY <2>1 DEF CreditInv, Credit
  <2>3. Fits(flow', up[bound], flow'.max_bytes, flow'.max_records)
    BY <1>2, <1>3, <1>5, <2>2, FitsRaised
  <2>4. ASSUME NEW i \in 1..Len(q)
        PROVE  q[i].bytes <= flow'.max_bytes /\ q[i].records <= flow'.max_records
    <3>1. CASE i = Len(down[bound]) + 1
      BY <1>2, <1>4, <1>6, <3>1
    <3>2. CASE i \in 1..Len(down[bound])
      <4>1. down[bound][i] \in RaiseRecords
        BY <1>5, <3>2, ElementOfSeq
      <4>2. down[bound][i].bytes \in Nat /\ down[bound][i].records \in Nat
        BY <4>1, ConstantFacts DEF RaiseRecords
      <4>3. /\ down[bound][i].bytes <= flow.max_bytes
            /\ down[bound][i].records <= flow.max_records
        BY <2>2, <3>2 DEF RaisesWithin
      <4>4. q[i] = down[bound][i]
        BY <1>6, <3>2
      <4> QED
        <5>1. flow.max_bytes <= flow'.max_bytes /\ flow.max_records <= flow'.max_records
          BY <1>2
        <5> QED
          BY <1>3, <4>2, <4>3, <4>4, <5>1, AtMostTransitive
    <3> QED
      BY <1>6, <3>1, <3>2
  <2>5. RaisesWithin(down[bound])'
    BY <1>1, <1>7, <2>4 DEF RaisesWithin
  <2>6. conn[bound].phase = "Accepting" =>
          /\ flow'.sent_bytes = 0 /\ flow'.sent_records = 0
          /\ InitialBytes <= flow'.max_bytes /\ InitialRecords <= flow'.max_records
    BY <1>2, <1>3, <2>1, ConstantFacts DEF CreditInv, Credit
  <2>7. sender.conn = bound =>
          /\ Fits(flow', up[bound], sender.flow.sent_bytes, sender.flow.sent_records)
          /\ sender.flow.max_bytes <= flow'.max_bytes
          /\ sender.flow.max_records <= flow'.max_records
    <3>1. SUFFICES ASSUME sender.conn = bound
                   PROVE  /\ Fits(flow', up[bound], sender.flow.sent_bytes,
                                  sender.flow.sent_records)
                          /\ sender.flow.max_bytes <= flow'.max_bytes
                          /\ sender.flow.max_records <= flow'.max_records
      OBVIOUS
    <3>2. /\ Fits(flow, up[bound], sender.flow.sent_bytes, sender.flow.sent_records)
          /\ sender.flow.max_bytes <= flow.max_bytes
          /\ sender.flow.max_records <= flow.max_records
      BY <2>1, <3>1 DEF CreditInv, Credit
    <3>3. sender.flow \in Flow
      BY DEF StreamTypes, Senders
    <3>4. /\ sender.flow.sent_bytes \in Nat /\ sender.flow.sent_records \in Nat
          /\ sender.flow.max_bytes \in Nat /\ sender.flow.max_records \in Nat
      BY <3>3, ConstantFacts DEF Flow
    <3>5. Fits(flow', up[bound], sender.flow.sent_bytes, sender.flow.sent_records)
      BY <1>2, <1>5, <3>2, <3>4, FitsRaised
    <3> QED
      BY <1>2, <1>3, <3>2, <3>4, <3>5
  <2> QED
    BY <1>1, <2>3, <2>5, <2>6, <2>7 DEF Credit
<1>13. LengthsInv'
  <2>1. Len(down'[bound]) <= QueueCapacity
    BY <1>1, <1>6, <1>7, ConstantFacts
  <2> QED
    BY <1>1, <1>7, <2>1 DEF LengthsInv
<1> QED
  BY <1>1, <1>8, <1>9, <1>10, <1>11, <1>12, <1>13, MediaKept

LEMMA SenderRaisesStep ==
  ASSUME StreamInv, SenderRaises
  PROVE  StreamInv'
<1> USE DEF StreamInv
<1> DEFINE c == sender.conn
           b == Head(down[c]).bytes
           n == Head(down[c]).records
           f == Raised(sender.flow, b, n)
<1>1. /\ c \in Conns /\ down[c] # <<>>
      /\ sender' = [sender EXCEPT !.flow = f]
      /\ down' = [down EXCEPT ![c] = Tail(down[c])]
      /\ UNCHANGED <<accepted, revision, channel_generation, milestones, media_epoch,
                     last_media_id, flow, lost>>
      /\ UNCHANGED <<conn, bound, up, advance, delivered>>
  BY DEF SenderRaises, StreamTypes, Senders, channelVars, openVars, trackVars, trackState
<1>2. /\ down[c] \in Seq(RaiseRecords) /\ Tail(down[c]) \in Seq(RaiseRecords)
      /\ Head(down[c]) \in RaiseRecords /\ Head(down[c]) = down[c][1]
      /\ Len(down[c]) \in Nat \ {0} /\ Len(Tail(down[c])) = Len(down[c]) - 1
      /\ \A i \in 1..Len(down[c]) - 1 : Tail(down[c])[i] = down[c][i + 1]
  <2>1. down[c] \in Seq(RaiseRecords)
    BY <1>1 DEF StreamTypes
  <2> QED
    BY <1>1, <2>1, HeadTailProperties, EmptySeq, LenProperties
<1>3. b \in 0..MaxFlow /\ n \in 0..MaxFlow
  BY <1>2 DEF RaiseRecords
<1>4. sender \in Senders /\ sender.flow \in Flow
  BY DEF StreamTypes, Senders
<1>b. c \in Conns \union {None} /\ sender.generation \in Nat
  BY <1>1, <1>4 DEF Senders
<1> HIDE DEF c, b, n
<1>5. /\ f \in Flow
      /\ f.sent_bytes = sender.flow.sent_bytes /\ f.sent_records = sender.flow.sent_records
      /\ f.max_bytes >= sender.flow.max_bytes /\ f.max_records >= sender.flow.max_records
      /\ f.max_bytes \in {sender.flow.max_bytes, b}
      /\ f.max_records \in {sender.flow.max_records, n}
  BY <1>3, <1>4, RaisedTyped
<1> HIDE DEF f
<1>6. sender' = [generation |-> sender.generation, conn |-> sender.conn, flow |-> f,
                 epoch |-> sender.epoch, media_id |-> sender.media_id]
  BY <1>1, <1>4, <1>5, <1>b, SenderSet
<1>7. /\ sender' \in Senders /\ sender'.flow = f /\ sender'.conn = sender.conn
      /\ sender'.generation = sender.generation
  BY <1>4, <1>5, <1>6 DEF Senders
<1>8. /\ down' \in [Conns -> Seq(RaiseRecords)] /\ down'[c] = Tail(down[c])
      /\ \A d \in Conns : d # c => down'[d] = down[d]
  BY <1>1, <1>2 DEF StreamTypes
<1>9. StreamTypes'
  BY <1>1, <1>7, <1>8 DEF StreamTypes, ChannelTypes
<1>10. GenerationInv'
  BY <1>1, <1>7 DEF GenerationInv
<1>11. AttachInv'
  <2>1. AttachInv!1'
    BY <1>1, <1>7, <1>8 DEF AttachInv, c
  <2> QED
    BY <1>1, <1>7, <2>1 DEF AttachInv
<1>12. FlowInv'
  <2>1. /\ f.sent_bytes <= f.max_bytes /\ f.sent_records <= f.max_records
    BY <1>4, <1>5, ConstantFacts DEF FlowInv, Flow
  <2> QED
    BY <1>1, <1>7, <2>1 DEF FlowInv
<1>13. CreditInv'
  <2>1. CASE bound # c
    BY <1>1, <1>7, <1>8, <2>1, CreditKept DEF c, StreamTypes
  <2>2. CASE bound = c
    <3>1. SUFFICES ASSUME Attached PROVE Credit'
      BY <1>1 DEF CreditInv, Attached
    <3>2. /\ Fits(flow, up[c], flow.max_bytes, flow.max_records)
          /\ RaisesWithin(down[c])
          /\ Fits(flow, up[c], sender.flow.sent_bytes, sender.flow.sent_records)
          /\ sender.flow.max_bytes <= flow.max_bytes
          /\ sender.flow.max_records <= flow.max_records
          /\ conn[c].phase # "Accepting"
      BY <1>1, <2>2, <3>1 DEF CreditInv, Credit, c, AttachInv
    <3>3. b <= flow.max_bytes /\ n <= flow.max_records
      BY <1>2, <3>2 DEF RaisesWithin, b, n
    <3>4. f.max_bytes <= flow.max_bytes /\ f.max_records <= flow.max_records
      BY <1>5, <3>2, <3>3
    <3>5. ASSUME NEW i \in 1..Len(Tail(down[c]))
          PROVE  /\ Tail(down[c])[i].bytes <= flow.max_bytes
                 /\ Tail(down[c])[i].records <= flow.max_records
      <4>1. i \in 1..Len(down[c]) - 1 /\ i + 1 \in 1..Len(down[c])
        BY <1>2
      <4> QED
        BY <1>2, <3>2, <4>1 DEF RaisesWithin
    <3>6. RaisesWithin(down[bound])'
      BY <1>1, <1>8, <2>2, <3>5 DEF RaisesWithin
    <3> QED
      BY <1>1, <1>5, <1>7, <2>2, <3>2, <3>4, <3>6 DEF Credit
  <2> QED
    BY <2>1, <2>2
<1>14. LengthsInv'
  <2>1. Len(down'[c]) <= QueueCapacity
    BY <1>1, <1>2, <1>8, ConstantFacts DEF LengthsInv
  <2> QED
    BY <1>1, <1>8, <2>1 DEF LengthsInv
<1> QED
  BY <1>1, <1>9, <1>10, <1>11, <1>12, <1>13, <1>14, MediaKept

-----------------------------------------------------------------------------
(* Loss and replacement.                                                   *)
LEMMA ConnFailsStep ==
  ASSUME StreamInv, NEW c \in Conns, ConnFails(c)
  PROVE  StreamInv'
<1> USE DEF StreamInv
<1>1. /\ conn[c].phase \in {"Opening", "Accepting", "Bound"} /\ Becomes(c, "Failed")
      /\ down' = [down EXCEPT ![c] = <<>>]
      /\ UNCHANGED <<accepted, revision, channel_generation, milestones, media_epoch,
                     last_media_id, flow, lost>>
      /\ UNCHANGED <<bound, up, advance, sender, delivered>>
  BY DEF ConnFails, channelVars, openVars, trackVars, trackState
<1>2. /\ conn' \in [Conns -> Connection] /\ conn'[c].phase = "Failed"
      /\ \A d \in Conns : /\ conn'[d].generation = conn[d].generation
                          /\ d # c => conn'[d] = conn[d]
  BY <1>1, BecomesTyped DEF Phases
<1>3. <<>> \in Seq(RaiseRecords) /\ Len(<<>>) = 0
  OBVIOUS
<1>4. /\ down' \in [Conns -> Seq(RaiseRecords)] /\ down'[c] = <<>>
      /\ \A d \in Conns : d # c => down'[d] = down[d]
  BY <1>1, <1>3 DEF StreamTypes
<1>5. StreamTypes'
  BY <1>1, <1>2, <1>4 DEF StreamTypes, ChannelTypes
<1>6. GenerationInv'
  BY <1>1, <1>2 DEF GenerationInv
<1>7. AttachInv'
  <2>1. AttachInv!1'
    BY <1>1, <1>2, <1>4 DEF AttachInv
  <2>2. AttachInv!2'
    BY <1>1, <1>2 DEF AttachInv
  <2>3. AttachInv!3'
    BY <1>1, <1>2 DEF AttachInv
  <2>4. AttachInv!4'
    BY <1>1, <1>2 DEF AttachInv, StreamTypes
  <2>5. AttachInv!5'
    BY <1>1, <1>2 DEF AttachInv, StreamTypes, Senders
  <2> QED
    BY <2>1, <2>2, <2>3, <2>4, <2>5 DEF AttachInv
<1>8. CreditInv'
  <2>1. CASE bound # c
    BY <1>1, <1>2, <1>4, <2>1, CreditKept DEF StreamTypes
  <2>2. CASE bound = c
    <3>1. SUFFICES ASSUME Attached PROVE Credit'
      BY <1>1, <1>2, <2>2 DEF CreditInv, Attached
    <3>2. RaisesWithin(down[bound])'
      BY <1>1, <1>3, <1>4, <2>2 DEF RaisesWithin
    <3> QED
      BY <1>1, <1>2, <2>2, <3>1, <3>2 DEF CreditInv, Credit
  <2> QED
    BY <2>1, <2>2
<1>9. LengthsInv'
  <2>1. Len(down'[c]) <= QueueCapacity
    BY <1>3, <1>4, ConstantFacts
  <2> QED
    BY <1>1, <1>4, <2>1 DEF LengthsInv
<1> QED
  BY <1>1, <1>5, <1>6, <1>7, <1>8, <1>9, MediaKept DEF FlowInv

\* No connection is accepted any more: nothing is attached, and what is left
\* to keep is the generation's own.
LEMMA LostEffect ==
  ASSUME ChannelTypes, NEW g \in Nat, TransportLost(g)
  PROVE  /\ accepted' \in SUBSET Outcomes /\ \A q \in accepted' : accepted' = {q}
         /\ \A q \in accepted' : \E o \in accepted : q.generation = o.generation
         /\ \A o \in accepted : \E q \in accepted' :
              q.generation = o.generation /\ q.media_admitted = o.media_admitted
<1>1. CASE accepted = {}
  BY <1>1 DEF TransportLost
<1>2. CASE accepted # {}
  <2>1. PICK o \in accepted : accepted = {o} /\ o \in Outcomes
    BY <1>2 DEF ChannelTypes
  <2>2. PICK no \in BOOLEAN : no = FALSE
    OBVIOUS
  <2> DEFINE q == IF o.generation = g THEN [o EXCEPT !.transport_live = no] ELSE o
  <2>3. accepted' = {q}
    BY <2>1, <2>2 DEF TransportLost
  <2>4. no \in BOOLEAN
    BY <2>2
  <2>5. /\ q \in Outcomes /\ q.generation = o.generation
        /\ q.media_admitted = o.media_admitted
    BY <2>1, <2>4 DEF Outcomes
  <2> HIDE DEF q
  <2> QED
    BY <2>1, <2>3, <2>5
<1> QED
  BY <1>1, <1>2

LEMMA PresenterConfirmsLossStep ==
  ASSUME StreamInv, PresenterConfirmsLoss
  PROVE  StreamInv'
<1> USE DEF StreamInv
<1> DEFINE c == bound
           g == conn[bound].generation
<1>1. /\ c \in Conns /\ conn[c].phase = "Failed" /\ TransportLost(g)
      /\ milestones' = milestones \union {"DETACHED"} /\ AdvanceRevision
      /\ UNCHANGED <<channel_generation, media_epoch, last_media_id, flow, lost>>
      /\ up' = [up EXCEPT ![c] = <<>>] /\ Becomes(c, "Closed") /\ bound' = None
      /\ UNCHANGED <<down, advance, sender, delivered>>
  BY DEF PresenterConfirmsLoss, Detach, StreamTypes
<1>2. g \in Nat
  <2>1. conn[c] \in Connection
    BY <1>1 DEF StreamTypes
  <2> QED
    BY <2>1, ConstantFacts DEF Connection
<1> HIDE DEF c, g
<1>3. /\ accepted' \in SUBSET Outcomes /\ \A q \in accepted' : accepted' = {q}
      /\ \A q \in accepted' : \E o \in accepted : q.generation = o.generation
      /\ \A o \in accepted : \E q \in accepted' :
           q.generation = o.generation /\ q.media_admitted = o.media_admitted
  BY <1>1, <1>2, LostEffect DEF StreamTypes
<1>4. revision' \in 1..MaxRevision
  BY <1>1, RevisionEffect DEF StreamTypes, ChannelTypes
<1>5. /\ conn' \in [Conns -> Connection] /\ conn'[c].phase = "Closed"
      /\ \A d \in Conns : /\ conn'[d].generation = conn[d].generation
                          /\ d # c => conn'[d] = conn[d]
  BY <1>1, BecomesTyped DEF Phases
<1>6. <<>> \in Seq(MediaRecords) /\ Len(<<>>) = 0
  OBVIOUS
<1>7. /\ up' \in [Conns -> Seq(MediaRecords)] /\ up'[c] = <<>>
      /\ \A d \in Conns : d # c => up'[d] = up[d]
  BY <1>1, <1>6 DEF StreamTypes
<1>8. StreamTypes'
  BY <1>1, <1>3, <1>4, <1>5, <1>7 DEF StreamTypes, ChannelTypes, Milestones
<1>9. GenerationInv'
  BY <1>1, <1>3, <1>5 DEF GenerationInv
<1>10. AttachInv'
  <2>1. AttachInv!1'
    BY <1>1, <1>5, <1>7, ConstantFacts DEF AttachInv
  <2>2. AttachInv!2'
    BY <1>1, <1>5, <1>7 DEF AttachInv, c
  <2>3. AttachInv!3'
    BY <1>1, <1>5, <1>7 DEF AttachInv
  <2>4. AttachInv!4'
    BY <1>1
  <2>5. AttachInv!5'
    BY <1>1, <1>5 DEF AttachInv, StreamTypes, Senders
  <2> QED
    BY <2>1, <2>2, <2>3, <2>4, <2>5 DEF AttachInv
<1>11. CreditInv'
  BY <1>1 DEF CreditInv, Attached
<1>12. MediaInv'
  <2>1. FirstMediaIsCurrent'
    BY <1>1 DEF MediaInv, FirstMediaIsCurrent
  <2>2. ASSUME NEW x \in delivered', x[1] = channel_generation'
        PROVE  \E o \in accepted' : o.generation = channel_generation' /\ o.media_admitted
    BY <1>1, <1>3, <2>2 DEF MediaInv
  <2> QED
    BY <1>1, <2>1, <2>2 DEF MediaInv, OneMediaConnectionPerGeneration
<1>13. LengthsInv'
  BY <1>1, <1>6, <1>7, ConstantFacts DEF LengthsInv
<1> QED
  BY <1>1, <1>8, <1>9, <1>10, <1>11, <1>12, <1>13 DEF FlowInv

LEMMA SenderNoticesLossStep ==
  ASSUME StreamInv, SenderNoticesLoss
  PROVE  StreamInv'
<1> USE DEF StreamInv
<1>1. /\ sender' = [sender EXCEPT !.conn = None]
      /\ UNCHANGED <<accepted, revision, channel_generation, milestones, media_epoch,
                     last_media_id, flow, lost>>
      /\ UNCHANGED <<conn, bound, up, down, advance, delivered>>
  BY DEF SenderNoticesLoss, channelVars, openVars, trackVars, trackState
<1>2. /\ sender' \in Senders /\ sender'.conn = None /\ sender'.flow = sender.flow
      /\ sender'.generation = sender.generation
  <2>1. sender \in Senders
    BY DEF StreamTypes
  <2> QED
    BY <1>1, <2>1 DEF Senders
<1>3. StreamTypes'
  BY <1>1, <1>2 DEF StreamTypes, ChannelTypes
<1>4. GenerationInv'
  BY <1>1, <1>2 DEF GenerationInv
<1>5. AttachInv'
  BY <1>1, <1>2, ConstantFacts DEF AttachInv
<1>6. CreditInv'
  BY <1>1, <1>2, CreditKept DEF StreamTypes
<1> QED
  BY <1>1, <1>2, <1>3, <1>4, <1>5, <1>6, MediaKept DEF FlowInv, LengthsInv

LEMMA AskAdvanceStep ==
  ASSUME StreamInv, AskAdvance
  PROVE  StreamInv'
<1> USE DEF StreamInv
<1>1. /\ advance' = "Asked" /\ sender.generation < MaxGeneration
      /\ UNCHANGED <<accepted, revision, channel_generation, milestones, media_epoch,
                     last_media_id, flow, lost>>
      /\ UNCHANGED <<conn, bound, up, down, sender, delivered>>
  BY DEF AskAdvance, channelVars, openVars, trackVars, trackState
<1>2. StreamTypes' /\ GenerationInv' /\ AttachInv'
  BY <1>1 DEF StreamTypes, ChannelTypes, GenerationInv, AttachInv
<1>3. CreditInv'
  BY <1>1, CreditKept DEF StreamTypes
<1> QED
  BY <1>1, <1>2, <1>3, MediaKept DEF FlowInv, LengthsInv

LEMMA PresenterAdvancesStep ==
  ASSUME StreamInv, PresenterAdvances
  PROVE  StreamInv'
<1> USE DEF StreamInv
<1> DEFINE s == sender.generation
<1>1. /\ advance = "Asked" /\ AdvanceChannel(s, s + 1)
      /\ UNCHANGED <<conn, up, down, sender, delivered>>
      /\ \/ track_result' = "Ok" /\ accepted' = {} /\ bound' = None /\ advance' = "Answered"
         \/ track_result' # "Ok" /\ accepted' = accepted /\ bound' = bound /\ advance' = "None"
  BY DEF PresenterAdvances, OpenAdvance, openVars
<1>2. /\ s \in Nat /\ s < MaxGeneration /\ channel_generation \in {s, s + 1}
      /\ \A c \in Conns : conn[c].generation <= s /\ conn[c].generation \in Nat
  <2>1. \A c \in Conns : conn[c] \in Connection
    BY DEF StreamTypes
  <2> QED
    BY <1>1, <2>1, ConstantFacts DEF GenerationInv, Connection
<1> HIDE DEF s
<1>3. CASE UNCHANGED trackState /\ track_result' # "Ok"
  <2>1. /\ UNCHANGED <<revision, channel_generation, milestones, media_epoch,
                       last_media_id, flow, lost>>
        /\ accepted' = accepted /\ bound' = bound /\ advance' = "None"
    BY <1>1, <1>3 DEF trackState
  <2>2. StreamTypes' /\ GenerationInv' /\ AttachInv'
    BY <1>1, <2>1 DEF StreamTypes, ChannelTypes, GenerationInv, AttachInv
  <2>3. CreditInv'
    BY <1>1, <2>1, CreditKept DEF StreamTypes
  <2> QED
    BY <1>1, <2>1, <2>2, <2>3, MediaKept DEF FlowInv, LengthsInv
<1>4. CASE /\ s = channel_generation /\ channel_generation' = s + 1
           /\ milestones' = {} /\ flow' = ClosedFlow /\ AdvanceRevision
           /\ UNCHANGED <<media_epoch, last_media_id, lost>>
  <2>1. revision' \in 1..MaxRevision
    BY <1>4, RevisionEffect DEF StreamTypes, ChannelTypes
  <2>2. /\ flow' \in Flow /\ flow'.sent_bytes <= flow'.max_bytes
        /\ flow'.sent_records <= flow'.max_records
    BY <1>4, NewFlowTyped, ConstantFacts DEF ClosedFlow
  <2>3. StreamTypes'
    BY <1>1, <1>2, <1>4, <2>1, <2>2 DEF StreamTypes, ChannelTypes
  <2>4. GenerationInv'
    <3>1. \A x \in delivered : x[1] <= s + 1
      <4>1. SUFFICES ASSUME NEW x \in delivered PROVE x[1] <= s + 1
        OBVIOUS
      <4>2. x[1] \in Nat
        BY DEF StreamTypes
      <4> QED
        BY <1>2, <1>4, <4>2 DEF GenerationInv
    <3>2. \A o \in accepted : o.generation <= s + 1
      <4>1. SUFFICES ASSUME NEW o \in accepted PROVE o.generation <= s + 1
        OBVIOUS
      <4>2. o.generation \in Nat
        BY DEF StreamTypes, ChannelTypes, Outcomes
      <4> QED
        BY <1>2, <1>4, <4>2 DEF GenerationInv
    <3>3. s + 1 <= MaxGeneration
      BY <1>2, ConstantFacts
    <3> QED
      BY <1>1, <1>2, <1>4, <3>1, <3>2, <3>3 DEF GenerationInv, s
  <2>5. \A c \in Conns : conn[c].generation < channel_generation'
    BY <1>2, <1>4
  <2>6. AttachInv'
    <3>1. AttachInv!1' /\ AttachInv!3' /\ AttachInv!5'
      BY <1>1, ConstantFacts DEF AttachInv
    <3>2. AttachInv!2'
      BY <1>1, <2>5
    <3>3. AttachInv!4'
      <4>1. SUFFICES ASSUME bound # None, accepted' = accepted, bound' = bound
                     PROVE  AttachInv!4'
        BY <1>1
      <4>2. PICK o \in accepted : o.generation = conn[bound].generation /\ o.transport_live
        BY <4>1 DEF AttachInv
      <4>3. sender'.generation < channel_generation'
        BY <1>1, <1>2, <1>4 DEF s
      <4> QED
        BY <1>1, <4>1, <4>2, <4>3
    <3> QED
      BY <3>1, <3>2, <3>3 DEF AttachInv
  <2>7. CreditInv'
    <3>1. ~Attached'
      BY <1>1, <1>2, <2>5 DEF Attached, StreamTypes
    <3> QED
      BY <3>1 DEF CreditInv
  <2>8. MediaInv'
    <3>1. ASSUME NEW x \in delivered PROVE x[1] # s + 1
      <4>1. x[1] \in Nat
        BY DEF StreamTypes
      <4> QED
        BY <1>2, <1>4, <4>1 DEF GenerationInv
    <3> QED
      BY <1>1, <1>4, <3>1 DEF MediaInv, FirstMediaIsCurrent, OneMediaConnectionPerGeneration
  <2>9. FlowInv' /\ LengthsInv'
    BY <1>1, <2>2 DEF FlowInv, LengthsInv
  <2> QED
    BY <2>3, <2>4, <2>6, <2>7, <2>8, <2>9
<1> QED
  BY <1>1, <1>3, <1>4 DEF AdvanceChannel, TrackRefuses, TrackReturns

LEMMA SenderAdvancedStep ==
  ASSUME StreamInv, SenderAdvanced
  PROVE  StreamInv'
<1> USE DEF StreamInv
<1> DEFINE s == sender.generation
           g == s + 1
<1>1. /\ advance = "Answered" /\ advance' = "None"
      /\ sender' = [sender EXCEPT !.generation = g, !.conn = None]
      /\ UNCHANGED <<accepted, revision, channel_generation, milestones, media_epoch,
                     last_media_id, flow, lost>>
      /\ UNCHANGED <<conn, bound, up, down, delivered>>
  BY DEF SenderAdvanced, channelVars, openVars, trackVars, trackState
<1>2. /\ s \in Nat /\ g \in Nat /\ channel_generation = g /\ bound = None
      /\ g \in 1..MaxGeneration /\ sender \in Senders /\ sender.flow \in Flow
      /\ \A c \in Conns : conn[c].generation <= s /\ conn[c].generation \in Nat
  <2>1. \A c \in Conns : conn[c].generation \in Nat
    <3>1. \A c \in Conns : conn[c] \in Connection
      BY DEF StreamTypes
    <3> QED
      BY <3>1, ConstantFacts DEF Connection
  <2>2. sender \in Senders /\ sender.flow \in Flow /\ s \in Nat
    BY ConstantFacts DEF StreamTypes, Senders
  <2>3. /\ channel_generation = g /\ bound = None /\ g \in 1..MaxGeneration
        /\ \A c \in Conns : conn[c].generation <= s
    BY <1>1, <2>1, <2>2, ConstantFacts DEF GenerationInv, StreamTypes
  <2> QED
    BY <2>1, <2>2, <2>3
<1>3. \A c \in Conns : conn[c].generation <= g
  BY <1>2
<1> HIDE DEF g
<1>4. sender' = [generation |-> g, conn |-> None, flow |-> sender.flow,
                 epoch |-> sender.epoch, media_id |-> sender.media_id]
  BY <1>1, <1>2, SenderSet
<1>5. /\ sender' \in Senders /\ sender'.conn = None /\ sender'.flow = sender.flow
      /\ sender'.generation = g
  BY <1>2, <1>4 DEF Senders
<1>6. StreamTypes'
  BY <1>1, <1>5 DEF StreamTypes, ChannelTypes
<1>7. GenerationInv'
  BY <1>1, <1>2, <1>3, <1>5 DEF GenerationInv
<1>8. AttachInv'
  BY <1>1, <1>2, <1>5, ConstantFacts DEF AttachInv
<1>9. CreditInv'
  BY <1>1, <1>2 DEF CreditInv, Attached
<1> QED
  BY <1>1, <1>5, <1>6, <1>7, <1>8, <1>9, MediaKept DEF FlowInv, LengthsInv

LEMMA LoseTrackStep ==
  ASSUME StreamInv, LoseTrack
  PROVE  StreamInv'
<1> USE DEF StreamInv
<1>1. /\ lost' = TRUE /\ milestones' = milestones \union {"LOST"} /\ AdvanceRevision
      /\ UNCHANGED <<channel_generation, media_epoch, last_media_id, flow, accepted>>
      /\ UNCHANGED <<conn, bound, up, down, advance, sender, delivered>>
  BY DEF LoseTrack, Lose, openVars
<1>2. revision' \in 1..MaxRevision
  BY <1>1, RevisionEffect DEF StreamTypes, ChannelTypes
<1>3. StreamTypes'
  BY <1>1, <1>2 DEF StreamTypes, ChannelTypes, Milestones
<1>4. GenerationInv' /\ AttachInv'
  BY <1>1 DEF GenerationInv, AttachInv
<1>5. CreditInv'
  BY <1>1, CreditKept DEF StreamTypes
<1>6. MediaInv'
  BY <1>1 DEF MediaInv, FirstMediaIsCurrent, OneMediaConnectionPerGeneration
<1> QED
  BY <1>1, <1>3, <1>4, <1>5, <1>6 DEF FlowInv, LengthsInv

-----------------------------------------------------------------------------
LEMMA InitHolds == StreamInit => StreamInv
<1>1. SUFFICES ASSUME StreamInit PROVE StreamInv
  OBVIOUS
<1>2. /\ accepted = {} /\ revision = 1 /\ channel_generation = 1 /\ milestones = {}
      /\ media_epoch = 0 /\ last_media_id = 0 /\ flow = ClosedFlow /\ lost = FALSE
      /\ conn = [c \in Conns |-> [phase |-> "Unused", generation |-> 0, nonce |-> None]]
      /\ bound = None
      /\ up = [c \in Conns |-> <<>>] /\ down = [c \in Conns |-> <<>>]
      /\ advance = "None" /\ delivered = {}
      /\ sender = [generation |-> 1, conn |-> None, flow |-> ClosedFlow,
                   epoch |-> 0, media_id |-> 0]
  BY <1>1 DEF StreamInit, ChannelInit
<1>3. /\ ClosedFlow \in Flow
      /\ ClosedFlow.sent_bytes <= ClosedFlow.max_bytes
      /\ ClosedFlow.sent_records <= ClosedFlow.max_records
  BY NewFlowTyped, ConstantFacts DEF ClosedFlow
<1>4. \A c \in Conns : /\ up[c] = <<>> /\ down[c] = <<>>
                       /\ conn[c].phase = "Unused" /\ conn[c].generation = 0
  BY <1>2
<1>5. /\ up \in [Conns -> Seq(MediaRecords)] /\ down \in [Conns -> Seq(RaiseRecords)]
      /\ conn \in [Conns -> Connection]
  <2>1. [phase |-> "Unused", generation |-> 0, nonce |-> None] \in Connection
    BY ConstantFacts DEF Connection, Phases
  <2>2. <<>> \in Seq(MediaRecords) /\ <<>> \in Seq(RaiseRecords)
    OBVIOUS
  <2> QED
    BY <1>2, <2>1, <2>2
<1>6. ChannelTypes
  <2>1. revision \in 1..MaxRevision /\ channel_generation \in Nat
    BY <1>2, ConstantFacts
  <2>2. /\ accepted \in SUBSET Outcomes /\ milestones \in SUBSET Milestones
        /\ lost \in BOOLEAN /\ \A o \in accepted : accepted = {o}
    BY <1>2
  <2> QED
    BY <1>2, <1>3, <2>1, <2>2 DEF ChannelTypes
<1>7. /\ sender \in Senders /\ sender.generation = 1 /\ sender.conn = None
      /\ sender.flow = ClosedFlow
  BY <1>2, <1>3 DEF Senders
<1>8. StreamTypes
  BY <1>2, <1>5, <1>6, <1>7 DEF StreamTypes
<1>9. GenerationInv
  BY <1>2, <1>4, <1>7, ConstantFacts DEF GenerationInv
<1>10. AttachInv
  BY <1>2, <1>4, <1>7, ConstantFacts DEF AttachInv
<1>11. FlowInv
  BY <1>2, <1>3, <1>7 DEF FlowInv
<1>12. CreditInv
  BY <1>2 DEF CreditInv, Attached
<1>13. MediaInv
  BY <1>2 DEF MediaInv, FirstMediaIsCurrent, OneMediaConnectionPerGeneration
<1>14. LengthsInv
  BY <1>4, ConstantFacts DEF LengthsInv
<1> QED
  BY <1>8, <1>9, <1>10, <1>11, <1>12, <1>13, <1>14 DEF StreamInv

LEMMA StreamStep ==
  ASSUME StreamInv, [StreamNext]_streamVars
  PROVE  StreamInv'
<1>1. CASE UNCHANGED streamVars
  <2>1. /\ UNCHANGED <<accepted, revision, channel_generation, milestones, media_epoch,
                       last_media_id, flow, lost>>
        /\ UNCHANGED <<conn, bound, up, down, advance, sender, delivered>>
    BY <1>1 DEF streamVars, channelVars, openVars, trackVars, trackState
  <2>2. StreamTypes' /\ GenerationInv' /\ AttachInv'
    BY <2>1 DEF StreamInv, StreamTypes, ChannelTypes, GenerationInv, AttachInv
  <2>3. CreditInv'
    BY <2>1, CreditKept DEF StreamInv, StreamTypes
  <2> QED
    BY <2>1, <2>2, <2>3, MediaKept DEF StreamInv, FlowInv, LengthsInv
<1>2. CASE \E c \in Conns : \/ \E nonce \in Nonces : SendOpen(c, nonce)
                            \/ PresenterOpens(c) \/ SenderAccepted(c)
                            \/ PresenterMedia(c)
                            \/ ConnFails(c)
  BY <1>2, SendOpenStep, PresenterOpensStep, SenderAcceptedStep, PresenterMediaStep,
     ConnFailsStep
<1>3. CASE \E body \in 1..MaxRecordBody, key \in BOOLEAN,
              epoch \in sender.epoch..MaxEpoch : SendMedia(body, epoch, key)
  BY <1>3, SendMediaStep
<1>4. CASE \E consumed \in BOOLEAN :
             LET bytes   == InitialBytes + IF consumed THEN flow.sent_bytes ELSE 0
                 records == InitialRecords + IF consumed THEN flow.sent_records ELSE 0
             IN bytes <= MaxFlow /\ records <= MaxFlow /\ PresenterRaises(bytes, records)
  <2>1. PICK consumed \in BOOLEAN :
          LET bytes   == InitialBytes + IF consumed THEN flow.sent_bytes ELSE 0
              records == InitialRecords + IF consumed THEN flow.sent_records ELSE 0
          IN bytes <= MaxFlow /\ records <= MaxFlow /\ PresenterRaises(bytes, records)
    BY <1>4
  <2> DEFINE bytes   == InitialBytes + IF consumed THEN flow.sent_bytes ELSE 0
             records == InitialRecords + IF consumed THEN flow.sent_records ELSE 0
  <2>2. flow.sent_bytes \in Nat /\ flow.sent_records \in Nat
    BY ConstantFacts DEF StreamInv, StreamTypes, ChannelTypes, Flow
  <2>3. bytes \in Nat /\ records \in Nat
    BY <2>2, ConstantFacts
  <2>4. bytes <= MaxFlow /\ records <= MaxFlow /\ PresenterRaises(bytes, records)
    BY <2>1
  <2> HIDE DEF bytes, records
  <2>5. bytes \in 0..MaxFlow /\ records \in 0..MaxFlow
    BY <2>3, <2>4, ConstantFacts
  <2> QED
    BY <2>4, <2>5, PresenterRaisesStep
<1> QED
  BY <1>1, <1>2, <1>3, <1>4, SenderRaisesStep, PresenterConfirmsLossStep,
     SenderNoticesLossStep, AskAdvanceStep, PresenterAdvancesStep, SenderAdvancedStep,
     LoseTrackStep
  DEF StreamNext

\* Every reachable state has the typed fields of ChannelOpenState, TrackState
\* and ChannelFlow (src/src/track.rs, src/src/resource.rs), and keeps the
\* relations between the producer's and the presenter's generation,
\* connection and flow that the theorems below read off.
THEOREM StreamInductive == StreamSpec => []StreamInv
BY InitHolds, StreamStep, PTL DEF StreamSpec

\* The fields of the channel, the track and the producer keep their types:
\* at most one stored CHANNEL_OPEN outcome, generations that differ by at
\* most the advance under way, and queues within their bound.
THEOREM StreamTyped == StreamSpec => []StreamTypeOK
<1>1. StreamInv => StreamTypeOK
  <2>1. SUFFICES ASSUME StreamInv PROVE StreamTypeOK
    OBVIOUS
  <2>2. \A o \in accepted : accepted = {o} /\ o.generation \in 1..MaxGeneration
    <3>1. SUFFICES ASSUME NEW o \in accepted
                   PROVE  accepted = {o} /\ o.generation \in 1..MaxGeneration
      OBVIOUS
    <3>2. o.generation \in Nat /\ accepted = {o}
      BY <2>1 DEF StreamInv, StreamTypes, ChannelTypes, Outcomes
    <3>3. 1 <= o.generation /\ o.generation <= channel_generation
      BY <2>1 DEF StreamInv, GenerationInv
    <3>4. channel_generation \in Nat /\ channel_generation <= MaxGeneration
      BY <2>1 DEF StreamInv, StreamTypes, ChannelTypes, GenerationInv
    <3> QED
      BY <3>2, <3>3, <3>4, ConstantFacts
  <2>3. /\ conn \in [Conns -> Connection] /\ bound \in Conns \union {None}
        /\ revision \in 1..MaxRevision /\ milestones \subseteq Milestones /\ flow \in Flow
    BY <2>1 DEF StreamInv, StreamTypes, ChannelTypes
  <2>4. sender.flow \in Flow /\ sender.conn \in Conns \union {None}
    BY <2>1 DEF StreamInv, StreamTypes, Senders
  <2>5. /\ channel_generation \in Nat /\ sender.generation \in 1..MaxGeneration
        /\ channel_generation \in {sender.generation, sender.generation + 1}
        /\ channel_generation <= MaxGeneration
    BY <2>1 DEF StreamInv, StreamTypes, ChannelTypes, GenerationInv
  <2>6. /\ channel_generation \in 1..MaxGeneration
        /\ sender.generation \in {channel_generation, channel_generation - 1}
    BY <2>5, ConstantFacts
  <2>7. \A c \in Conns : Len(up[c]) <= QueueCapacity /\ Len(down[c]) <= QueueCapacity
    BY <2>1 DEF StreamInv, LengthsInv
  <2> QED
    BY <2>2, <2>3, <2>4, <2>6, <2>7 DEF StreamTypeOK
<1> QED
  BY <1>1, StreamInductive, PTL

\* A producer that keeps to the allowance of the CHANNEL_ACCEPTED and the
\* MAX_CHANNEL_DATA it read is never refused for flow by ChannelFlow::admit:
\* everything in flight on the accepted connection still fits, whatever
\* raises are under way, lost or repeated, and however the open was retried.
THEOREM InFlightAlwaysFits == StreamSpec => []InFlightFits
<1>1. StreamInv => InFlightFits
  BY DEF StreamInv, CreditInv, Attached, Credit, InFlightFits
<1> QED
  BY <1>1, StreamInductive, PTL

\* ChannelOpenState::open refuses to attach a generation again once media
\* was admitted on it, so that over the life of a track the media of one
\* generation arrived on one connection.
THEOREM MediaOnOneConnection == StreamSpec => []OneMediaConnectionPerGeneration
<1>1. StreamInv => OneMediaConnectionPerGeneration
  BY DEF StreamInv, MediaInv
<1> QED
  BY <1>1, StreamInductive, PTL

\* The FIRST_MEDIA milestone of TrackState is set exactly when a record of
\* the current channel generation was accepted; advance_channel and
\* accept_channel never leave an old one behind.
THEOREM FirstMediaCurrent == StreamSpec => []FirstMediaIsCurrent
<1>1. StreamInv => FirstMediaIsCurrent
  BY DEF StreamInv, MediaInv
<1> QED
  BY <1>1, StreamInductive, PTL

\* Every action but the reading of a record leaves the records charged so
\* far, or starts a new flow.
LEMMA NotCharged ==
  ASSUME StreamInv, [StreamNext]_streamVars, \A c \in Conns : ~PresenterMedia(c)
  PROVE  flow'.sent_records = flow.sent_records \/ flow'.sent_records = 0
<1> DEFINE Goal == flow'.sent_records = flow.sent_records \/ flow'.sent_records = 0
<1>1. ASSUME UNCHANGED channelVars PROVE Goal
  BY <1>1 DEF channelVars, trackVars, trackState
<1>2. ASSUME NEW c \in Conns, PresenterOpens(c) PROVE Goal
  <2>1. CASE UNCHANGED trackVars
    BY <2>1 DEF trackVars, trackState
  <2>2. CASE AcceptChannel(conn[c].generation, InitialBytes, InitialRecords)
    <3>1. flow' = flow \/ flow' = NewFlow(InitialBytes, InitialRecords)
      BY <2>2 DEF AcceptChannel, TrackRefuses, trackState
    <3> QED
      BY <3>1, NewFlowTyped, ConstantFacts
  <2> QED
    BY <1>2, <2>1, <2>2 DEF PresenterOpens
<1>3. ASSUME NEW b, NEW n, b \in 0..MaxFlow, n \in 0..MaxFlow, PresenterRaises(b, n)
      PROVE  Goal
  <2>1. flow' = Raised(flow, b, n) /\ flow \in Flow
    BY <1>3 DEF PresenterRaises, RaiseMaxima, StreamInv, StreamTypes, ChannelTypes
  <2> QED
    BY <1>3, <2>1, RaisedTyped
<1>4. ASSUME PresenterAdvances PROVE Goal
  <2>1. flow' = flow \/ flow' = NewFlow(0, 0)
    BY <1>4 DEF PresenterAdvances, AdvanceChannel, TrackRefuses, trackState, ClosedFlow
  <2> QED
    BY <2>1, NewFlowTyped, ConstantFacts
<1>5. ASSUME PresenterConfirmsLoss \/ LoseTrack PROVE Goal
  BY <1>5 DEF PresenterConfirmsLoss, LoseTrack, Detach, Lose
<1>6. ASSUME NEW c \in Conns, (\E nonce \in Nonces : SendOpen(c, nonce))
                              \/ SenderAccepted(c) \/ ConnFails(c)
      PROVE  Goal
  BY <1>1, <1>6 DEF SendOpen, SenderAccepted, ConnFails
<1>7. ASSUME NEW consumed \in BOOLEAN,
             LET bytes   == InitialBytes + IF consumed THEN flow.sent_bytes ELSE 0
                 records == InitialRecords + IF consumed THEN flow.sent_records ELSE 0
             IN bytes <= MaxFlow /\ records <= MaxFlow /\ PresenterRaises(bytes, records)
      PROVE  Goal
  <2> DEFINE bytes   == InitialBytes + IF consumed THEN flow.sent_bytes ELSE 0
             records == InitialRecords + IF consumed THEN flow.sent_records ELSE 0
  <2>1. bytes <= MaxFlow /\ records <= MaxFlow /\ PresenterRaises(bytes, records)
    BY <1>7
  <2>2. flow.sent_bytes \in Nat /\ flow.sent_records \in Nat
    BY ConstantFacts DEF StreamInv, StreamTypes, ChannelTypes, Flow
  <2>3. bytes \in Nat /\ records \in Nat
    BY <2>2, ConstantFacts
  <2> HIDE DEF bytes, records
  <2>4. bytes \in 0..MaxFlow /\ records \in 0..MaxFlow
    BY <2>1, <2>3, ConstantFacts
  <2> QED
    BY <1>3, <2>1, <2>4
<1>8. ASSUME \E body \in 1..MaxRecordBody, key \in BOOLEAN,
                epoch \in sender.epoch..MaxEpoch : SendMedia(body, epoch, key)
      PROVE  Goal
  BY <1>1, <1>8 DEF SendMedia
<1>9. ASSUME SenderRaises \/ SenderNoticesLoss \/ AskAdvance \/ SenderAdvanced
      PROVE  Goal
  BY <1>1, <1>9 DEF SenderRaises, SenderNoticesLoss, AskAdvance, SenderAdvanced
<1>10. ASSUME UNCHANGED streamVars PROVE Goal
  BY <1>1, <1>10 DEF streamVars
<1> HIDE DEF Goal
<1>11. Goal
  BY <1>2, <1>4, <1>5, <1>6, <1>7, <1>8, <1>9, <1>10 DEF StreamNext
<1> QED
  BY <1>11 DEF Goal

LEMMA ChargeStep ==
  ASSUME StreamInv, [StreamNext]_streamVars, flow'.sent_records > flow.sent_records
  PROVE  /\ bound # None
         /\ conn[bound].generation = channel_generation
         /\ Len(up'[bound]) < Len(up[bound])
<1> USE DEF StreamInv
<1>1. flow \in Flow /\ flow.sent_records \in Nat
  BY ConstantFacts DEF StreamTypes, ChannelTypes, Flow
<1>2. PICK c \in Conns : PresenterMedia(c)
  BY <1>1, NotCharged
<1>3. /\ up[c] # <<>> /\ up[c] \in Seq(MediaRecords) /\ up \in [Conns -> Seq(MediaRecords)]
      /\ conn[c].generation \in Nat
  BY <1>2, ConstantFacts DEF PresenterMedia, StreamTypes, Connection
<1>4. /\ Len(up[c]) \in Nat \ {0} /\ Len(Tail(up[c])) = Len(up[c]) - 1 /\ Len(<<>>) = 0
  BY <1>3, HeadTailProperties, EmptySeq, LenProperties
<1>5. /\ conn[c].generation = channel_generation
      /\ up' = [up EXCEPT ![c] = Tail(up[c])] \/ up' = [up EXCEPT ![c] = <<>>]
  BY <1>1, <1>2
  DEF PresenterMedia, RecordGeneration, AdmitMedia, TrackRefuses, trackVars, trackState,
      RefuseRecord
<1>6. Len(up'[c]) < Len(up[c])
  BY <1>3, <1>4, <1>5
<1>7. c = bound
  BY <1>3, <1>5, ConstantFacts DEF AttachInv
<1> QED
  BY <1>5, <1>6, <1>7, ConstantFacts

\* Records on a transport that a channel advance or a retry replaced are
\* never charged to the flow window of TrackState: a step that charges reads
\* a record of the connection the presenter holds as accepted, opened for the
\* current generation.
THEOREM BoundConnectionCharged == StreamSpec => OnlyBoundIsCharged
<1>1. ASSUME StreamInv, [StreamNext]_streamVars
      PROVE  [flow'.sent_records > flow.sent_records =>
                /\ bound # None
                /\ conn[bound].generation = channel_generation
                /\ Len(up'[bound]) < Len(up[bound])]_streamVars
  BY <1>1, ChargeStep
<1> QED
  BY <1>1, StreamInductive, PTL DEF StreamSpec, OnlyBoundIsCharged
=============================================================================
