# A TLA+ model of the Vivid protocol library

This directory models the `vivid_protocol` crate (`src/src/*.rs`): what each of
its state machines keeps, what each operation does with it, which records its
decoders take and its encoders write, and what the programs on both ends of a
session can rely on when messages are delayed, repeated or lost. The
specifications are checked with TLC on small instances. TLAPS proves for every
value of the constants what TLC checks of the lease, the input session, the
track, the contexts and their session, the file drop, the overlay windows, the
connection, the two queues and the token bucket; the sections below say what
stays with TLC.

The crate is a library without threads of its own, but for the trace worker and
the lock that clones of a writer share. Its machines are plain structs changed
through `&mut self`, so one call is one atomic step, and the interleavings that
matter are those of the parties that make the calls: two clients competing for
one lease, a presenter and a producer across a lane, sessions and the host
sharing one window manager, principals of one session and the compositor. The
modules model the machines and, around them, those parties. In the writer and
the trace, where threads do meet inside the code, a call is many steps. Where the
crate does not say when a machine is called, the transitions of
`src/tests/model.rs` and `src/tests/file_drop_model.rs` and the protocol
documents do; such definitions are marked external in the map when the code
under `src/src` has no counterpart.

## The system

| Part | Source | State | Operations | Talks to |
|---|---|---|---|---|
| Session lease | `lease.rs` | lease state, revision, resume generation, stored attempt | activate, commit WELCOME, admit a record after HELLO, confirm loss, resume, revoke, expire | clients that open and resume a session |
| Input gate | `input.rs` | latest binding, active grant, grant and release generation | apply binding, renew, revoke, authorize | the injector; `InputGrant` |
| Presenter grant | `grant.rs` | a gate, watchdog, renewal sequence, reported generation | apply, revoke, due renewal, tag | the interactive lane |
| Track and channel | `track.rs` | accepted open, track revision, milestones, record order, flow | open, accept, admit media, advance, detach, lose | track and control connections |
| Channel flow | `resource.rs` | totals sent and allowed | admit, raise | both ends of a channel |
| Overlay windows | `overlay.rs` | windows, stack, focus and its history, hover, capture, queues | create, update, act, close, revoke, keys, pointer, wheel | sessions; the host |
| Contexts, reservations | `context.rs`, `resource.rs` | contracts, what is reserved, lifecycle, revision | create, reserve, release, revoke, close, expire | every principal |
| Retained scene | `scene.rs` | nodes, open transactions, revision | begin, mutate, commit, abort, surface cleanup | target, surfaces |
| Surface, target | `surface.rs`, `target.rs` | definition, revision, generation | replace, offer | input, scene |
| Idempotency | `idempotency.rs` | results by key | begin, complete, mark unknown | retried requests |
| File drop | `file_drop.rs` | gate, transfer flow | apply, admit, raise, advance | control, a connection per generation |
| Writer, reader | `wire.rs` | sequence, limit, flush state, shutdown flag | write, flush, set mode, set limit, shutdown, read | threads sharing one connection; the peer |
| Observations | `observation.rs` | mask, coalescing queue, pending gap | subscribe, push, drain | the control writer |
| Trace | `trace.rs` | bounded queue, loss count | emit, run, drop | any thread |
| Token bucket | `resource.rs` | tokens, remainder | replenish, wait, charge | a shaping sender |
| Records | `messages.rs`, `overlay/wire.rs`, and the payloads of the other files | none | decode, validate, encode | every connection |

The rest derives or lays out: bytes of CBOR, media payloads, keys, identities,
discovery, web and anchor bindings, text layout. It keeps no state across calls
and is not modelled.

What is hard in these parts, and what each should guarantee:

- **Lease.** Attempts compete and are retried after losses whose confirmation
  may overtake a record of the lost transport. Every opening must have one
  outcome and the lease one session, over any number of resumes.
- **Input.** Grants end on either side, in either order, with events, renewals
  and revocations in flight and a lane that fails unnoticed. No key may stay
  down after its grant, no grant may come back, and a presenter's revocation
  must take effect even if the lane delivers nothing.
- **Track.** Opens are retried on new connections while media, an acceptance
  and flow raises travel on old ones, and a channel advance overtakes them all
  on control. A generation must be fed by one connection, readiness must belong
  to the current generation, and a correct sender is never refused for flow.
- **Overlay.** Any event may overflow its owner's queue and revoke that owner in
  the middle of the call that sent it. Focus, stack, capture and what owners
  were told must agree afterwards, and sessions must not disturb each other.
- **Contexts, scene, surfaces, target, idempotency.** A commit is accepted now
  and presented later, after other commits, teardowns and retries. Budgets must
  not be granted twice, a commit must happen whole, once or not at all, and a
  teardown must take what it names and nothing else, also at the end of a
  counter.
- **File drop.** A transfer is resumed in a new generation with data, credit and
  a result of the old one in flight. Neither a byte nor the commit may be
  repeated or skipped, and credit that is lost must not leave both ends waiting.
- **Writer.** A shutdown does not wait for the lock, and a socket may call
  dropped bytes a success. `Ok` must mean sent, and shutdown must return.
- **Observations, trace.** Bounded queues lose by design; what is lost must be
  announced before what follows it, and a drop must drain.
- **Token bucket.** The promised wait must be exact, and rounding must not let
  more through than the contract.
- **Records.** Decoders, encoders and their validations are written apart; what
  one side may write the other must take.

## Modules

| Module | Models |
|---|---|
| `Lease` | `LeaseMachine`: one action per method |
| `LeaseAnswers` | the lease with its clients: `answers` is every outcome handed out |
| `SessionGrant` | abstract: one session, one opening per generation |
| `InputGate` | `InputGate` of `input.rs`: actions over its four fields |
| `InputGrant` | `InputGrant` of `grant.rs`: EXTENDS `InputGate`, its inner gate |
| `InputSession` | a presenter (INSTANCE `InputGrant`), a producer (INSTANCE `InputGate`), the lane between them and an injector |
| `InputConsent` | abstract: the epochs each side may be in, and the keys held under them |
| `TrackChannel` | `ChannelOpenState`, `TrackState`, `ChannelFlow` |
| `TrackStream` | a producer, its connections and the control connection around `TrackChannel` |
| `OverlayWindows` | `Windows` of `overlay.rs`, called by sessions and by the host |
| `Contexts`, `Scene`, `Surfaces`, `Idempotency` | `context.rs` with the reservation ledger; `scene.rs`; `surface.rs` with `target.rs`; `idempotency.rs` |
| `Authority` | the four together: the requests of a session's principals, commits that wait for the compositor, teardown |
| `FileTransfer` | `FileDropGate` and `FileTransferFlow` |
| `FileDrop` | one dropped file between a presenter and a producer around them |
| `FileDelivery` | abstract: a file arrives in order, whole or not at all, and is confirmed only then |
| `Connection` | `ConnectionWriter` with its threads, its transport and its shutdown; `ConnectionReader` |
| `ObservationQueue` | `ObservationQueue` between changing objects and a producer |
| `TraceQueue` | `TraceEmitter`, the worker, `TraceGuard` |
| `TokenBucket` | `TokenBucket` beside the bucket of the resource contract |
| `Records` | `StrictMap`: how a record's keys are read |
| `ControlRecords`, `SurfaceRecords`, `TrackRecords`, `FileDropRecords`, `OverlayRecords` | what decoders accept, encoders write and programs answer, for 42 kinds of record |
| `RecordExchange` | a record changed by a faulty or newer program, decoded and answered |
| `Collections` | maps with one more or another value; the elements of a list that `filter` and `retain` leave |
| `LeaseProofs`, `InputProofs`, `TrackProofs`, `AuthorityProofs`, `FileDropProofs`, `OverlayProofs`, `RecordProofs`, `StandaloneProofs` | theorems about `LeaseAnswers`, `InputSession`, `TrackStream`, `Authority`, `FileDrop`, `OverlayWindows`, `RecordExchange`, and the four components that stand alone (`Connection`, the two queues, `TokenBucket`) |
| `MC*` | constants for TLC (the input runs need no module of their own). `MCOverlayFamily` has two drives of one session's windows; `MCStandalone` drives one of four components that share no state |

In most modules a method is an action; its early returns are disjuncts that
refuse, and the value it returns is kept in a variable (`result`, `gate_result`,
`track_result`, `decision`, `reply`, `scene_result`). Where methods call each
other on a half-changed state, or a handler combines the methods of several
machines (`OverlayWindows`, `Contexts`, `Surfaces`, `FileTransfer`,
`ObservationQueue`, `TokenBucket`), a method is an operator from the state before
to the state after.

### Correspondence

- *Lease.* `attempt` is `Option<Attempt>` as a set of at most one record. The
  identity that `Attempt::exact` compares (attempt id, client nonce, HELLO hash)
  is one model value, as are the server nonce with the WELCOME bytes. Only
  whether the disconnect grace is zero is kept. `MaxRevision` stands for the
  last `u64`. As in the code, an operation that finds the revision exhausted
  reports it after its other fields were assigned.
- *Input gate and grant.* Class masks are sets, time counts ticks, one desktop
  surface is named by its generation. Generations end at `MaxGeneration`, and
  what the code refuses then, the model refuses. In `Eligibility`, the
  conditions that one bit carries are represented by `focused`.
- *Input session.* `up` and `down` are the records in flight on the lane;
  `LaneFails` loses both, and each side notices in a step of its own. `held` is
  the key an injector holds, with the tuple and the release generation of its
  press; `StillHeld` releases it when the gate's release generation has moved
  (the injector is outside the crate, and `StillHeld` is external). The producer
  revokes by itself only what it holds, as in `tests/model.rs`. A retry repeats a
  binding exactly; that an equal epoch with other contents is refused is in
  `ApplyBinding`, but the session sends none. `spent` is history.
- *Track.* The nonce and hash of a CHANNEL_OPEN are one value; milestones are a
  set of the bits these operations set. `conn` is the life of each connection;
  `bound` is the one the presenter reads from. The producer keeps to the
  allowance it was given; what it sends and when is otherwise free.
- *Overlay.* Geometry is left out: a pointer report says which windows it hits,
  whether it drags and whether it is outside the foremost popup. A queued event
  keeps its window, its scene revision and a class. Byte and event limits of a
  queue are one limit. `told_focus` and `told_hover` are history: which windows
  were told that they have the focus or the pointer. A generation that does not
  match is refused like a revision that does not match, and is left out. A drag
  whose bounds would not be finite changes nothing in the code, and is left out.
- *Authority.* A contract is an amount per resource; operation classes are the
  two that the handlers check. A node is the surface it shows, a surface's
  definition is its profile, coordinate mapping, sticky policy and validity. A
  commit is accepted, with its key, by `RequestCommit` and takes effect in
  `Present`; `Interrupt` is a presenter that lost a job and marks it unknown.
  `Scene` has no setter for the target generation it compares with: the crate
  gives it at construction, and so does the model. `applied` and `told` are
  history.
- *File drop.* Control keeps order, each generation has a connection. What is
  sent up may overtake (credit and result are a set, the latest record counts),
  what is sent down keeps order. A lost connection drops what goes down and lets
  any part of what goes up arrive. A byte is named by its place in the file. The
  overflow of the `u64` totals is left out.
- *Connection.* A record is a header unit and one unit per piece of its body; a
  native transport carries a unit to the wire or, once shut down, may swallow it
  and call that a success; an adapter keeps units until a flush and loses them
  when it is closed. A call begins when it takes the lock: what it looked at
  before, it looks at again. Limits are never above the reader's, as they are
  negotiated.
- *Observations.* A payload is the version of its object, modulo `Versions`; the
  producer believes what it last read, and asks again for what a gap names.
- *Trace.* Adding to the queue and counting a loss are two steps, and so are the
  worker's taking of a record and its look at the loss count. A callback may
  drop the guard.
- *Token bucket.* A second has `Second` instants in place of 10^9 nanoseconds;
  `MaxEarned` is the end of `u64`. `contract` is the continuous bucket of the
  resource model, in parts of a token.
- *Records.* A record is a function from field names to numbers. Integers are 0
  to 5 and `Widest`, which exceeds 32 bits; the code's limits are moved into
  that range with their order kept. A text or an array is a number that says
  which of the texts the rules tell apart it is; a nested map is flat, its keys
  carry its name. The encoding of a value in bytes is left out; presence,
  unknown keys, order, types, bounds and the relations between keys are kept.

## Runs

| Run | Question | Bounds |
|---|---|---|
| `lease` | one outcome per opening, one session, refinement | 2 attempts, 2 profiles, 2 WELCOMEs, sessions 0 to 2, revision 9: two complete suspensions and resumes, then exhaustion |
| `input` | held keys, no implicit restoration | 2 epochs, 2 surface generations, generations to 3 (exhausted), 4 instants, 2 records in flight each way, 1 loss |
| `input_live` | narrowing; a stale grant ends and is not revived | 2 classes, capability of one, 2 epochs, 5 instants, a watchdog of 2, 1 record in flight, 1 loss |
| `track` | flow, attachment, readiness | 3 connections, 2 generations, 2 media records, allowance 2, revision exhausted at 4 |
| `overlay_family` | stacking, capture, focus told; coalescing loses nothing | a window and a popup or modal on it, 3 queued events, 3 revisions; one window, 2 scene revisions, 2 queued events, the pointer |
| `overlay_pointer` | isolation of two sessions, modal input | a modal against a modal, popup or floating window, 1 queued event, 2 revisions, 1 button |
| `authority` | delegation, atomic and single effect, teardown, definitions named | 2 contexts under the root or each other, a surface and a node each, 2 keys, a cache of 1, 2 mutations, scene revision exhausted at 2, 6 requests |
| `file_drop` | resumption, single commit, grants named, the transfer ends | files of 0 and 2 bytes, 2 bindings, 2 generations, credit of none or one byte at the start |
| `records` | what is accepted can be written back and is answered acceptably | 41 kinds of record, 2 faults per exchange |
| `standalone` | writer and reader; observations; trace; bucket | 2 threads, 3 sequences, batches of 2, 2 failures; 4 objects for 2 places; 2 emitters, 5 records for 2 places; rates to 3 of 4 instants, charges to 4 |
| `input_generation`, `overlay_focus` | disagreements, below | as above, smaller |

The bounds reach what the properties are about. A lease needs one resume to
have an attempt of an older generation and a second to match it wrongly. Two
epochs give a grant that ended and one that replaced it; two surface
generations an event for a surface that is gone; generations of 3 run out within
a run. Three connections give a first open, a retry and a successor in the next
generation. Overlay queues of one to three events are no longer than what a
single call sends (cancel, focus lost, dismissed), so that every prefix of a
call can be the one that overflows; revocation of another session in the middle
of a call needs two sessions, and stacking needs a child. Two contexts and two
keys give a rival for every budget and a second request for a cache that is
full; six requests are enough for a surface, a transaction with two mutations
and a commit between whose acceptance and presentation something else happens.
The target's two descriptors differ in geometry, so that settling without another
change does not occur in that run; the theorem about definitions covers it.
A file of two bytes is split between two generations, and the empty one finishes
without data. Two faults reach every pair of rules about two keys. Three
sequences are a record before, in and after a failure, or the exhaustion of the
sequence. Two dropped observations of different classes need four objects for
two places. The scene of `overlay_family` is limited by a state constraint; it
has no liveness property. The lease, track and authority runs use symmetry over
model values that no property orders; runs with a liveness property use none.

Every property of a run has a mutant: a plausible bug in one mapped definition
(kept beside it, marked as such) under which TLC refutes the property. The type
invariants (`LeaseTypeOK`, `TypeOK`, `StreamTypeOK`, `OverlayTypeOK`,
`AuthorityTypeOK`) hold in the same instances, and are stated as the types the
proofs start from rather than as results of a run.

`CHECK_DEADLOCK FALSE` is set for all but the lease: the input model stops when
time and epochs run out, tracks, requests, transfers and connections when they
are used up, an exchange of records with its last answer, and the window manager
may have nothing to do.

### Fairness

- `StaleGrantEnds` (`input_live`). Its first part is safety: what arrives after a
  grant's deadline, a late renewal above all, does not move that deadline; five
  instants let a renewal be sent in time and arrive too late with room for a new
  deadline. For the second part `FairSpec` assumes weak fairness of `Tick`, as
  time passes whatever the programs do, and of `ProducerWatchdog`, as an enabled
  binding "starts the producer's local watchdog"
  (`vivid-protocol-1.5-desktop-surface.md:193`), which release relies on where
  events are lost (line 242: "Security does not depend on event delivery").
  Nothing is assumed of the lane, of the presenter or of the reader of the lane.
- `TransferEnds` (`file_drop`). Each program acts on what arrives, the producer
  gives credit and recovers a lost connection, the presenter opens, sends and
  finishes. Nobody has to cancel, bind again or give up a connection that works;
  only `MaxTransferGeneration - 1` connections are lost.
- `ShutdownReturns` (`standalone`). Only the thread that shuts down is scheduled;
  the writers may stay blocked and the reader need not read.
- `DropDrains` (`standalone`). The worker and the dropping thread are scheduled
  and the callback returns. Waiting for room for the shutdown message needs only
  weak fairness, as emitters are bounded (`MaxRecords`): emitters that fill every
  place as soon as it is free could starve a drop without end.

All other properties are safety and hold without fairness.

### Disagreements and limits

Two runs show code that does something else than a document or a test says;
each checks that statement alone and TLC refutes it.

- `input_generation`: producer and presenter count grant generations
  independently. The producer's watchdog ends epoch 1 at the gate while the result
  of the next binding is on its way; both sides then hold epoch 2, the presenter
  under generation 2 and the gate under 3, and the gate refuses every event of it,
  where `vivid-protocol-1.5-desktop-surface.md:320` has the two equal. The run
  needs no loss of the lane. `tests/model.rs:552` calls a difference after a
  revocation a violation, but revokes at both sides in one step.
- `overlay_focus`: `change_focus` assigns the window chosen before the events
  that may have revoked its owner. The focus then names a window that does not
  exist, and a window created later under that identity has it untold.

Others were met while modelling, and the model does what the code does:

- A disabling binding advances the gate's generation but not the cached one, so
  `grant_generation()` is not the last generation observed (`grant.rs:130`, 168).
- `advance_channel` keeps the media epoch and record id, so the first record of
  a recovered channel may be a delta (`track.rs:999`);
  `vivid-protocol-1.5-media.md:561` says it is a key packet. At line 431 bits 0
  to 8 reset on an advance, where the code clears bits 9 and 10 as well.
- `create` and `update` change the window before the request for focus that may
  fail (`overlay.rs:576`), so a refused popup or modal exists, against the test at
  line 2022.
- OVERLAY_ENV_CHANGED is decoded with revision zero (`overlay/wire.rs:1109`),
  which `vivid-protocol-1.5-overlays.md:560` and its own encoder exclude; that
  kind is therefore not in `records`, whose `Lossless` it violates.
- ADVANCE_FILE_TRANSFER takes credit below one record's body that the encoder of
  FILE_TRANSFER_OPEN then refuses. HELLO's required profiles may find their
  prerequisites among the optional ones only. Several encoders check nothing
  (file drop grants and acceptances, lane and channel opens, authentication
  fields, a target's parameters); `Encodes` is then true of them.
- The comment at `wire.rs:616` has the thread that holds the lock close its
  transport after a shutdown. A holder in `flush`, `set_flush_mode` or
  `set_send_body_limit`, or past its last look, does not: the writer refuses
  every later call but keeps its transport. A write that fails in the middle
  leaves the writer open, and the next record begins inside the torn one; hence
  `FramesRead` is about connections without a failure.
- Trace losses after the last record received are never marked, and a callback
  that drops the guard discards the queue, where `README.md:74` has a guard's
  drop drain it; `DropDrains` is about a drop by the owner.
- A full token bucket keeps the remainder it earned (`resource.rs:256`), so that
  a sender exceeds the bucket of
  `vivid-protocol-1.5-security-and-resource-model.md:300` by less than one token:
  full, wait 1, charge 1, wait 3, charge 1 with a second of 4 instants. The
  property states the bound that holds.
- A grant whose generation is the last cannot be revoked: `InputGate::revoke`
  refuses and `InputGrant::revoke` drops the error (`grant.rs:224`). Properties
  about the end of a grant are stated below the exhaustion.

## Proofs

Each module of proofs is about one component and its surroundings, for every
value of the constants that its assumptions allow. An invariant that a run checks
is proved from an inductive one that is stronger, in parts with names; there is a
lemma for what a step leaves alone, one for each action, and one that collects
them. Of the three refinements, a run
checks the lease's; the other two, `ImplementsConsent` and `ImplementsDelivery`,
are stated beside their specifications and are theorems only.

| Module | Theorem | Says |
|---|---|---|
| `LeaseProofs` | `LeaseStructure`, `AnswersInvariant` | `LeaseInv` and `AnswersInv` always hold |
| | `AttemptsAreCurrent` | types; a stored attempt is of the current generation |
| | `AnswersAgree` | `ClientsAgree`: one outcome per opening, one logical session |
| | `ReplaysPrecedeAdmission` | a replay is never handed out after admission |
| | `LeaseImplementsSessionGrant` | refinement of `SessionGrant` |
| `InputProofs` | `InputAlways`, `InputTypes` | `InputInv` always holds, and with it the types |
| | `KeysUnderGrant`, `KeysOnSurface` | `HeldUnderItsGrant`, `HeldOnCurrentSurface` |
| | `GrantedOnce` | `EpochGrantedOnce`, on both sides |
| | `GateFollowsPresenter` | `GateGrantIsPresenters` |
| | `SessionImplementsConsent` | refinement of `InputConsent` |
| `TrackProofs` | `StreamInductive`, `StreamTyped` | `StreamInv` always holds, and with it the types |
| | `InFlightAlwaysFits` | `InFlightFits` |
| | `MediaOnOneConnection` | `OneMediaConnectionPerGeneration` |
| | `FirstMediaCurrent` | `FirstMediaIsCurrent` |
| | `BoundConnectionCharged` | `OnlyBoundIsCharged`, of every step |
| `AuthorityProofs` | `Covered` | `DelegationCovered` |
| | `OnceApplied` | `AppliedOnce` |
| | `NamedOnce`, `TeardownIsContained` | `DefinitionNamed` and `TeardownContained`, of every step |
| | `CommitsAreWhole` | `AllOrNothing`, of every step |
| `FileDropProofs` | `FileAlways` | `FileInv` always holds |
| | `ResumedExactly` | `ResumesExactly` |
| | `CommittedOnlyOnce` | `CommittedOnce` |
| | `GenerationNamesGrant` | `GrantNamedOnce` |
| | `FileDropImplementsDelivery` | refinement of `FileDelivery` |
| `OverlayProofs` | `OverlayInvariant`, `WindowsTypeOK` | `OverlayInv` always holds, and with it the types and limits |
| | `StackAboveParents` | `StackedAboveParents` |
| | `CaptureStaysVisible` | `CaptureVisible` |
| | `FocusIsTold`, `HoverIsTold` | `FocusTold`, `HoverTold` |
| | `OwnersIsolated` | `OwnerIsolation`, of every step |
| | `NoEventDropped` | `NoTransitionDropped`, of every step |
| | `ModalHears` | `OnlyModalHears`, of every step |
| `RecordProofs` | `DecodedIsLossless` | `Lossless` |
| | `AnswersUnderstood` | `Understood` |
| `StandaloneProofs` | `ConnectionTyped` | types |
| | `ConnectionOkMeansSent` | `OkMeansSent` |
| | `ConnectionFlushedInTime` | `FlushedInTime` |
| | `ConnectionFramesRead` | `FramesRead` |
| | `ObservationBeliefSound` | `BeliefSound` |
| | `ObservationLatestWins` | an object has one entry at most, of its present version |
| | `TraceLossMarked` | `LossMarked`, and that every loss is accounted for |
| | `BucketPaced`, `BucketWaitExact` | `PacedWithinAToken`, `WaitExact` |

### Assumptions

Assumptions are about constants only. Bounds and limits are natural numbers,
positive where the code's are; `None` and `Absent` are no binding, grant, call,
thread, number or profile. Beyond that: a lease has at least two revisions
(`LeaseAssumption`); a surface's capability is made of classes
(`SessionAssumption`); a channel's first allowance admits a record of the
greatest body (`StreamAssumption`); the amounts asked for have a greatest one,
which the root's contract grants (`AuthorityAssumption`); initial credits may be
anything, none included (`FileDropAssumption`); there are finitely many sessions,
each window belongs to one, and what may be asked of a window is a mode and
perhaps a parent (`OverlayAssumption`, `NoneAssumption`). TLC evaluates each one in a run.
`DecodedIsLossless` alone has a hypothesis of its own, that OVERLAY_ENV_CHANGED is
not among the kinds exchanged: it is the one kind that is read with a value that is
not written (a revision of zero, see the disagreements above), as in `records`.
`AnswersUnderstood` includes that kind.

### Lease

The argument has two layers. `LeaseInv` is about the machine alone. Its types
are not inductive by themselves: `begin_resume` adds one to the resume
generation unchecked by anything but the revision, which is checked separately.
`ResumeBehindRevision` carries that: every resume follows a reservation, a
commit and a suspension, each of which advanced the revision unless it was
exhausted, so three times the generation stays behind the revision. The other
parts say that an attempt exists exactly in the reserved and active states, is
of the lease's session and current generation, and is admitted only when
active.

`AnswersInv` relates the machine to what clients know: they know of generations
the lease has left behind and, while an attempt is stored, of exactly its
outcome. A fresh decision is therefore the first of its generation, and an exact
replay repeats an answer already given. `AnswersStep` proves invariance and the
refinement together, one lemma per kind of call; a step of the lease is the step
of the grant it implements or leaves the mapped state alone.

### Input session

`PresenterInv` and `ProducerInv` say the same of the two gates: the grant is for
the last binding applied (`ForLatest`), and no epoch whose grant ended is past
that binding or held again (`NotAgain`). `EpochGrantedOnce` needs the first
half of `NotAgain` to be inductive, as a late binding is refused only for its
epoch. The keys need the releases: everything held carries the gate's present
release generation, so whatever advances that generation lets go of it, and
there are fewer releases than grants while a grant is held. The latter is why a
revocation can fail only when the grants run out, where `HeldOnCurrentSurface`
ends; without it an exhausted release could leave a key on an old surface.

The two machines are related only through the epochs that the presenter has
granted (`Granted`), a set that no step shrinks. A result on the lane that
carries classes is for such an epoch and within the capability (`Sound`), and
stays so however late it arrives or whatever the presenter has revoked since.

`InputConsent` knows no bindings, lane or time: each side goes from epoch to
greater epoch, the gate only to one that was granted, and keys are let go in the
step that leaves their epoch. `StepConsents` shows the refinement for any two
states with `InputInv`, given three facts about the step between them: it
accounts for the epochs it ends (`Accounted`), moves one side only (`Alone`), and
presses a key only while the gate stays as it is (`Presses`).

### Track

A generation is behind the channel's by at most the advance that is in flight
(`GenerationInv`). `AttachInv` says which connections can still matter: one that
is accepted, bound or has media in flight is the one the presenter reads or is
of a generation that was left. `CreditInv` concerns only that one, which is what
makes it survive connections that are lost with raises and media in them: the
media in flight fits what the presenter allows, and, added to what the presenter
has counted, is no more than the producer has counted.
`FlowInv` and `MediaInv` follow step by step.

### Contexts and their session

`DelegationCovered` compares sums over the children of a context, counted as
units (`UnitsOf`): a set of pairs whose cardinality is the sum, so that adding
and removing a child is adding and removing a set. With that the property is
inductive together with the types and a root that keeps its contract.

`AppliedOnce` needs `KeyState`: what a key's stored result says is what its
history says, case by case, and at most one job waits for a key and only while
its result is open. A key that a full cache refused has no history.

`DefinitionNamed` and `TeardownContained` are about steps and need the types of
surfaces and target only; the lemmas say what a replacement and a cleanup return.

`AllOrNothing` is about a loop: a commit runs its mutations one by one on a copy.
By induction over the mutations the copy is, after each, what the last mutation
of every node so far tells (`NetUpTo`), provided nodes and queued mutations have
their types (`SceneInv`); so the copy that replaces the scene is the net effect
of the whole transaction.

### File drop

Offer, acceptance and advance take turns: at most one message of the handshake
is on control, in either direction (`Turn`), and `ProducerHears` and
`PresenterHears` say how far the two ends are apart when it arrives, cancelled
meanwhile or not. While data flows, `InFlight` has the k records on the
connection follow one another from the receiver's offset to the sender's and
make up the difference between their counts of records and bytes; after them
comes nothing but the end. Credit in flight is never more than the receiver
gave. A connection that is lost takes the difference with it, and the advance
that follows states it again from the receiver's side, which is
`ResumesExactly`. Grants are unique because every generation that was told,
waits on control or is stored was issued at a smaller or equal generation
(`GrantsInv`).

`FileDelivery` knows neither generations nor connections: bytes arrive in order,
the whole file is committed or none of it kept, and the presenter confirms only
what was committed. `FileDrop` implements it: a step of the presenter moves only
the outcome (`PresenterSide`), one of the producer only its file
(`ProducerSide`), and `FileInv` before and after the step says which abstract step
it is. The refinement needs one more invariant, `OfferInv`: no cancellation comes
before the offer of its drop, or a producer that gave up would begin again. What
a producer that gave up had stored counts as nothing, as the document of the
profile has it; in `FileDrop` a cancellation empties it, after a status it is only
never used again.

### Overlay windows

A call runs private functions on one state, each of which may send an event that
overflows its owner's queue, so nearly every lemma is about one function of the
module, from any state `u` that has the invariant to the state it returns; an
action composes them as the code does, and one lemma for each follows from
theirs. What a function returns is described by relations that compose:
`Follows` (windows stay as they are, or go with an owner that is now reported as
overflowed and has none left; queues are continued; the capture is kept or given
up), `Heard` and `Pointed` (and what owners heard of the focus, and of the
pointer, is true), `Kept` (and windows are closed), `Served` and `Passed` (what a
session's or the host's call does to others' windows and to all queues).

`OverlayInv` has four parts. `Base` is the structure: types, families of windows
of one owner whose parents exist (`Families`), and a stack that lists each window
once and after its parent (`Stacked`). Parents before children make the walk up
the parents end, which is what stacking above every ancestor, and visibility
through them, rest on; the code stops after `MAX_WINDOWS` steps. `FocusHeard`,
`HoverHeard` and `CaptureSeen` are three of the properties, and need `Base`:
a capture survives a hidden or closed family only if all of it was found by the
walk.

Four loops are inductions over their turns (`Turns`): the revocations that follow
one another while the focus is restored, closing a family from the foremost
window down, taking the capture from a hidden family, and the walks along the
stack. A loop's state after n turns is a recursive function of n, whose existence
is a lemma of its own.

### Connection

`SentInv` follows the call that holds the lock: how many of its units the stream
ends with, until a shutdown is requested; past that point a write that has not
got to its flush is refused, and nothing is said of the stream. An answered record is on the wire or,
in an adapter that is open, in its buffer. `FlushInv` compares the records that
wait with the count the writer keeps, which may be higher after flushes that
failed, never lower. `FramesInv` describes the stream as whole records in
sequence up to the one in progress, and puts the reader at the place in it that
its own counters give.

### Records

Both properties are about one record at a time, so nothing is needed from one
step to the next but that a record in transit is of a kind exchanged and has its
header (`RecordShape`); whatever faults did to it before is covered by taking any
record that the decoder accepts.

For `DecodedIsLossless` the fields a writer leaves out, because they hold what
their absence means, must neither be required by the schema nor tell a rule
something else when absent (`DefaultWritten`, `ReadsLess`): the preconditions of
an envelope, the direction of a track, the click and pressure of a pointer event
that go together or not at all, the defaults of a node of a semantic tree, whose
keys must not be another field's or another node's (`DefaultsApart`).

`AnswersUnderstood` goes through the answers: what is taken over from an accepted
record, under the weakest rules by which it was accepted, must meet the rules of
the answer and the types of its schema (`GrantsDecode` to `StatusAnswersOf`, one
lemma for each kind of answer). The widths and limits are those of `Records`: 0 to
5 and the widest stand for a `u64`. Within that abstraction the proof is for every
record, not only for those that the faults of the run reach.

### Queues and bucket

In the observation queue an object has one entry at most, and it tells what the
object is now; whatever the producer believes wrongly has an entry or falls into
the pending gap. The trace's losses are conserved: those counted are in the
count, in the worker's hand or marked, at each of the unsynchronised steps. A
bucket's tokens and remainder together are ahead of the contract's by less than
one token; exactness of the wait is arithmetic about that remainder.

### What stays with TLC

- Liveness: `StaleGrantEnds`, `TransferEnds`, `ShutdownReturns`, `DropDrains`.
- `ModalNotStolen`: it holds of the families of windows in `overlay_pointer`, but
  not of all. A modal that becomes the top one because its hidden floating parent
  is shown does not take the focus; another session's close may then move the
  focus from a window outside that modal, or take it from a window that is no
  longer eligible.

## Not modelled

- Bytes: canonical CBOR, headers, media, vector and timed payloads, key tables,
  URLs, escape sequences, environment variables. They are functions of their
  input without state, over data far wider than TLC enumerates.
- Key derivation and authentication tags; identities are model values.
- Geometry, text layout and styling: floating point and fixed point arithmetic.
- Of `track.rs`, the milestone bits that decoders and timed playback set, and of
  the input lane its authentication and opening; their records are in
  `TrackRecords` and `ControlRecords`.
- Of `wire.rs`, the opening of a transport, the preface, read deadlines and a
  later change of the receive limit.
- The contents of trace records, of `Windows` the semantic tree and cursors.

## Plan

Done, in the order of importance: lease with its abstract grant and proofs;
input gate, grant and session; track channel and stream; overlay windows;
authority; file drop; connection; records; observation queue, trace, token
bucket. Proofs of all of these. The lease, the input session and
the file drop are shown to implement abstract specifications.

What would add most next: abstract specifications of a track's delivery (what is
acknowledged was within its allowance, once, on the connection of its generation)
and of the compositor's view of a scene (whole transactions, in order), with
`StreamInv` and `SceneInv` as the invariants of the refinements.
