---------------------------- MODULE RecordExchange ----------------------------
(***************************************************************************)
(* One record on its way between two programs.  A program builds it, a     *)
(* faulty or a newer one may change up to MaxChanges of its values, leave  *)
(* keys out or add one, and a program that decodes it answers.             *)
(***************************************************************************)
EXTENDS FileDropRecords, ControlRecords, SurfaceRecords, TrackRecords, OverlayRecords

CONSTANTS
  MaxChanges,      \* bound: faults between a record built and one answered
  Kinds            \* the kinds of record exchanged

VARIABLES
  record,          \* [kind, fields], in transit
  changes,         \* faults so far
  built            \* whether it is as a program built it

recordVars == <<record, changes, built>>

Decodes(r) ==
  CASE r.kind \in FileDropKinds -> FileDropDecodes(r.kind, r.fields)
    [] r.kind \in ControlKinds -> ControlDecodes(r.kind, r.fields)
    [] r.kind \in SurfaceKinds -> SurfaceDecodes(r.kind, r.fields)
    [] r.kind \in OverlayKinds -> OverlayDecodes(r.kind, r.fields)
    [] OTHER -> TrackDecodes(r.kind, r.fields)

Encodes(r) ==
  CASE r.kind \in FileDropKinds -> FileDropEncodes(r.kind, r.fields)
    [] r.kind \in ControlKinds -> ControlEncodes(r.kind, r.fields)
    [] r.kind \in SurfaceKinds -> SurfaceEncodes(r.kind, r.fields)
    [] r.kind \in OverlayKinds -> OverlayEncodes(r.kind, r.fields)
    [] OTHER -> TrackEncodes(r.kind, r.fields)

\* A decoded record, encoded again.
Written(r) ==
  [r EXCEPT !.fields =
     CASE r.kind = "CONTROL" -> WrittenEnvelope(@)
       [] r.kind \in TrackKindsOfRecord -> WrittenTrack(@)
       [] r.kind \in OverlayKinds -> OverlayWritten(r.kind, @)
       [] OTHER -> @]

Answers(r) ==
  CASE r.kind \in FileDropKinds -> FileDropAnswers(r.kind, r.fields)
    [] r.kind \in ControlKinds -> ControlAnswers(r.kind, r.fields)
    [] r.kind \in SurfaceKinds -> SurfaceAnswers(r.kind, r.fields)
    [] r.kind \in OverlayKinds -> OverlayAnswers(r.kind, r.fields)
    [] OTHER -> TrackAnswers(r.kind, r.fields)

Openings ==
  FileDropOpenings \union ControlOpenings \union SurfaceOpenings \union TrackOpenings \union
  OverlayOpenings

RecordInit ==
  record \in {r \in Openings : r.kind \in Kinds} /\ changes = 0 /\ built = TRUE

Fault ==
  changes < MaxChanges /\ changes' = changes + 1 /\ built' = FALSE

Change ==
  /\ Fault
  /\ \E f \in DOMAIN record.fields, v \in Values :
       v # record.fields[f] /\ record' = [record EXCEPT !.fields[f] = v]

Omit ==
  /\ Fault
  /\ \E f \in DOMAIN record.fields \ {"header"} :
       record' = [record EXCEPT !.fields = Restrict(@, DOMAIN @ \ {f})]

Extend ==
  /\ Fault
  /\ "unknown" \notin DOMAIN record.fields
  /\ record' = [record EXCEPT !.fields = [unknown |-> 1] ++ @]

Answer ==
  /\ Decodes(record)
  /\ record' \in {r \in Answers(record) : r.kind \in Kinds}
  /\ built' = TRUE /\ UNCHANGED changes

RecordNext == Change \/ Omit \/ Extend \/ Answer

RecordSpec == RecordInit /\ [][RecordNext]_recordVars

(***************************************************************************)
(* Properties.                                                             *)
(***************************************************************************)
\* What a decoder accepts, from whichever program, its own encoder can write and it reads
\* back: decoders and encoders validate the same rules in different functions, and a record
\* is decoded, kept and written again, in replies (StrictMap, Envelope, decode and payload).
Lossless == Decodes(record) => Encodes(Written(record)) /\ Decodes(Written(record))

\* An answer built from any record that was accepted, however strange, is one its encoder
\* writes and the other program accepts (decode of one kind, payload and decode of the next).
Understood == built => Encodes(record) /\ Decodes(record)
===============================================================================
