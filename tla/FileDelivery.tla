---------------------------- MODULE FileDelivery ----------------------------
(***************************************************************************)
(* What the transfer of a dropped file promises, without saying how: the   *)
(* receiver gets the bytes in order, keeps all of them or none, and the    *)
(* presenter believes in a delivery only after it happened.  A delivery    *)
(* that the presenter gives up may still happen.                           *)
(***************************************************************************)
EXTENDS Naturals, Sequences

CONSTANT Lengths

VARIABLES
  length,       \* of the file
  received,     \* the bytes the receiver keeps, each named by its place
  receiver,     \* "Open", "Committed" or "Abandoned"
  outcome       \* what the presenter believes: "Open", "Committed" or "Cancelled"

deliveryVars == <<length, received, receiver, outcome>>

File(n) == [i \in 1..n |-> i]

DeliveryInit ==
  /\ length \in Lengths
  /\ received = <<>>
  /\ receiver = "Open"
  /\ outcome = "Open"

Receive(n) ==
  /\ receiver = "Open"
  /\ received = File(Len(received)) /\ Len(received) < n
  /\ received' = File(n)
  /\ UNCHANGED <<length, receiver, outcome>>

\* Only the whole file gets its name.
Commit ==
  /\ receiver = "Open" /\ received = File(length)
  /\ receiver' = "Committed"
  /\ UNCHANGED <<length, received, outcome>>

\* Nothing is kept of a file that was not committed.
Abandon ==
  /\ receiver = "Open"
  /\ receiver' = "Abandoned"
  /\ received' = <<>>
  /\ UNCHANGED <<length, outcome>>

Confirm ==
  /\ outcome = "Open" /\ receiver = "Committed"
  /\ outcome' = "Committed"
  /\ UNCHANGED <<length, received, receiver>>

GiveUp ==
  /\ outcome = "Open"
  /\ outcome' = "Cancelled"
  /\ UNCHANGED <<length, received, receiver>>

DeliveryNext ==
  \/ \E n \in 1..length : Receive(n)
  \/ Commit \/ Abandon \/ Confirm \/ GiveUp

DeliverySpec == DeliveryInit /\ [][DeliveryNext]_deliveryVars
=============================================================================
