---------------------------- MODULE InputConsent ----------------------------
(***************************************************************************)
(* What desktop input promises a user, without saying how: nothing is      *)
(* injected but under an epoch that the presenter granted.  Each side      *)
(* takes epochs in order and never returns to one; a gate that ends or     *)
(* replaces an epoch lets go of every key in that very step.  The two      *)
(* sides are not in step: the gate may admit what the presenter has        *)
(* withdrawn, until it learns of it.                                       *)
(***************************************************************************)
EXTENDS Naturals

CONSTANT Epochs

VARIABLES
  presenter,    \* {} or {the epoch that the presenter grants}
  granted,      \* every epoch it ever granted
  gate,         \* {} or {the epoch that the producer's gate admits}
  admitted,     \* every epoch it ever admitted
  keys          \* {} or the epoch under which a key is held down

consentVars == <<presenter, granted, gate, admitted, keys>>

ConsentInit ==
  /\ presenter = {} /\ granted = {}
  /\ gate = {} /\ admitted = {} /\ keys = {}

After(e, past) == \A p \in past : p < e

Consents(e) ==
  /\ After(e, granted)
  /\ presenter' = {e}
  /\ granted' = granted \union {e}
  /\ UNCHANGED <<gate, admitted, keys>>

Withdraws ==
  /\ presenter' = {}
  /\ UNCHANGED <<granted, gate, admitted, keys>>

Admits(e) ==
  /\ e \in granted /\ After(e, admitted)
  /\ gate' = {e}
  /\ admitted' = admitted \union {e}
  /\ keys' = {}
  /\ UNCHANGED <<presenter, granted>>

Shuts ==
  /\ gate' = {} /\ keys' = {}
  /\ UNCHANGED <<presenter, granted, admitted>>

\* A key is pressed under the epoch that is admitted, or let go.
Injects ==
  /\ keys' \in {gate, {}}
  /\ UNCHANGED <<presenter, granted, gate, admitted>>

ConsentNext ==
  \/ \E e \in Epochs : Consents(e) \/ Admits(e)
  \/ Withdraws \/ Shuts \/ Injects

ConsentSpec == ConsentInit /\ [][ConsentNext]_consentVars
=============================================================================
