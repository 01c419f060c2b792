---------------------------- MODULE SessionGrant ----------------------------
(***************************************************************************)
(* What a session lease promises its clients (security model, sections 6.4 *)
(* and 7.2), without saying how: one logical session per lease, one        *)
(* outcome per opening, at most one opening per resume generation.  The    *)
(* answers a client may be given are exactly the recorded openings, so a   *)
(* replay is a step that changes nothing here.                             *)
(***************************************************************************)
EXTENDS Naturals

CONSTANTS Keys, Sessions, Welcomes, None

VARIABLES
  phase,        \* "Issued", "Open", "Suspended" or "Ended"
  session,      \* the logical session, None before and after
  generation,   \* the resume generation
  openings      \* every outcome ever created: who opened what, from when

grantVars == <<phase, session, generation, openings>>

GrantInit ==
  /\ phase = "Issued"
  /\ session = None
  /\ generation = 0
  /\ openings = {}

Opening(k, s, w, from) == [key |-> k, session |-> s, welcome |-> w, from |-> from]

\* The one activation creates the logical session.
Activate(k, s, w) ==
  /\ phase = "Issued"
  /\ phase' = "Open"
  /\ session' = s
  /\ openings' = {Opening(k, s, w, None)}
  /\ UNCHANGED generation

Suspend ==
  /\ phase = "Open"
  /\ phase' = "Suspended"
  /\ UNCHANGED <<session, generation, openings>>

\* A resume reopens the same session and uses up its generation.
Resume(k, w) ==
  /\ phase = "Suspended"
  /\ phase' = "Open"
  /\ generation' = generation + 1
  /\ openings' = openings \union {Opening(k, session, w, generation)}
  /\ UNCHANGED session

End ==
  /\ phase # "Ended"
  /\ phase' = "Ended"
  /\ session' = None
  /\ UNCHANGED <<generation, openings>>

GrantNext ==
  \/ \E k \in Keys, w \in Welcomes :
       \/ \E s \in Sessions \ {0} : Activate(k, s, w)
       \/ Resume(k, w)
  \/ Suspend
  \/ End

GrantSpec == GrantInit /\ [][GrantNext]_grantVars
==============================================================================
