----------------------------- MODULE FailsafeGate -----------------------------
(***************************************************************************)
(* What the camera's flight-controller link promises to the pilot: between *)
(* the sticks it is handed and the flight controller stands a gate.  Once  *)
(* failsafe was declared the gate is held, and only sticks whose throttle  *)
(* is neutral open it again; no failed write, reconnection or forgetful    *)
(* flight controller does.  FcLink implements it, RcLink builds on it.     *)
(***************************************************************************)
CONSTANTS
  Sticks,     \* what an RC packet may hold
  None, Failsafe,  \* no override yet, the failsafe override
  Neutral(_)  \* its throttle is at most THROTTLE_NEUTRAL_THRESHOLD

VARIABLES
  held,   \* failsafe was declared and no neutral sticks were taken since
  given   \* the last override the flight controller received

Init ==
  /\ held = FALSE
  /\ given = None

\* Failsafe is declared, or is still on.  Its override may fail to be written.
Declare ==
  /\ held' = TRUE
  /\ given' \in {given, Failsafe}

\* Sticks pass.  Writing them may fail.
Take(s) ==
  /\ held => Neutral(s)
  /\ held' = FALSE
  /\ given' \in {given, s}

\* The flight controller is switched off.
Forget ==
  /\ given' = None
  /\ UNCHANGED held

Next == Declare \/ (\E s \in Sticks : Take(s)) \/ Forget

Spec == Init /\ [][Next]_<<held, given>>
==============================================================================
