------------------------------- MODULE MCRcLink -------------------------------
(***************************************************************************)
(* RcLink with sticks that are held at one end or the other, the throttle  *)
(* being down at the start.                                                *)
(***************************************************************************)
EXTENDS RcLink

MCRaw == {-1024, 1023}

MCInit == Init /\ stick[THROTTLE_AXIS] = Axis(-1024)

MCSpec == MCInit /\ [][Next]_vars /\ Fairness
==============================================================================
