------------------------------ MODULE MCRxFrames ------------------------------
(***************************************************************************)
(* RxFrames with every set of the fields up to the signal, in one bitmap   *)
(* or followed by another that is empty or has the signal's bit.           *)
(***************************************************************************)
EXTENDS RxFrames

MCPresents ==
  {<<w>> : w \in SUBSET (0..5)}
    \cup {<<w \cup {31}, v>> : w \in SUBSET (0..5), v \in {{}, {5}}}
==============================================================================
