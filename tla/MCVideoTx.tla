------------------------------- MODULE MCVideoTx -------------------------------
(***************************************************************************)
(* VideoTx, where the ground receives only a group behind which nothing    *)
(* more was written: what is checked here concerns the camera.             *)
(***************************************************************************)
EXTENDS VideoTx

LastGroupOnly ==
  pc = "nals" /\ assembly' # assembly => made = Nals /\ pipe = <<>> /\ nal_buf' = <<>>

MCNext == Next /\ LastGroupOnly

\* The ground need not receive anything, so the fairness of FairSpec is kept.
MCSpec == Init /\ [][MCNext]_vars /\ WF_vars(Top \/ Read \/ ReadNothing \/ NalLoop)
===============================================================================
