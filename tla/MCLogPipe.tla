------------------------------ MODULE MCLogPipe ------------------------------
(***************************************************************************)
(* Instances of LogPipe for TLC.                                           *)
(***************************************************************************)
EXTENDS LogPipe

CONSTANTS w1, w2, w3, w4

MCWorkers == {w1, w2, w3}
MCFourWorkers == {w1, w2, w3, w4}
MCThreads == {w1, w2}

==============================================================================
