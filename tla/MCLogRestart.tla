----------------------------- MODULE MCLogRestart -----------------------------
(* A thread and a child of each of two servers. *)
EXTENDS LogRestart

CONSTANTS t1, c1, t2, c2

MCWorkers1 == {t1, c1}
MCThreads1 == {t1}
MCWorkers2 == {t2, c2}
MCThreads2 == {t2}

==============================================================================
