------------------------------- MODULE MCServer -------------------------------
(***************************************************************************)
(* Instances of Server for TLC.                                            *)
(***************************************************************************)
EXTENDS Server, TLC

CONSTANTS r1, r2

MCTwoRequests == {r1, r2}

\* One client may stall or leave; what becomes of the other is the question.
MCOneClient == {r1}

\* What a healthy site is asked for.
MCHealthy == {"missing", "directory", "file"}

\* Where each client may do everything the other may, it does not matter which
\* of them does what.
MCSymmetry == Permutations(MCTwoRequests)

MCEmptyAndFile == {"empty", "file"}

-----------------------------------------------------------------------------
(* The instance with liveness is a part of FairSpec. *)

\* What a silent client would ask for makes no difference, nor whether one that
\* asks for what is missing reads its error.
MCInit ==
  /\ Init
  /\ r1 \in silent => target[r1] = "missing"
  /\ r1 \in stalled => target[r1] # "missing"

\* A reload changes the mode; nobody leaves before or after it, and it does not
\* come before the last entry of a listing is sent.
MCNext ==
  /\ Next
  /\ reloads' # 0 => left' = {} /\ \A r \in Requests : lines'[r] = 0
  /\ main = "reopen" /\ main' = "select" => mode' # mode

MCSpec == MCInit /\ [][MCNext]_vars /\ Fairness

==============================================================================
