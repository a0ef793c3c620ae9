------------------------------ MODULE AccessLog ------------------------------
(***************************************************************************)
(* What the access log of the Gopher server promises, whatever protocol    *)
(* carries the records: a request handler hands over one record, records   *)
(* are written one at a time, in the order they were handed over, each at  *)
(* most once.  Where lines may fail, a record may be lost instead of being *)
(* written, and only that one.  LogPipe is shown to implement this module. *)
(***************************************************************************)
EXTENDS Naturals, Sequences

CONSTANTS
  Records,        \* the records request handlers may hand over
  LinesMayFail    \* may a line not get into the file (a full disk)?

VARIABLES
  accepted,       \* the records handed over and not lost, oldest first
  recorded        \* the lines of the log file, oldest first

alVars == <<accepted, recorded>>

Init ==
  /\ accepted = <<>>
  /\ recorded = <<>>

\* A handler may hand a record over once, when no other is on its way.
Accept(r) ==
  /\ Len(accepted) = Len(recorded)
  /\ \A i \in 1..Len(accepted) : accepted[i] # r
  /\ accepted' = Append(accepted, r)
  /\ UNCHANGED recorded

\* The record on its way becomes the next line of the file.
Record ==
  /\ Len(recorded) < Len(accepted)
  /\ recorded' = Append(recorded, accepted[Len(recorded) + 1])
  /\ UNCHANGED accepted

\* The line is not written: the record is lost, those before and after it are
\* not.
Lose ==
  /\ LinesMayFail
  /\ Len(recorded) < Len(accepted)
  /\ accepted' = recorded
  /\ UNCHANGED recorded

Next == Record \/ Lose \/ \E r \in Records : Accept(r)

Spec == Init /\ [][Next]_alVars

\* A record that was handed over is eventually written, unless lines may fail.
FairSpec == Spec /\ WF_alVars(Record)

==============================================================================
