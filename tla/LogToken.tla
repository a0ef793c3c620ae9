------------------------------- MODULE LogToken -------------------------------
(***************************************************************************)
(* What keeps the records of one server in order, without the mutex: the   *)
(* token and the log pipe.  The steps are those of LogPipe, the mutex and  *)
(* the condition variable left out: whoever waits for them may be let      *)
(* through at any time, a pipe holds any number of messages, and any       *)
(* process may die.  It lies between LogPipe and AccessLog: in LogRestart  *)
(* the mutex is no longer one of the server's own, so that nothing can be  *)
(* built on it.                                                            *)
(***************************************************************************)
EXTENDS Naturals, Sequences

CONSTANTS Workers, IOErrors      \* as in LogPipe

VARIABLES
  wpc,      \* as in LogPipe
  lpc,      \* as in LogPipe, or "off" before the logger is forked
  tokens, pipe, buf, log

vars == <<wpc, lpc, tokens, pipe, buf, log>>

WorkerPC == {"serving", "sync", "lock", "write", "signal", "unlock",
             "done", "killed"}
LoggerPC == {"off", "lock", "token", "wait", "waiting", "woken", "open",
             "read", "append", "unlock", "dead"}

Over == {"done", "killed"}

TypeOK ==
  /\ wpc \in [Workers -> WorkerPC]
  /\ lpc \in LoggerPC
  /\ tokens \in Nat
  /\ pipe \in Seq(Workers)
  /\ buf \in Seq(Workers)
  /\ log \in Seq(Workers)

Init ==
  /\ wpc = [w \in Workers |-> "serving"]
  /\ lpc \in {"off", "lock"}
  /\ tokens = 0
  /\ pipe = <<>>
  /\ buf = <<>>
  /\ log = <<>>

-----------------------------------------------------------------------------
(* Request handlers *)

WorkerGoes(w, from, to) ==
  /\ wpc[w] = from
  /\ wpc' = [wpc EXCEPT ![w] = to]

CallLog(w) ==
  /\ WorkerGoes(w, "serving", "sync")
  /\ UNCHANGED <<lpc, tokens, pipe, buf, log>>

ReadToken(w) ==
  /\ tokens > 0
  /\ WorkerGoes(w, "sync", "lock")
  /\ tokens' = tokens - 1
  /\ UNCHANGED <<lpc, pipe, buf, log>>

ReadEndOfFile(w) ==
  /\ lpc = "dead"
  /\ WorkerGoes(w, "sync", "lock")
  /\ UNCHANGED <<lpc, tokens, pipe, buf, log>>

WorkerLock(w) ==
  /\ WorkerGoes(w, "lock", "write")
  /\ UNCHANGED <<lpc, tokens, pipe, buf, log>>

WriteRecord(w) ==
  /\ lpc # "dead"
  /\ WorkerGoes(w, "write", "signal")
  /\ pipe' = Append(pipe, w)
  /\ UNCHANGED <<lpc, tokens, buf, log>>

WriteFails(w) ==
  /\ IOErrors
  /\ WorkerGoes(w, "write", "signal")
  /\ UNCHANGED <<lpc, tokens, pipe, buf, log>>

\* The signal may wake this server's logger, another's, or nobody.
Signal(w) ==
  /\ WorkerGoes(w, "signal", "unlock")
  /\ \/ lpc = "waiting" /\ lpc' = "woken"
     \/ UNCHANGED lpc
  /\ UNCHANGED <<tokens, pipe, buf, log>>

WorkerUnlock(w) ==
  /\ WorkerGoes(w, "unlock", "done")
  /\ UNCHANGED <<lpc, tokens, pipe, buf, log>>

\* SIGPIPE, a signal, or the end of the server: all threads of a process go.
WorkersDie(process) ==
  /\ wpc' = [w \in Workers |-> IF w \in process /\ wpc[w] \notin Over
                                 THEN "killed" ELSE wpc[w]]
  /\ UNCHANGED <<lpc, tokens, pipe, buf, log>>

-----------------------------------------------------------------------------
(* The logger *)

LoggerGoes(from, to) ==
  /\ lpc = from
  /\ lpc' = to

\* The fork, the mutex, the condition variable and open().
LoggerMoves ==
  /\ \/ LoggerGoes("off", "lock")
     \/ LoggerGoes("lock", "token")
     \/ LoggerGoes("wait", "waiting")
     \/ LoggerGoes("waiting", "woken")
     \/ LoggerGoes("woken", "open")
     \/ LoggerGoes("open", "read")
     \/ LoggerGoes("unlock", "lock")
  /\ UNCHANGED <<wpc, tokens, pipe, buf, log>>

PutToken ==
  /\ LoggerGoes("token", "wait")
  /\ tokens' = tokens + 1
  /\ UNCHANGED <<wpc, pipe, buf, log>>

PutTokenFails ==
  /\ IOErrors
  /\ LoggerGoes("token", "wait")
  /\ UNCHANGED <<wpc, tokens, pipe, buf, log>>

ReadRecord ==
  /\ pipe # <<>>
  /\ LoggerGoes("read", "append")
  /\ buf' = <<Head(pipe)>>
  /\ pipe' = Tail(pipe)
  /\ UNCHANGED <<wpc, tokens, log>>

\* Nobody is left who could write.
ReadNothing ==
  /\ pipe = <<>>
  /\ \A w \in Workers : wpc[w] \in Over
  /\ LoggerGoes("read", "append")
  /\ UNCHANGED <<wpc, tokens, pipe, buf, log>>

AppendLine ==
  /\ LoggerGoes("append", "unlock")
  /\ log' = log \o buf
  /\ buf' = <<>>
  /\ UNCHANGED <<wpc, tokens, pipe>>

AppendLineFails ==
  /\ IOErrors
  /\ LoggerGoes("append", "unlock")
  /\ buf' = <<>>
  /\ UNCHANGED <<wpc, tokens, pipe, log>>

\* SIGPIPE at the token, an open() that fails, or a signal.
LoggerDies ==
  /\ lpc' = "dead"
  /\ UNCHANGED <<wpc, tokens, pipe, buf, log>>

-----------------------------------------------------------------------------

WorkerStep(w) ==
  \/ CallLog(w)
  \/ ReadToken(w)
  \/ ReadEndOfFile(w)
  \/ WorkerLock(w)
  \/ WriteRecord(w)
  \/ WriteFails(w)
  \/ Signal(w)
  \/ WorkerUnlock(w)

LoggerStep ==
  \/ LoggerMoves
  \/ PutToken
  \/ PutTokenFails
  \/ ReadRecord
  \/ ReadNothing
  \/ AppendLine
  \/ AppendLineFails
  \/ LoggerDies

Next ==
  \/ \E w \in Workers : WorkerStep(w)
  \/ \E process \in SUBSET Workers : WorkersDie(process)
  \/ LoggerStep

Spec == Init /\ [][Next]_vars

-----------------------------------------------------------------------------
(* Properties *)

\* With the mapping of LogPipe.
AL == INSTANCE AccessLog WITH
        Records      <- Workers,
        LinesMayFail <- IOErrors,
        accepted     <- log \o buf \o pipe,
        recorded     <- log

\* Records are written one at a time, in the order they were handed over, each
\* at most once, with what socket_pipe_log_server_single_process does of itself.
AccessLogSafety == AL!Spec

==============================================================================
