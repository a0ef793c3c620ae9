------------------------------- MODULE LogPipe -------------------------------
(***************************************************************************)
(* The access-log protocol of the Linux server: request handlers (threads  *)
(* of the server or children it forked) hand one record each to a single   *)
(* logger process, through                                                 *)
(*   - a synchronisation pipe on which the logger puts one byte, a token,  *)
(*     when it holds the mutex and is about to wait,                       *)
(*   - a process-shared mutex and condition variable, and                  *)
(*   - the log pipe, which carries fixed-size messages.                    *)
(* Handlers run socket_pipe_log_server_single_process; the logger runs the *)
(* child branch of socket_pipe_single_process (linux_pipe.c).              *)
(***************************************************************************)
EXTENDS Naturals, Sequences

CONSTANTS
  Workers,          \* request handlers; each hands over one record
  ThreadWorkers,    \* those that are threads of the server, not its children
  Logger,           \* the logger process, as an owner of the mutex
  NoOne,            \* the owner of a free mutex
  FdBudget,         \* descriptors the logger can still open on the log file
  PipeSlots,        \* messages the log pipe holds before write() blocks
  SpuriousWakeups,  \* may pthread_cond_wait return without a signal?
  GroupHangup,      \* may SIGHUP reach the logger (sent to the whole group)?
  IOErrors          \* may a write - of a token, a record, a line - fail?

ASSUME WorkersAssumption ==
  /\ ThreadWorkers \subseteq Workers
  /\ Logger \notin Workers
  /\ NoOne \notin Workers \cup {Logger}

ASSUME BoundsAssumption ==
  /\ FdBudget \in Nat
  /\ PipeSlots \in Nat \ {0}

ASSUME EnvironmentAssumption ==
  /\ SpuriousWakeups \in BOOLEAN
  /\ GroupHangup \in BOOLEAN
  /\ IOErrors \in BOOLEAN

VARIABLES
  wpc,      \* where each handler is
  lpc,      \* where the logger is
  mutex,    \* the owner of the process-shared mutex
  tokens,   \* bytes in the synchronisation pipe
  pipe,     \* messages in the log pipe; a message is named by its sender
  buf,      \* the message the logger has read and not yet written
  log,      \* the lines of the log file
  logFds    \* descriptors the logger has opened on the log file

vars == <<wpc, lpc, mutex, tokens, pipe, buf, log, logFds>>

WorkerPC == {"serving", "sync", "lock", "write", "signal", "unlock",
             "done", "killed"}
LoggerPC == {"lock", "token", "wait", "waiting", "woken", "open", "read",
             "append", "unlock", "dead"}

TypeOK ==
  /\ wpc \in [Workers -> WorkerPC]
  /\ lpc \in LoggerPC
  /\ mutex \in Workers \cup {Logger, NoOne}
  /\ tokens \in Nat
  /\ pipe \in Seq(Workers)
  /\ buf \in Seq(Workers)
  /\ log \in Seq(Workers)
  /\ logFds \in 0..FdBudget

Init ==
  /\ wpc = [w \in Workers |-> "serving"]
  /\ lpc = "lock"
  /\ mutex = NoOne
  /\ tokens = 0
  /\ pipe = <<>>
  /\ buf = <<>>
  /\ log = <<>>
  /\ logFds = 0

-----------------------------------------------------------------------------

WorkerGoes(w, from, to) ==
  /\ wpc[w] = from
  /\ wpc' = [wpc EXCEPT ![w] = to]

LoggerGoes(from, to) ==
  /\ lpc = from
  /\ lpc' = to

(***************************************************************************)
(* Mutants: each is an action below with a plausible mistake in it.  None   *)
(* is part of Next; put in the place of its action it breaks a property.   *)
(***************************************************************************)

\* the handler does not wait for a token
ReadToken_NoWait(w) ==
  /\ WorkerGoes(w, "sync", "lock")
  /\ UNCHANGED <<lpc, mutex, tokens, pipe, buf, log, logFds>>

\* the handler looks whether there is a token and leaves it there
ReadToken_LeavesIt(w) ==
  /\ tokens > 0
  /\ WorkerGoes(w, "sync", "lock")
  /\ UNCHANGED <<lpc, mutex, tokens, pipe, buf, log, logFds>>

\* the handler releases the mutex without signalling
Signal_Forgotten(w) ==
  /\ WorkerGoes(w, "signal", "unlock")
  /\ UNCHANGED <<lpc, mutex, tokens, pipe, buf, log, logFds>>

\* the handler does not lock the mutex
WorkerLock_Missing(w) ==
  /\ WorkerGoes(w, "lock", "write")
  /\ mutex' = w
  /\ UNCHANGED <<lpc, tokens, pipe, buf, log, logFds>>

\* the result of open() is not checked
OpenLog_Unchecked ==
  /\ LoggerGoes("open", "read")
  /\ logFds' = logFds + 1
  /\ UNCHANGED <<wpc, mutex, tokens, pipe, buf, log>>

\* the line is written and the message kept
AppendLine_KeepsMessage ==
  /\ LoggerGoes("append", "unlock")
  /\ log' = log \o buf
  /\ UNCHANGED <<wpc, mutex, tokens, pipe, buf, logFds>>

\* the log file is opened without O_APPEND: each line overwrites the first
AppendLine_Overwrites ==
  /\ LoggerGoes("append", "unlock")
  /\ log' = buf
  /\ buf' = <<>>
  /\ UNCHANGED <<wpc, mutex, tokens, pipe, logFds>>

\* the logger goes round without releasing the mutex
LoggerUnlock_Missing ==
  /\ LoggerGoes("unlock", "lock")
  /\ UNCHANGED <<wpc, mutex, tokens, pipe, buf, log, logFds>>

-----------------------------------------------------------------------------
(* Request handlers *)

\* The file has been sent; the handler calls the logging routine.
CallLog(w) ==
  /\ WorkerGoes(w, "serving", "sync")
  /\ UNCHANGED <<lpc, mutex, tokens, pipe, buf, log, logFds>>

\* read() on the synchronisation pipe takes the byte the logger put there.
ReadToken(w) ==
  /\ tokens > 0
  /\ WorkerGoes(w, "sync", "lock")
  /\ tokens' = tokens - 1
  /\ UNCHANGED <<lpc, mutex, pipe, buf, log, logFds>>

\* The logger held the only write end: once it is dead read() returns 0, which
\* the handler does not tell from a token.
ReadEndOfFile(w) ==
  /\ tokens = 0
  /\ lpc = "dead"
  /\ WorkerGoes(w, "sync", "lock")
  /\ UNCHANGED <<lpc, mutex, tokens, pipe, buf, log, logFds>>

WorkerLock(w) ==
  /\ mutex = NoOne
  /\ WorkerGoes(w, "lock", "write")
  /\ mutex' = w
  /\ UNCHANGED <<lpc, tokens, pipe, buf, log, logFds>>

\* write() of one whole message; it blocks while the pipe is full.
WriteRecord(w) ==
  /\ lpc # "dead"
  /\ Len(pipe) < PipeSlots
  /\ WorkerGoes(w, "write", "signal")
  /\ pipe' = Append(pipe, w)
  /\ UNCHANGED <<lpc, mutex, tokens, buf, log, logFds>>

\* write() fails: the handler says so on its standard error and goes on to
\* signal a record that is not there.
WriteFails(w) ==
  /\ IOErrors
  /\ lpc # "dead"
  /\ WorkerGoes(w, "write", "signal")
  /\ UNCHANGED <<lpc, mutex, tokens, pipe, buf, log, logFds>>

\* Nobody reads the pipe: SIGPIPE, never caught, ends the writer's process,
\* and with it every handler that is a thread of that process.
KilledBySigpipe(w) ==
  /\ lpc = "dead"
  /\ wpc[w] = "write"
  /\ LET process == IF w \in ThreadWorkers THEN ThreadWorkers ELSE {w}
     IN  wpc' = [v \in Workers |-> IF v \in process /\ wpc[v] # "done"
                                     THEN "killed" ELSE wpc[v]]
  /\ UNCHANGED <<lpc, mutex, tokens, pipe, buf, log, logFds>>

\* pthread_cond_signal wakes the logger only if it is waiting.
Signal(w) ==
  /\ WorkerGoes(w, "signal", "unlock")
  /\ lpc' = IF lpc = "waiting" THEN "woken" ELSE lpc
  /\ UNCHANGED <<mutex, tokens, pipe, buf, log, logFds>>

WorkerUnlock(w) ==
  /\ WorkerGoes(w, "unlock", "done")
  /\ mutex' = NoOne
  /\ UNCHANGED <<lpc, tokens, pipe, buf, log, logFds>>

-----------------------------------------------------------------------------
(* The logger process *)

LoggerLock ==
  /\ mutex = NoOne
  /\ LoggerGoes("lock", "token")
  /\ mutex' = Logger
  /\ UNCHANGED <<wpc, tokens, pipe, buf, log, logFds>>

PutToken ==
  /\ LoggerGoes("token", "wait")
  /\ tokens' = tokens + 1
  /\ UNCHANGED <<wpc, mutex, pipe, buf, log, logFds>>

\* write() of the token fails: the logger waits all the same.
PutTokenFails ==
  /\ IOErrors
  /\ LoggerGoes("token", "wait")
  /\ UNCHANGED <<wpc, mutex, tokens, pipe, buf, log, logFds>>

\* pthread_cond_wait releases the mutex and blocks in one step ...
CondWait ==
  /\ LoggerGoes("wait", "waiting")
  /\ mutex' = NoOne
  /\ UNCHANGED <<wpc, tokens, pipe, buf, log, logFds>>

\* ... may wake up unsignalled, and the caller has no predicate to check ...
WakeSpuriously ==
  /\ SpuriousWakeups
  /\ LoggerGoes("waiting", "woken")
  /\ UNCHANGED <<wpc, mutex, tokens, pipe, buf, log, logFds>>

\* ... and takes the mutex again before it returns.
CondWaitReturns ==
  /\ mutex = NoOne
  /\ LoggerGoes("woken", "open")
  /\ mutex' = Logger
  /\ UNCHANGED <<wpc, tokens, pipe, buf, log, logFds>>

\* The log file is opened anew for every record and never closed.
OpenLog ==
  /\ logFds < FdBudget
  /\ LoggerGoes("open", "read")
  /\ logFds' = logFds + 1
  /\ UNCHANGED <<wpc, mutex, tokens, pipe, buf, log>>

\* open() fails: exit(-1), with the mutex locked.
OpenLogFails ==
  /\ logFds = FdBudget
  /\ LoggerGoes("open", "dead")
  /\ UNCHANGED <<wpc, mutex, tokens, pipe, buf, log, logFds>>

\* read() on the log pipe blocks while there is no message.
ReadRecord ==
  /\ pipe # <<>>
  /\ LoggerGoes("read", "append")
  /\ buf' = <<Head(pipe)>>
  /\ pipe' = Tail(pipe)
  /\ UNCHANGED <<wpc, mutex, tokens, log, logFds>>

AppendLine ==
  /\ LoggerGoes("append", "unlock")
  /\ log' = log \o buf
  /\ buf' = <<>>
  /\ UNCHANGED <<wpc, mutex, tokens, pipe, logFds>>

\* dprintf() fails, on a full disk say: perror(), and the logger goes on.
AppendLineFails ==
  /\ IOErrors
  /\ LoggerGoes("append", "unlock")
  /\ buf' = <<>>
  /\ UNCHANGED <<wpc, mutex, tokens, pipe, log, logFds>>

LoggerUnlock ==
  /\ LoggerGoes("unlock", "lock")
  /\ mutex' = NoOne
  /\ UNCHANGED <<wpc, tokens, pipe, buf, log, logFds>>

\* The logger is forked before the server installs its SIGHUP handler, so a
\* hangup sent to the whole process group ends it wherever it is.
LoggerHangup ==
  /\ GroupHangup
  /\ lpc # "dead"
  /\ lpc' = "dead"
  /\ UNCHANGED <<wpc, mutex, tokens, pipe, buf, log, logFds>>

-----------------------------------------------------------------------------

\* The steps a handler takes by itself once it has called the logging routine.
WorkerStep(w) ==
  \/ ReadToken(w)
  \/ ReadEndOfFile(w)
  \/ WorkerLock(w)
  \/ WriteRecord(w)
  \/ WriteFails(w)
  \/ KilledBySigpipe(w)
  \/ Signal(w)
  \/ WorkerUnlock(w)

LoggerStep ==
  \/ LoggerLock
  \/ PutToken
  \/ PutTokenFails
  \/ CondWait
  \/ CondWaitReturns
  \/ OpenLog
  \/ OpenLogFails
  \/ ReadRecord
  \/ AppendLine
  \/ AppendLineFails
  \/ LoggerUnlock

Next ==
  \/ LoggerStep
  \/ WakeSpuriously
  \/ LoggerHangup
  \/ \E w \in Workers : CallLog(w) \/ WorkerStep(w)

Spec == Init /\ [][Next]_vars

\* Every process that can run is scheduled.  Calls, hangups and unsignalled
\* wake-ups are never owed.
Fairness ==
  /\ WF_vars(LoggerStep)
  /\ \A w \in Workers : WF_vars(WorkerStep(w))

FairSpec == Spec /\ Fairness

-----------------------------------------------------------------------------
(* Properties *)

\* A signal to a condition variable nobody waits on is lost.  The token tells
\* a handler that the logger holds the mutex and is about to wait, so when
\* the handler signals, the logger is waiting.
SignalFindsWaiter ==
  \A w \in Workers : wpc[w] = "signal" => lpc \in {"waiting", "dead"}

\* Whoever holds the mutex never blocks inside the critical section: the
\* logger reads the log pipe only when a message is in it, and a handler
\* writes only when there is room.  Both calls block with the mutex locked.
CriticalSectionNeverBlocks ==
  /\ lpc = "read" => pipe # <<>>
  /\ lpc # "dead" =>
       \A w \in Workers : wpc[w] = "write" => Len(pipe) < PipeSlots

\* At most one process is between taking and releasing the mutex, and the
\* owner the mutex remembers is that process, dead or alive.
MutualExclusion ==
  /\ \A w \in Workers :
       wpc[w] \in {"write", "signal", "unlock"} => mutex = w
  /\ lpc \in {"token", "wait", "open", "read", "append", "unlock"}
       => mutex = Logger

\* When the logger dies, at most one record that was handed over is lost with it.
AtMostOneInFlight == Len(buf) + Len(pipe) <= 1

\* The records handed over and the lines written are those of AccessLog: one
\* at a time, in order, none twice; a line that fails costs its own record and
\* no other.
AL == INSTANCE AccessLog WITH
        Records      <- Workers,
        LinesMayFail <- IOErrors,
        accepted     <- log \o buf \o pipe,
        recorded     <- log

AccessLogSafety == AL!Spec

\* ... and every record handed over is written, as long as the logger lives.
AccessLogFair == AL!FairSpec

\* Every handler that calls the logging routine sees its record in the file
\* and returns.
EveryRecordWritten ==
  \A w \in Workers :
    wpc[w] = "sync" ~> wpc[w] = "done" /\ \E i \in 1..Len(log) : log[i] = w

\* "All'avvio del server viene creato un processo sempre attivo" (the report,
\* 2.3.2): the logger never dies.
LoggerAlwaysActive == lpc # "dead"

==============================================================================
