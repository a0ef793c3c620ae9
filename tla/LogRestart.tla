------------------------------ MODULE LogRestart ------------------------------
(***************************************************************************)
(* Two servers, one after the other or side by side, on the same machine:  *)
(* each has its own logger, token pipe and log pipe, but the mutex and the *)
(* condition variable are in shared memory with fixed names, which the     *)
(* second server truncates and initialises again when it starts.  What is  *)
(* left of the first one - a logger, a child that is still sending - uses  *)
(* them on.  First and Second are the protocol of LogPipe, on one mutex.   *)
(*                                                                         *)
(* Covered: the death of any process of the first server at any step, and  *)
(* a second server started while the first still runs.  The memory of the  *)
(* mutex and of the condition variable is treated as one.  Nobody kills a  *)
(* process of the second server, and its logger has descriptors for every  *)
(* record: it ends only when nobody is left to read its token.  No write   *)
(* fails: that is in LogPipe.                                              *)
(***************************************************************************)
EXTENDS Naturals, Sequences

CONSTANTS
  Workers1, Threads1, Logger1,   \* the first server, as in LogPipe
  Workers2, Threads2, Logger2,   \* the second
  NoOne,
  FdBudget, PipeSlots

ASSUME RestartAssumption ==
  /\ Threads1 \subseteq Workers1
  /\ Threads2 \subseteq Workers2
  /\ Workers1 \cap Workers2 = {}
  /\ Logger1 # Logger2
  /\ NoOne \notin Workers1 \cup Workers2 \cup {Logger1, Logger2}
  /\ {Logger1, Logger2} \cap (Workers1 \cup Workers2) = {}
  /\ FdBudget \in Nat
  /\ PipeSlots \in Nat \ {0}

VARIABLES
  mutex,       \* the owner the shared mutex remembers
  due,         \* waiters the condition variable still owes a signal
  memory,      \* "truncated" between shm_open(O_TRUNC) and ftruncate
  server1,     \* the first server
  server2,     \* the second
  clean,       \* ghost: nothing of the first was left when the second started
  wpc1, lpc1, tokens1, pipe1, buf1, log1, logFds1,
  wpc2, lpc2, tokens2, pipe2, buf2, log2, logFds2

vars1 == <<wpc1, lpc1, tokens1, pipe1, buf1, log1, logFds1>>
vars2 == <<wpc2, lpc2, tokens2, pipe2, buf2, log2, logFds2>>
serverVars == <<server1, server2, clean>>
vars == <<mutex, due, memory, serverVars, vars1, vars2>>

First == INSTANCE LogPipe WITH
           Workers <- Workers1, ThreadWorkers <- Threads1, Logger <- Logger1,
           SpuriousWakeups <- FALSE, GroupHangup <- FALSE, IOErrors <- FALSE,
           wpc <- wpc1, lpc <- lpc1, tokens <- tokens1, pipe <- pipe1,
           buf <- buf1, log <- log1, logFds <- logFds1

Second == INSTANCE LogPipe WITH
            Workers <- Workers2, ThreadWorkers <- Threads2, Logger <- Logger2,
            SpuriousWakeups <- FALSE, GroupHangup <- FALSE, IOErrors <- FALSE,
            wpc <- wpc2, lpc <- lpc2, tokens <- tokens2, pipe <- pipe2,
            buf <- buf2, log <- log2, logFds <- logFds2

Init ==
  /\ First!Init
  /\ due = 0
  /\ memory = "ready"
  /\ server1 = "serving"
  /\ server2 = "off"
  /\ clean = FALSE
  /\ wpc2 = [w \in Workers2 |-> "serving"]
  /\ lpc2 = "off"
  /\ tokens2 = 0
  /\ pipe2 = <<>>
  /\ buf2 = <<>>
  /\ log2 = <<>>
  /\ logFds2 = 0

-----------------------------------------------------------------------------
(* What is left of a server *)

Over == {"done", "killed"}

\* Neither a server nor a child of it holds the other ends of its pipes.
FirstGone == server1 = "down" /\ \A w \in Workers1 : wpc1[w] \in Over
SecondGone == server2 = "down" /\ \A w \in Workers2 : wpc2[w] \in Over

\* What touches the mutex or the condition variable, and dies of SIGBUS while
\* their memory is truncated.
WorkerTouches == {"lock", "signal", "unlock"}
LoggerTouches == {"lock", "wait", "woken", "unlock"}

(***************************************************************************)
(* Mutants: each is an action below with a plausible mistake in it.  None   *)
(* is part of Next; put in the place of its action it breaks a property.   *)
(***************************************************************************)

\* the second server takes the mutex and the condition variable as they are
OpenMemory_AsItIs ==
  /\ server2 = "off"
  /\ server2' = "up"
  /\ lpc2' = "lock"
  /\ clean' = (FirstGone /\ lpc1 = "dead")
  /\ UNCHANGED <<mutex, due, memory, server1, vars1, wpc2, tokens2,
                 pipe2, buf2, log2, logFds2>>

-----------------------------------------------------------------------------
(* The protocol of each server, as long as the memory is there *)

Touches(pc, places) == memory = "ready" \/ pc \notin places

FirstWorker(w) ==
  /\ Touches(wpc1[w], WorkerTouches)
  /\ \/ server1 = "serving" /\ First!CallLog(w)
     \/ First!ReadToken(w)
     \/ First!ReadEndOfFile(w)
     \/ First!WorkerLock(w)
     \/ First!WriteRecord(w)
     \/ First!WorkerUnlock(w)
  /\ UNCHANGED <<due, memory, serverVars, vars2>>

SecondWorker(w) ==
  /\ Touches(wpc2[w], WorkerTouches)
  /\ \/ server2 = "serving" /\ Second!CallLog(w)
     \/ Second!ReadToken(w)
     \/ Second!ReadEndOfFile(w)
     \/ Second!WorkerLock(w)
     \/ Second!WriteRecord(w)
     \/ Second!WorkerUnlock(w)
  /\ UNCHANGED <<due, memory, serverVars, vars1>>

FirstLogger ==
  /\ Touches(lpc1, LoggerTouches)
  /\ \/ First!LoggerLock
     \/ ~FirstGone /\ First!PutToken
     \/ First!CondWaitReturns
     \/ First!OpenLog
     \/ First!OpenLogFails
     \/ First!ReadRecord
     \/ First!AppendLine
     \/ First!LoggerUnlock
  /\ UNCHANGED <<due, memory, serverVars, vars2>>

SecondLogger ==
  /\ Touches(lpc2, LoggerTouches)
  /\ \/ Second!LoggerLock
     \/ ~SecondGone /\ Second!PutToken
     \/ Second!CondWaitReturns
     \/ Second!OpenLog
     \/ Second!ReadRecord
     \/ Second!AppendLine
     \/ Second!LoggerUnlock
  /\ UNCHANGED <<due, memory, serverVars, vars1>>

\* The condition variable counts a waiter ...
LoggersWait ==
  /\ memory = "ready"
  /\ due' = due + 1
  /\ \/ First!CondWait /\ UNCHANGED vars2
     \/ Second!CondWait /\ UNCHANGED vars1
  /\ UNCHANGED <<memory, serverVars>>

\* ... and a signal it owes one wakes any logger that sleeps on it, also one
\* that the initialisation made it forget.
Wake ==
  \/ /\ due = 0 \/ "waiting" \notin {lpc1, lpc2}
     /\ UNCHANGED <<lpc1, lpc2>>
  \/ /\ due > 0
     /\ lpc1 = "waiting"
     /\ lpc1' = "woken"
     /\ UNCHANGED lpc2
  \/ /\ due > 0
     /\ lpc2 = "waiting"
     /\ lpc2' = "woken"
     /\ UNCHANGED lpc1

Signal ==
  /\ memory = "ready"
  /\ \/ \E w \in Workers1 : First!WorkerGoes(w, "signal", "unlock")
        /\ UNCHANGED wpc2
     \/ \E w \in Workers2 : Second!WorkerGoes(w, "signal", "unlock")
        /\ UNCHANGED wpc1
  /\ Wake
  /\ due' = IF due = 0 THEN 0 ELSE due - 1
  /\ UNCHANGED <<mutex, memory, serverVars, tokens1, pipe1, buf1, log1,
                 logFds1, tokens2, pipe2, buf2, log2, logFds2>>

-----------------------------------------------------------------------------
(* Orphans *)

\* Nobody can write to the log pipe any more: read() returns 0, and the logger
\* writes a line without a message, which is none of the records of log.
ReadNothing ==
  /\ \/ FirstGone /\ pipe1 = <<>> /\ First!LoggerGoes("read", "append")
        /\ UNCHANGED <<wpc1, tokens1, pipe1, buf1, log1, logFds1, vars2>>
     \/ SecondGone /\ pipe2 = <<>> /\ Second!LoggerGoes("read", "append")
        /\ UNCHANGED <<wpc2, tokens2, pipe2, buf2, log2, logFds2, vars1>>
  /\ UNCHANGED <<mutex, due, memory, serverVars>>

\* Nobody can read the token: SIGPIPE ends the logger, with the mutex locked.
TokenKills ==
  \/ /\ FirstGone
     /\ First!LoggerGoes("token", "dead")
     /\ UNCHANGED <<mutex, due, memory, serverVars, wpc1, tokens1,
                    pipe1, buf1, log1, logFds1, vars2>>
  \/ /\ SecondGone
     /\ Second!LoggerGoes("token", "dead")
     /\ UNCHANGED <<mutex, due, memory, serverVars, wpc2, tokens2,
                    pipe2, buf2, log2, logFds2, vars1>>

\* The handlers of one process end with it; its server, if they are threads.
FirstEnds(process) ==
  /\ wpc1' = [w \in Workers1 |-> IF w \in process /\ wpc1[w] \notin Over
                                   THEN "killed" ELSE wpc1[w]]
  /\ server1' = IF Threads1 \subseteq process THEN "down" ELSE server1
  /\ UNCHANGED <<mutex, due, memory, server2, clean, lpc1, tokens1,
                 pipe1, buf1, log1, logFds1, vars2>>

Process(w, threads) == IF w \in threads THEN threads ELSE {w}

\* write() to a log pipe whose logger is dead
RecordKills ==
  /\ lpc1 = "dead"
  /\ \E w \in Workers1 : wpc1[w] = "write" /\ FirstEnds(Process(w, Threads1))

\* SIGBUS: the memory of the mutex has been truncated.
TruncationKills ==
  /\ memory = "truncated"
  /\ \/ \E w \in Workers1 : /\ wpc1[w] \in WorkerTouches
                            /\ FirstEnds(Process(w, Threads1))
     \/ /\ lpc1 \in LoggerTouches
        /\ lpc1' = "dead"
        /\ UNCHANGED <<mutex, due, memory, serverVars, wpc1, tokens1,
                       pipe1, buf1, log1, logFds1, vars2>>

\* A process of the first server is killed, wherever it is.
CrashFirst ==
  \/ /\ server1 = "serving"
     /\ FirstEnds(Threads1)
  \/ \E w \in Workers1 \ Threads1 : wpc1[w] \notin Over /\ FirstEnds({w})
  \/ /\ lpc1 # "dead"
     /\ lpc1' = "dead"
     /\ UNCHANGED <<mutex, due, memory, serverVars, wpc1, tokens1,
                    pipe1, buf1, log1, logFds1, vars2>>

-----------------------------------------------------------------------------
(* The second server starts: socket_pipe_single_process, then linux_socket *)

\* shm_open with O_TRUNC
OpenMemory ==
  /\ server2 = "off"
  /\ server2' = "opening"
  /\ memory' = "truncated"
  /\ clean' = (FirstGone /\ lpc1 = "dead")
  /\ UNCHANGED <<mutex, due, server1, vars1, vars2>>

\* ftruncate: all zero, which is a free mutex and no waiters
SizeMemory ==
  /\ server2 = "opening"
  /\ server2' = "sized"
  /\ memory' = "ready"
  /\ mutex' = NoOne
  /\ due' = 0
  /\ UNCHANGED <<server1, clean, vars1, vars2>>

\* pthread_mutex_init, pthread_cond_init, whoever has taken the mutex since;
\* then the logger is forked.
InitMemory ==
  /\ server2 = "sized"
  /\ server2' = "up"
  /\ mutex' = NoOne
  /\ due' = 0
  /\ lpc2' = "lock"
  /\ UNCHANGED <<memory, server1, clean, vars1, wpc2, tokens2, pipe2,
                 buf2, log2, logFds2>>

\* bind() comes last; it fails when the first server listens on that port.
Bind ==
  /\ server2 = "up"
  /\ server2' = "serving"
  /\ UNCHANGED <<mutex, due, memory, server1, clean, vars1, vars2>>

BindFails ==
  /\ server2 = "up"
  /\ server1 = "serving"
  /\ server2' = "down"
  /\ wpc2' = [w \in Workers2 |-> "killed"]
  /\ UNCHANGED <<mutex, due, memory, server1, clean, vars1, lpc2, tokens2,
                 pipe2, buf2, log2, logFds2>>

-----------------------------------------------------------------------------

StartStep == SizeMemory \/ InitMemory \/ Bind \/ BindFails

SecondStep ==
  \/ StartStep
  \/ SecondLogger
  \/ \E w \in Workers2 : SecondWorker(w)

Next ==
  \/ OpenMemory
  \/ SecondStep
  \/ FirstLogger
  \/ \E w \in Workers1 : FirstWorker(w)
  \/ LoggersWait
  \/ Signal
  \/ ReadNothing
  \/ TokenKills
  \/ RecordKills
  \/ TruncationKills
  \/ CrashFirst

Spec == Init /\ [][Next]_vars

\* What runs is scheduled.  Nothing is owed by whoever kills or starts a
\* server.
Fairness ==
  /\ WF_vars(SecondLogger)
  /\ WF_vars(LoggersWait)
  /\ WF_vars(Signal)
  /\ WF_vars(StartStep)
  /\ \A w \in Workers2 : WF_vars(SecondWorker(w))

FairSpec == Spec /\ Fairness

-----------------------------------------------------------------------------
(* Properties *)

\* Each server's records stay its own, in order, none twice and one on its way
\* at most, through the crash of the one and the start of the other on the same
\* mutex: the token and the pipes see to it, which are never shared.
BothLogsSafe == First!AccessLogSafety /\ Second!AccessLogSafety

\* A server that starts after everything of the previous one has ended logs
\* every record, wherever the previous one was killed: also with the mutex
\* locked.
CrashRecovery ==
  \A w \in Workers2 :
    (clean /\ wpc2[w] = "sync")
      ~> wpc2[w] = "done" /\ \E i \in 1..Len(log2) : log2[i] = w

==============================================================================
