--------------------------- MODULE LogRestart_proofs ---------------------------
(***************************************************************************)
(* The records of two servers on one mutex, whoever is killed.             *)
(***************************************************************************)
EXTENDS LogRestart, TLAPS

\* Each server, as a server with a token and nothing else to rely on.
FirstToken ==
  INSTANCE LogToken_proofs WITH
    Workers <- Workers1, IOErrors <- FALSE, wpc <- wpc1, lpc <- lpc1, tokens <- tokens1,
    pipe <- pipe1, buf <- buf1, log <- log1

SecondToken ==
  INSTANCE LogToken_proofs WITH
    Workers <- Workers2, IOErrors <- FALSE, wpc <- wpc2, lpc <- lpc2, tokens <- tokens2,
    pipe <- pipe2, buf <- buf2, log <- log2

-----------------------------------------------------------------------------
(* What the steps do to each server *)

LEMMA FirstInit == Init => FirstToken!Init
  BY DEF Init, First!Init, FirstToken!Init

LEMMA SecondInit == Init => SecondToken!Init
  BY DEF Init, SecondToken!Init

LEMMA FirstHandlers ==
  ASSUME NEW w \in Workers1, FirstWorker(w)
  PROVE  FirstToken!WorkerStep(w) /\ UNCHANGED SecondToken!vars
  BY DEF FirstWorker, vars2, First!CallLog, First!ReadToken, First!ReadEndOfFile,
     First!WorkerLock, First!WriteRecord, First!WorkerUnlock, First!WorkerGoes,
     FirstToken!WorkerStep, FirstToken!CallLog, FirstToken!ReadToken,
     FirstToken!ReadEndOfFile, FirstToken!WorkerLock, FirstToken!WriteRecord,
     FirstToken!WorkerUnlock, FirstToken!WorkerGoes, SecondToken!vars

LEMMA SecondHandlers ==
  ASSUME NEW w \in Workers2, SecondWorker(w)
  PROVE  SecondToken!WorkerStep(w) /\ UNCHANGED FirstToken!vars
  BY DEF SecondWorker, vars1, Second!CallLog, Second!ReadToken,
     Second!ReadEndOfFile, Second!WorkerLock, Second!WriteRecord,
     Second!WorkerUnlock, Second!WorkerGoes, SecondToken!WorkerStep,
     SecondToken!CallLog, SecondToken!ReadToken, SecondToken!ReadEndOfFile,
     SecondToken!WorkerLock, SecondToken!WriteRecord, SecondToken!WorkerUnlock,
     SecondToken!WorkerGoes, FirstToken!vars

LEMMA FirstLoggers ==
  ASSUME FirstLogger
  PROVE  FirstToken!LoggerStep /\ UNCHANGED SecondToken!vars
  BY DEF FirstLogger, vars2, First!LoggerLock, First!PutToken,
     First!CondWaitReturns, First!OpenLog, First!OpenLogFails, First!ReadRecord,
     First!AppendLine, First!LoggerUnlock, First!LoggerGoes,
     FirstToken!LoggerStep, FirstToken!LoggerMoves, FirstToken!PutToken,
     FirstToken!ReadRecord, FirstToken!AppendLine, FirstToken!LoggerDies,
     FirstToken!LoggerGoes, SecondToken!vars

LEMMA SecondLoggers ==
  ASSUME SecondLogger
  PROVE  SecondToken!LoggerStep /\ UNCHANGED FirstToken!vars
  BY DEF SecondLogger, vars1, Second!LoggerLock, Second!PutToken,
     Second!CondWaitReturns, Second!OpenLog, Second!ReadRecord,
     Second!AppendLine, Second!LoggerUnlock, Second!LoggerGoes,
     SecondToken!LoggerStep, SecondToken!LoggerMoves, SecondToken!PutToken,
     SecondToken!ReadRecord, SecondToken!AppendLine, SecondToken!LoggerDies,
     SecondToken!LoggerGoes, FirstToken!vars

\* Either logger goes to sleep.
LEMMA LoggersSleep ==
  ASSUME LoggersWait
  PROVE  [FirstToken!Next]_(FirstToken!vars) /\ [SecondToken!Next]_(SecondToken!vars)
<1>1. CASE First!CondWait /\ UNCHANGED vars2
  BY <1>1 DEF vars2, First!CondWait, First!LoggerGoes, FirstToken!Next,
     FirstToken!LoggerStep, FirstToken!LoggerMoves, FirstToken!LoggerGoes,
     SecondToken!vars
<1>2. CASE Second!CondWait /\ UNCHANGED vars1
  BY <1>2 DEF vars1, Second!CondWait, Second!LoggerGoes, SecondToken!Next,
     SecondToken!LoggerStep, SecondToken!LoggerMoves, SecondToken!LoggerGoes,
     FirstToken!vars
<1> QED
  BY <1>1, <1>2 DEF LoggersWait

\* A signal of a handler of one server wakes its own logger, the other one's, or
\* nobody.
LEMMA Signals ==
  ASSUME Signal
  PROVE  [FirstToken!Next]_(FirstToken!vars) /\ [SecondToken!Next]_(SecondToken!vars)
<1>1. /\ UNCHANGED <<tokens1, pipe1, buf1, log1, tokens2, pipe2, buf2, log2>>
      /\ lpc1' = lpc1 \/ (lpc1 = "waiting" /\ lpc1' = "woken")
      /\ lpc2' = lpc2 \/ (lpc2 = "waiting" /\ lpc2' = "woken")
  BY DEF Signal, Wake
<1>2. wpc1' = wpc1 => [FirstToken!Next]_(FirstToken!vars)
  BY <1>1 DEF FirstToken!Next, FirstToken!LoggerStep, FirstToken!LoggerMoves,
     FirstToken!LoggerGoes, FirstToken!vars
<1>3. wpc2' = wpc2 => [SecondToken!Next]_(SecondToken!vars)
  BY <1>1 DEF SecondToken!Next, SecondToken!LoggerStep, SecondToken!LoggerMoves,
     SecondToken!LoggerGoes, SecondToken!vars
<1>4. ASSUME NEW w \in Workers1, First!WorkerGoes(w, "signal", "unlock")
      PROVE  FirstToken!Next
  BY <1>1, <1>4 DEF First!WorkerGoes, FirstToken!Next, FirstToken!WorkerStep,
     FirstToken!Signal, FirstToken!WorkerGoes
<1>5. ASSUME NEW w \in Workers2, Second!WorkerGoes(w, "signal", "unlock")
      PROVE  SecondToken!Next
  BY <1>1, <1>5 DEF Second!WorkerGoes, SecondToken!Next, SecondToken!WorkerStep,
     SecondToken!Signal, SecondToken!WorkerGoes
<1> QED
  BY <1>2, <1>3, <1>4, <1>5 DEF Signal

\* A process of the first server ends, whatever ended it.
LEMMA FirstProcessEnds ==
  ASSUME NEW process \in SUBSET Workers1, FirstEnds(process)
  PROVE  FirstToken!Next /\ UNCHANGED SecondToken!vars
<1>1. FirstToken!WorkersDie(process)
  BY DEF FirstEnds, Over, FirstToken!WorkersDie, FirstToken!Over
<1> QED
  BY <1>1 DEF FirstEnds, vars2, FirstToken!Next, SecondToken!vars

LEMMA FirstLoggerEnds ==
  ASSUME lpc1' = "dead", UNCHANGED <<wpc1, tokens1, pipe1, buf1, log1, vars2>>
  PROVE  FirstToken!Next /\ UNCHANGED SecondToken!vars
  BY DEF vars2, FirstToken!Next, FirstToken!LoggerStep, FirstToken!LoggerDies,
     SecondToken!vars

LEMMA Deaths ==
  ASSUME RecordKills \/ TruncationKills \/ CrashFirst \/ TokenKills
  PROVE  [FirstToken!Next]_(FirstToken!vars) /\ [SecondToken!Next]_(SecondToken!vars)
<1>1. \A w \in Workers1 : Process(w, Threads1) \in SUBSET Workers1
  BY RestartAssumption DEF Process
<1>2. CASE RecordKills
  BY <1>1, <1>2, FirstProcessEnds DEF RecordKills
<1>3. CASE TruncationKills
  <2>1. CASE \E w \in Workers1 : /\ wpc1[w] \in WorkerTouches
                                 /\ FirstEnds(Process(w, Threads1))
    BY <1>1, <2>1, FirstProcessEnds
  <2>2. CASE ~\E w \in Workers1 : /\ wpc1[w] \in WorkerTouches
                                  /\ FirstEnds(Process(w, Threads1))
    BY <1>3, <2>2, FirstLoggerEnds DEF TruncationKills
  <2> QED
    BY <2>1, <2>2
<1>4. CASE CrashFirst
  <2>1. Threads1 \in SUBSET Workers1 /\ \A w \in Workers1 \ Threads1 : {w} \in SUBSET Workers1
    BY RestartAssumption
  <2>2. \/ \E process \in SUBSET Workers1 : FirstEnds(process)
        \/ lpc1' = "dead" /\ UNCHANGED <<wpc1, tokens1, pipe1, buf1, log1, vars2>>
    BY <1>4, <2>1 DEF CrashFirst
  <2> QED
    BY <2>2, FirstProcessEnds, FirstLoggerEnds
<1>5. CASE TokenKills
  <2>1. CASE First!LoggerGoes("token", "dead")
             /\ UNCHANGED <<wpc1, tokens1, pipe1, buf1, log1, vars2>>
    BY <2>1, FirstLoggerEnds DEF First!LoggerGoes
  <2>2. CASE Second!LoggerGoes("token", "dead")
             /\ UNCHANGED <<wpc2, tokens2, pipe2, buf2, log2, vars1>>
    BY <2>2 DEF Second!LoggerGoes, vars1, SecondToken!Next,
       SecondToken!LoggerStep, SecondToken!LoggerDies, FirstToken!vars
  <2> QED
    BY <1>5, <2>1, <2>2 DEF TokenKills
<1> QED
  BY <1>2, <1>3, <1>4, <1>5

LEMMA OrphansRead ==
  ASSUME ReadNothing
  PROVE  [FirstToken!Next]_(FirstToken!vars) /\ [SecondToken!Next]_(SecondToken!vars)
<1>1. CASE /\ FirstGone /\ pipe1 = <<>> /\ First!LoggerGoes("read", "append")
           /\ UNCHANGED <<wpc1, tokens1, pipe1, buf1, log1, logFds1, vars2>>
  BY <1>1 DEF FirstGone, Over, vars2, First!LoggerGoes, FirstToken!Next,
     FirstToken!LoggerStep, FirstToken!ReadNothing, FirstToken!Over,
     FirstToken!LoggerGoes, SecondToken!vars
<1>2. CASE /\ SecondGone /\ pipe2 = <<>> /\ Second!LoggerGoes("read", "append")
           /\ UNCHANGED <<wpc2, tokens2, pipe2, buf2, log2, logFds2, vars1>>
  BY <1>2 DEF SecondGone, Over, vars1, Second!LoggerGoes, SecondToken!Next,
     SecondToken!LoggerStep, SecondToken!ReadNothing, SecondToken!Over,
     SecondToken!LoggerGoes, FirstToken!vars
<1> QED
  BY <1>1, <1>2 DEF ReadNothing


\* Until the second server starts its logger and its handlers are as they were.
NotStarted ==
  /\ server2 \in {"off", "opening", "sized"} => lpc2 = "off"
  /\ server2 \in {"off", "opening", "sized", "up"} =>
       \A w \in Workers2 : wpc2[w] = "serving"

LEMMA InitNotStarted == Init => NotStarted
  BY DEF Init, NotStarted

LEMMA StepNotStarted == NotStarted /\ [Next]_vars => NotStarted'
<1> SUFFICES ASSUME NotStarted, [Next]_vars PROVE NotStarted'
  OBVIOUS
<1> USE DEF NotStarted
<1>1. CASE UNCHANGED vars
  BY <1>1 DEF vars, serverVars, vars2
<1>2. CASE OpenMemory
  BY <1>2 DEF OpenMemory, vars2
<1>3. CASE StartStep
  BY <1>3 DEF StartStep, SizeMemory, InitMemory, Bind, BindFails, vars2
<1>4. CASE SecondLogger
  BY <1>4 DEF SecondLogger, serverVars, Second!LoggerLock, Second!PutToken,
     Second!CondWaitReturns, Second!OpenLog, Second!ReadRecord,
     Second!AppendLine, Second!LoggerUnlock, Second!LoggerGoes
<1>5. CASE \E w \in Workers2 : SecondWorker(w)
  BY <1>5 DEF SecondWorker, serverVars, Second!CallLog, Second!ReadToken,
     Second!ReadEndOfFile, Second!WorkerLock, Second!WriteRecord,
     Second!WorkerUnlock, Second!WorkerGoes
<1>6. CASE FirstLogger \/ \E w \in Workers1 : FirstWorker(w)
  BY <1>6 DEF FirstLogger, FirstWorker, serverVars, vars2
<1>7. CASE LoggersWait
  BY <1>7 DEF LoggersWait, Second!CondWait, Second!LoggerGoes, serverVars, vars2
<1>8. CASE Signal
  BY <1>8 DEF Signal, Wake, Second!WorkerGoes, serverVars
<1>9. CASE ReadNothing
  BY <1>9 DEF ReadNothing, Second!LoggerGoes, serverVars, vars2
<1>10. CASE TokenKills
  BY <1>10 DEF TokenKills, Second!LoggerGoes, serverVars, vars2
<1>11. CASE RecordKills \/ TruncationKills \/ CrashFirst
  BY <1>11 DEF RecordKills, TruncationKills, CrashFirst, FirstEnds, serverVars,
     vars2
<1> QED
  BY <1>1, <1>2, <1>3, <1>4, <1>5, <1>6, <1>7, <1>8, <1>9, <1>10, <1>11
  DEF Next, SecondStep

\* The start of the second server: its logger is forked, or its handlers are
\* never started.
LEMMA Starts ==
  ASSUME NotStarted, OpenMemory \/ StartStep
  PROVE  /\ UNCHANGED FirstToken!vars
         /\ [SecondToken!Next]_(SecondToken!vars)
<1>1. CASE OpenMemory \/ SizeMemory \/ Bind
  BY <1>1 DEF OpenMemory, SizeMemory, Bind, vars1, vars2, FirstToken!vars,
     SecondToken!vars
<1>2. CASE InitMemory
  BY <1>2 DEF InitMemory, NotStarted, vars1, FirstToken!vars, SecondToken!Next,
     SecondToken!LoggerStep, SecondToken!LoggerMoves, SecondToken!LoggerGoes
<1>3. CASE BindFails
  <2>1. SecondToken!WorkersDie(Workers2)
    BY <1>3 DEF BindFails, NotStarted, SecondToken!WorkersDie, SecondToken!Over
  <2>2. UNCHANGED FirstToken!vars
    BY <1>3 DEF BindFails, vars1, FirstToken!vars
  <2> QED
    BY <2>1, <2>2 DEF SecondToken!Next
<1> QED
  BY <1>1, <1>2, <1>3 DEF StartStep

\* Every step is one of each server with a token, or leaves it alone.
LEMMA StepBoth ==
  ASSUME NotStarted, [Next]_vars
  PROVE  [FirstToken!Next]_(FirstToken!vars) /\ [SecondToken!Next]_(SecondToken!vars)
<1>1. CASE UNCHANGED vars
  BY <1>1 DEF vars, vars1, vars2, FirstToken!vars, SecondToken!vars
<1>2. CASE OpenMemory \/ StartStep
  BY <1>2, Starts
<1>3. CASE SecondLogger
  BY <1>3, SecondLoggers DEF SecondToken!Next
<1>4. CASE \E w \in Workers2 : SecondWorker(w)
  BY <1>4, SecondHandlers DEF SecondToken!Next
<1>5. CASE FirstLogger
  BY <1>5, FirstLoggers DEF FirstToken!Next
<1>6. CASE \E w \in Workers1 : FirstWorker(w)
  BY <1>6, FirstHandlers DEF FirstToken!Next
<1>7. CASE LoggersWait
  BY <1>7, LoggersSleep
<1>8. CASE Signal
  BY <1>8, Signals
<1>9. CASE ReadNothing
  BY <1>9, OrphansRead
<1>10. CASE RecordKills \/ TruncationKills \/ CrashFirst \/ TokenKills
  BY <1>10, Deaths
<1> QED
  BY <1>1, <1>2, <1>3, <1>4, <1>5, <1>6, <1>7, <1>8, <1>9, <1>10
  DEF Next, SecondStep

-----------------------------------------------------------------------------

\* Each half of the two servers is a server with a token, and nothing it owes to
\* the mutex it shares.
THEOREM EachHasItsToken == Spec => FirstToken!Spec /\ SecondToken!Spec
<1>1. Init => FirstToken!Init /\ SecondToken!Init /\ NotStarted
  BY FirstInit, SecondInit, InitNotStarted
<1>2. NotStarted /\ [Next]_vars =>
        /\ NotStarted'
        /\ [FirstToken!Next]_(FirstToken!vars)
        /\ [SecondToken!Next]_(SecondToken!vars)
  BY StepNotStarted, StepBoth
<1> QED
  BY <1>1, <1>2, PTL DEF Spec, FirstToken!Spec, SecondToken!Spec

\* BothLogsSafe: whichever processes of the first server die, and wherever, and
\* while the second server truncates and initialises the mutex that the first one
\* still uses (socket_pipe_single_process), no record of either server is lost
\* between, doubled in or moved within its log.
THEOREM RestartLogsSafe == Spec => BothLogsSafe
<1>1. Spec => FirstToken!AccessLogSafety
  BY EachHasItsToken, FirstToken!TokenIsEnough, PTL
<1>2. Spec => SecondToken!AccessLogSafety
  BY EachHasItsToken, SecondToken!TokenIsEnough, PTL
<1>3. FirstToken!AccessLogSafety <=> First!AccessLogSafety
  <2>1. FirstToken!AL!Init <=> First!AL!Init
    BY DEF FirstToken!AL!Init, First!AL!Init
  <2>2. [FirstToken!AL!Next]_(FirstToken!AL!alVars) <=> [First!AL!Next]_(First!AL!alVars)
    BY DEF FirstToken!AL!Next, First!AL!Next, FirstToken!AL!alVars,
       First!AL!alVars, FirstToken!AL!Accept, First!AL!Accept, FirstToken!AL!Record,
       First!AL!Record, FirstToken!AL!Lose, First!AL!Lose
  <2> QED
    BY <2>1, <2>2, PTL DEF FirstToken!AccessLogSafety, First!AccessLogSafety,
       FirstToken!AL!Spec, First!AL!Spec
<1>4. SecondToken!AccessLogSafety <=> Second!AccessLogSafety
  <2>1. SecondToken!AL!Init <=> Second!AL!Init
    BY DEF SecondToken!AL!Init, Second!AL!Init
  <2>2. [SecondToken!AL!Next]_(SecondToken!AL!alVars) <=> [Second!AL!Next]_(Second!AL!alVars)
    BY DEF SecondToken!AL!Next, Second!AL!Next, SecondToken!AL!alVars,
       Second!AL!alVars, SecondToken!AL!Accept, Second!AL!Accept, SecondToken!AL!Record,
       Second!AL!Record, SecondToken!AL!Lose, Second!AL!Lose
  <2> QED
    BY <2>1, <2>2, PTL DEF SecondToken!AccessLogSafety, Second!AccessLogSafety,
       SecondToken!AL!Spec, Second!AL!Spec
<1> QED
  BY <1>1, <1>2, <1>3, <1>4, PTL DEF BothLogsSafe

=============================================================================
