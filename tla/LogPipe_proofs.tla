---------------------------- MODULE LogPipe_proofs ----------------------------
(***************************************************************************)
(* Proofs about LogPipe, for any set of handlers, any number of descriptors *)
(* and any capacity of the log pipe.                                       *)
(***************************************************************************)
EXTENDS LogPipe, TLAPS

(***************************************************************************)
(* The inductive invariant.  The token is the point of the protocol: there *)
(* is one for each round of the logger, and it is in the synchronisation   *)
(* pipe, or with one handler, or has become a message, or is spent.        *)
(***************************************************************************)

\* w has taken the token and not yet written its record
HasToken(w) == wpc[w] \in {"lock", "write"}

\* w has written its record
HasWritten(w) == wpc[w] \in {"signal", "unlock", "done", "killed"}

TokenSpent == tokens = 0 /\ pipe = <<>> /\ \A w \in Workers : ~HasToken(w)

TokenInPipe == tokens = 1 /\ pipe = <<>> /\ \A w \in Workers : ~HasToken(w)

TokenWithHandler ==
  /\ tokens = 0
  /\ pipe = <<>>
  /\ \A v, w \in Workers : HasToken(v) /\ HasToken(w) => v = w

TokenIsMessage ==
  /\ tokens = 0
  /\ Len(pipe) = 1
  /\ \A w \in Workers : ~HasToken(w)

OneToken ==
  IF lpc \in {"lock", "token", "append", "unlock"}
    THEN TokenSpent
    ELSE TokenInPipe \/ TokenWithHandler \/ TokenIsMessage

\* The logger keeps a message only between reading it and writing the line.
BufferMatchesPC == IF lpc = "append" THEN Len(buf) = 1 ELSE buf = <<>>

\* Everything on its way or recorded came from a handler past its write().
SendersHaveWritten ==
  /\ \A i \in 1..Len(log) : HasWritten(log[i])
  /\ \A i \in 1..Len(buf) : HasWritten(buf[i])
  /\ \A i \in 1..Len(pipe) : HasWritten(pipe[i])

Inv ==
  /\ TypeOK
  /\ MutualExclusion
  /\ AtMostOneInFlight
  /\ lpc # "dead" => OneToken /\ BufferMatchesPC
  /\ SendersHaveWritten

\* What a signal carries, when wake-ups are not spurious.
SignalInv ==
  /\ lpc = "wait" => pipe = <<>>
  /\ lpc \in {"woken", "open", "read"} => pipe # <<>>
  /\ lpc = "waiting" => (pipe # <<>> <=> \E w \in Workers : wpc[w] = "signal")
  /\ SignalFindsWaiter

-----------------------------------------------------------------------------
(* Each part of the invariant is preserved by every step. *)

\* Every variable keeps its type.
LEMMA TypeStep ==
  ASSUME TypeOK, [Next]_vars
  PROVE  TypeOK'
<1> USE WorkersAssumption, BoundsAssumption
<1>1. CASE LoggerLock
  BY <1>1 DEF LoggerLock, LoggerGoes, TypeOK, WorkerPC, LoggerPC
<1>2. CASE PutToken
  BY <1>2 DEF PutToken, LoggerGoes, TypeOK, WorkerPC, LoggerPC
<1>3. CASE CondWait
  BY <1>3 DEF CondWait, LoggerGoes, TypeOK, WorkerPC, LoggerPC
<1>4. CASE CondWaitReturns
  BY <1>4 DEF CondWaitReturns, LoggerGoes, TypeOK, WorkerPC, LoggerPC
<1>5. CASE OpenLog
  BY <1>5 DEF OpenLog, LoggerGoes, TypeOK, WorkerPC, LoggerPC
<1>6. CASE OpenLogFails
  BY <1>6 DEF OpenLogFails, LoggerGoes, TypeOK, WorkerPC, LoggerPC
<1>7. CASE ReadRecord
  BY <1>7 DEF ReadRecord, LoggerGoes, TypeOK, WorkerPC, LoggerPC
<1>8. CASE AppendLine
  BY <1>8 DEF AppendLine, LoggerGoes, TypeOK, WorkerPC, LoggerPC
<1>9. CASE LoggerUnlock
  BY <1>9 DEF LoggerUnlock, LoggerGoes, TypeOK, WorkerPC, LoggerPC
<1>10. CASE WakeSpuriously
  BY <1>10 DEF WakeSpuriously, LoggerGoes, TypeOK, WorkerPC, LoggerPC
<1>11. CASE LoggerHangup
  BY <1>11 DEF LoggerHangup, TypeOK, WorkerPC, LoggerPC
<1>12. ASSUME NEW w \in Workers, CallLog(w)  PROVE  TypeOK'
  BY <1>12 DEF CallLog, WorkerGoes, TypeOK, WorkerPC, LoggerPC
<1>13. ASSUME NEW w \in Workers, ReadToken(w)  PROVE  TypeOK'
  BY <1>13 DEF ReadToken, WorkerGoes, TypeOK, WorkerPC, LoggerPC
<1>14. ASSUME NEW w \in Workers, ReadEndOfFile(w)  PROVE  TypeOK'
  BY <1>14 DEF ReadEndOfFile, WorkerGoes, TypeOK, WorkerPC, LoggerPC
<1>15. ASSUME NEW w \in Workers, WorkerLock(w)  PROVE  TypeOK'
  BY <1>15 DEF WorkerLock, WorkerGoes, TypeOK, WorkerPC, LoggerPC
<1>16. ASSUME NEW w \in Workers, WriteRecord(w)  PROVE  TypeOK'
  BY <1>16 DEF WriteRecord, WorkerGoes, TypeOK, WorkerPC, LoggerPC
<1>17. ASSUME NEW w \in Workers, KilledBySigpipe(w)  PROVE  TypeOK'
  BY <1>17 DEF KilledBySigpipe, TypeOK, WorkerPC, LoggerPC
<1>18. ASSUME NEW w \in Workers, Signal(w)  PROVE  TypeOK'
  BY <1>18 DEF Signal, WorkerGoes, TypeOK, WorkerPC, LoggerPC
<1>19. ASSUME NEW w \in Workers, WorkerUnlock(w)  PROVE  TypeOK'
  BY <1>19 DEF WorkerUnlock, WorkerGoes, TypeOK, WorkerPC, LoggerPC
<1>20. CASE PutTokenFails
  BY <1>20 DEF PutTokenFails, LoggerGoes, TypeOK, WorkerPC, LoggerPC
<1>21. CASE AppendLineFails
  BY <1>21 DEF AppendLineFails, LoggerGoes, TypeOK, WorkerPC, LoggerPC
<1>22. ASSUME NEW w \in Workers, WriteFails(w)  PROVE  TypeOK'
  BY <1>22 DEF WriteFails, WorkerGoes, TypeOK, WorkerPC, LoggerPC
<1>23. CASE UNCHANGED vars
  BY <1>23 DEF vars, TypeOK, WorkerPC, LoggerPC
<1> QED
  BY <1>1, <1>2, <1>3, <1>4, <1>5, <1>6, <1>7, <1>8, <1>9, <1>10, <1>11,
     <1>12, <1>13, <1>14, <1>15, <1>16, <1>17, <1>18, <1>19, <1>20,
     <1>21, <1>22, <1>23
     DEF Next, LoggerStep, WorkerStep

\* The mutex is taken only when free and released only by its owner.
LEMMA MutexStep ==
  ASSUME TypeOK, MutualExclusion, [Next]_vars
  PROVE  MutualExclusion'
<1> USE WorkersAssumption
<1>1. CASE LoggerLock
  BY <1>1 DEF LoggerLock, LoggerGoes, TypeOK, MutualExclusion
<1>2. CASE PutToken
  BY <1>2 DEF PutToken, LoggerGoes, TypeOK, MutualExclusion
<1>3. CASE CondWait
  BY <1>3 DEF CondWait, LoggerGoes, TypeOK, MutualExclusion
<1>4. CASE CondWaitReturns
  BY <1>4 DEF CondWaitReturns, LoggerGoes, TypeOK, MutualExclusion
<1>5. CASE OpenLog
  BY <1>5 DEF OpenLog, LoggerGoes, TypeOK, MutualExclusion
<1>6. CASE OpenLogFails
  BY <1>6 DEF OpenLogFails, LoggerGoes, TypeOK, MutualExclusion
<1>7. CASE ReadRecord
  BY <1>7 DEF ReadRecord, LoggerGoes, TypeOK, MutualExclusion
<1>8. CASE AppendLine
  BY <1>8 DEF AppendLine, LoggerGoes, TypeOK, MutualExclusion
<1>9. CASE LoggerUnlock
  BY <1>9 DEF LoggerUnlock, LoggerGoes, TypeOK, MutualExclusion
<1>10. CASE WakeSpuriously
  BY <1>10 DEF WakeSpuriously, LoggerGoes, TypeOK, MutualExclusion
<1>11. CASE LoggerHangup
  BY <1>11 DEF LoggerHangup, TypeOK, MutualExclusion
<1>12. ASSUME NEW w \in Workers, CallLog(w)  PROVE  MutualExclusion'
  BY <1>12 DEF CallLog, WorkerGoes, TypeOK, MutualExclusion
<1>13. ASSUME NEW w \in Workers, ReadToken(w)  PROVE  MutualExclusion'
  BY <1>13 DEF ReadToken, WorkerGoes, TypeOK, MutualExclusion
<1>14. ASSUME NEW w \in Workers, ReadEndOfFile(w)  PROVE  MutualExclusion'
  BY <1>14 DEF ReadEndOfFile, WorkerGoes, TypeOK, MutualExclusion
<1>15. ASSUME NEW w \in Workers, WorkerLock(w)  PROVE  MutualExclusion'
  BY <1>15 DEF WorkerLock, WorkerGoes, TypeOK, MutualExclusion
<1>16. ASSUME NEW w \in Workers, WriteRecord(w)  PROVE  MutualExclusion'
  BY <1>16 DEF WriteRecord, WorkerGoes, TypeOK, MutualExclusion
<1>17. ASSUME NEW w \in Workers, KilledBySigpipe(w)  PROVE  MutualExclusion'
  BY <1>17 DEF KilledBySigpipe, TypeOK, MutualExclusion
<1>18. ASSUME NEW w \in Workers, Signal(w)  PROVE  MutualExclusion'
  BY <1>18 DEF Signal, WorkerGoes, TypeOK, MutualExclusion
<1>19. ASSUME NEW w \in Workers, WorkerUnlock(w)  PROVE  MutualExclusion'
  BY <1>19 DEF WorkerUnlock, WorkerGoes, TypeOK, MutualExclusion
<1>20. CASE PutTokenFails
  BY <1>20 DEF PutTokenFails, LoggerGoes, TypeOK, MutualExclusion
<1>21. CASE AppendLineFails
  BY <1>21 DEF AppendLineFails, LoggerGoes, TypeOK, MutualExclusion
<1>22. ASSUME NEW w \in Workers, WriteFails(w)  PROVE  MutualExclusion'
  BY <1>22 DEF WriteFails, WorkerGoes, TypeOK, MutualExclusion
<1>23. CASE UNCHANGED vars
  BY <1>23 DEF vars, TypeOK, MutualExclusion
<1> QED
  BY <1>1, <1>2, <1>3, <1>4, <1>5, <1>6, <1>7, <1>8, <1>9, <1>10, <1>11,
     <1>12, <1>13, <1>14, <1>15, <1>16, <1>17, <1>18, <1>19, <1>20,
     <1>21, <1>22, <1>23
     DEF Next, LoggerStep, WorkerStep

\* The token is never doubled: the logger puts one in only when the last one
\* is spent, and only one handler can turn it into a message.
LEMMA TokenStep ==
  ASSUME TypeOK, MutualExclusion, lpc # "dead" => OneToken,
         [Next]_vars, lpc' # "dead"
  PROVE  OneToken'
<1> USE WorkersAssumption
<1>1. CASE LoggerLock
  BY <1>1
     DEF LoggerLock, LoggerGoes, TypeOK, MutualExclusion, OneToken,
         TokenSpent, TokenInPipe, TokenWithHandler, TokenIsMessage, HasToken
<1>2. CASE PutToken
  BY <1>2
     DEF PutToken, LoggerGoes, TypeOK, MutualExclusion, OneToken, TokenSpent,
         TokenInPipe, TokenWithHandler, TokenIsMessage, HasToken
<1>3. CASE CondWait
  BY <1>3
     DEF CondWait, LoggerGoes, TypeOK, MutualExclusion, OneToken, TokenSpent,
         TokenInPipe, TokenWithHandler, TokenIsMessage, HasToken
<1>4. CASE CondWaitReturns
  BY <1>4
     DEF CondWaitReturns, LoggerGoes, TypeOK, MutualExclusion, OneToken,
         TokenSpent, TokenInPipe, TokenWithHandler, TokenIsMessage, HasToken
<1>5. CASE OpenLog
  BY <1>5
     DEF OpenLog, LoggerGoes, TypeOK, MutualExclusion, OneToken, TokenSpent,
         TokenInPipe, TokenWithHandler, TokenIsMessage, HasToken
<1>6. CASE OpenLogFails
  BY <1>6
     DEF OpenLogFails, LoggerGoes, TypeOK, MutualExclusion, OneToken,
         TokenSpent, TokenInPipe, TokenWithHandler, TokenIsMessage, HasToken
<1>7. CASE ReadRecord
  BY <1>7
     DEF ReadRecord, LoggerGoes, TypeOK, MutualExclusion, OneToken,
         TokenSpent, TokenInPipe, TokenWithHandler, TokenIsMessage, HasToken
<1>8. CASE AppendLine
  BY <1>8
     DEF AppendLine, LoggerGoes, TypeOK, MutualExclusion, OneToken,
         TokenSpent, TokenInPipe, TokenWithHandler, TokenIsMessage, HasToken
<1>9. CASE LoggerUnlock
  BY <1>9
     DEF LoggerUnlock, LoggerGoes, TypeOK, MutualExclusion, OneToken,
         TokenSpent, TokenInPipe, TokenWithHandler, TokenIsMessage, HasToken
<1>10. CASE WakeSpuriously
  BY <1>10
     DEF WakeSpuriously, LoggerGoes, TypeOK, MutualExclusion, OneToken,
         TokenSpent, TokenInPipe, TokenWithHandler, TokenIsMessage, HasToken
<1>11. CASE LoggerHangup
  BY <1>11
     DEF LoggerHangup, TypeOK, MutualExclusion, OneToken, TokenSpent,
         TokenInPipe, TokenWithHandler, TokenIsMessage, HasToken
<1>12. ASSUME NEW w \in Workers, CallLog(w)  PROVE  OneToken'
  BY <1>12
     DEF CallLog, WorkerGoes, TypeOK, MutualExclusion, OneToken, TokenSpent,
         TokenInPipe, TokenWithHandler, TokenIsMessage, HasToken
<1>13. ASSUME NEW w \in Workers, ReadToken(w)  PROVE  OneToken'
  BY <1>13
     DEF ReadToken, WorkerGoes, TypeOK, MutualExclusion, OneToken, TokenSpent,
         TokenInPipe, TokenWithHandler, TokenIsMessage, HasToken
<1>14. ASSUME NEW w \in Workers, ReadEndOfFile(w)  PROVE  OneToken'
  BY <1>14
     DEF ReadEndOfFile, WorkerGoes, TypeOK, MutualExclusion, OneToken,
         TokenSpent, TokenInPipe, TokenWithHandler, TokenIsMessage, HasToken
<1>15. ASSUME NEW w \in Workers, WorkerLock(w)  PROVE  OneToken'
  BY <1>15
     DEF WorkerLock, WorkerGoes, TypeOK, MutualExclusion, OneToken,
         TokenSpent, TokenInPipe, TokenWithHandler, TokenIsMessage, HasToken
<1>16. ASSUME NEW w \in Workers, WriteRecord(w)  PROVE  OneToken'
  BY <1>16
     DEF WriteRecord, WorkerGoes, TypeOK, MutualExclusion, OneToken,
         TokenSpent, TokenInPipe, TokenWithHandler, TokenIsMessage, HasToken
<1>17. ASSUME NEW w \in Workers, KilledBySigpipe(w)  PROVE  OneToken'
  BY <1>17
     DEF KilledBySigpipe, TypeOK, MutualExclusion, OneToken, TokenSpent,
         TokenInPipe, TokenWithHandler, TokenIsMessage, HasToken
<1>18. ASSUME NEW w \in Workers, Signal(w)  PROVE  OneToken'
  BY <1>18
     DEF Signal, WorkerGoes, TypeOK, MutualExclusion, OneToken, TokenSpent,
         TokenInPipe, TokenWithHandler, TokenIsMessage, HasToken
<1>19. ASSUME NEW w \in Workers, WorkerUnlock(w)  PROVE  OneToken'
  BY <1>19
     DEF WorkerUnlock, WorkerGoes, TypeOK, MutualExclusion, OneToken,
         TokenSpent, TokenInPipe, TokenWithHandler, TokenIsMessage, HasToken
<1>20. CASE PutTokenFails
  BY <1>20
     DEF PutTokenFails, LoggerGoes, TypeOK, MutualExclusion, OneToken, TokenSpent,
         TokenInPipe, TokenWithHandler, TokenIsMessage, HasToken
<1>21. CASE AppendLineFails
  BY <1>21
     DEF AppendLineFails, LoggerGoes, TypeOK, MutualExclusion, OneToken,
         TokenSpent, TokenInPipe, TokenWithHandler, TokenIsMessage, HasToken
<1>22. ASSUME NEW w \in Workers, WriteFails(w)  PROVE  OneToken'
  BY <1>22
     DEF WriteFails, WorkerGoes, TypeOK, MutualExclusion, OneToken,
         TokenSpent, TokenInPipe, TokenWithHandler, TokenIsMessage, HasToken
<1>23. CASE UNCHANGED vars
  BY <1>23
     DEF vars, TypeOK, MutualExclusion, OneToken, TokenSpent, TokenInPipe,
         TokenWithHandler, TokenIsMessage, HasToken
<1> QED
  BY <1>1, <1>2, <1>3, <1>4, <1>5, <1>6, <1>7, <1>8, <1>9, <1>10, <1>11,
     <1>12, <1>13, <1>14, <1>15, <1>16, <1>17, <1>18, <1>19, <1>20,
     <1>21, <1>22, <1>23
     DEF Next, LoggerStep, WorkerStep

\* The logger reads one message and writes its line before the next.
LEMMA BufferStep ==
  ASSUME TypeOK, lpc # "dead" => BufferMatchesPC, [Next]_vars, lpc' # "dead"
  PROVE  BufferMatchesPC'
<1>1. CASE LoggerLock
  BY <1>1 DEF LoggerLock, LoggerGoes, TypeOK, BufferMatchesPC
<1>2. CASE PutToken
  BY <1>2 DEF PutToken, LoggerGoes, TypeOK, BufferMatchesPC
<1>3. CASE CondWait
  BY <1>3 DEF CondWait, LoggerGoes, TypeOK, BufferMatchesPC
<1>4. CASE CondWaitReturns
  BY <1>4 DEF CondWaitReturns, LoggerGoes, TypeOK, BufferMatchesPC
<1>5. CASE OpenLog
  BY <1>5 DEF OpenLog, LoggerGoes, TypeOK, BufferMatchesPC
<1>6. CASE OpenLogFails
  BY <1>6 DEF OpenLogFails, LoggerGoes, TypeOK, BufferMatchesPC
<1>7. CASE ReadRecord
  BY <1>7 DEF ReadRecord, LoggerGoes, TypeOK, BufferMatchesPC
<1>8. CASE AppendLine
  BY <1>8 DEF AppendLine, LoggerGoes, TypeOK, BufferMatchesPC
<1>9. CASE LoggerUnlock
  BY <1>9 DEF LoggerUnlock, LoggerGoes, TypeOK, BufferMatchesPC
<1>10. CASE WakeSpuriously
  BY <1>10 DEF WakeSpuriously, LoggerGoes, TypeOK, BufferMatchesPC
<1>11. CASE LoggerHangup
  BY <1>11 DEF LoggerHangup, TypeOK, BufferMatchesPC
<1>12. ASSUME NEW w \in Workers, CallLog(w)  PROVE  BufferMatchesPC'
  BY <1>12 DEF CallLog, WorkerGoes, TypeOK, BufferMatchesPC
<1>13. ASSUME NEW w \in Workers, ReadToken(w)  PROVE  BufferMatchesPC'
  BY <1>13 DEF ReadToken, WorkerGoes, TypeOK, BufferMatchesPC
<1>14. ASSUME NEW w \in Workers, ReadEndOfFile(w)  PROVE  BufferMatchesPC'
  BY <1>14 DEF ReadEndOfFile, WorkerGoes, TypeOK, BufferMatchesPC
<1>15. ASSUME NEW w \in Workers, WorkerLock(w)  PROVE  BufferMatchesPC'
  BY <1>15 DEF WorkerLock, WorkerGoes, TypeOK, BufferMatchesPC
<1>16. ASSUME NEW w \in Workers, WriteRecord(w)  PROVE  BufferMatchesPC'
  BY <1>16 DEF WriteRecord, WorkerGoes, TypeOK, BufferMatchesPC
<1>17. ASSUME NEW w \in Workers, KilledBySigpipe(w)  PROVE  BufferMatchesPC'
  BY <1>17 DEF KilledBySigpipe, TypeOK, BufferMatchesPC
<1>18. ASSUME NEW w \in Workers, Signal(w)  PROVE  BufferMatchesPC'
  BY <1>18 DEF Signal, WorkerGoes, TypeOK, BufferMatchesPC
<1>19. ASSUME NEW w \in Workers, WorkerUnlock(w)  PROVE  BufferMatchesPC'
  BY <1>19 DEF WorkerUnlock, WorkerGoes, TypeOK, BufferMatchesPC
<1>20. CASE PutTokenFails
  BY <1>20 DEF PutTokenFails, LoggerGoes, TypeOK, BufferMatchesPC
<1>21. CASE AppendLineFails
  BY <1>21 DEF AppendLineFails, LoggerGoes, TypeOK, BufferMatchesPC
<1>22. ASSUME NEW w \in Workers, WriteFails(w)  PROVE  BufferMatchesPC'
  BY <1>22 DEF WriteFails, WorkerGoes, TypeOK, BufferMatchesPC
<1>23. CASE UNCHANGED vars
  BY <1>23 DEF vars, TypeOK, BufferMatchesPC
<1> QED
  BY <1>1, <1>2, <1>3, <1>4, <1>5, <1>6, <1>7, <1>8, <1>9, <1>10, <1>11,
     <1>12, <1>13, <1>14, <1>15, <1>16, <1>17, <1>18, <1>19, <1>20,
     <1>21, <1>22, <1>23
     DEF Next, LoggerStep, WorkerStep

\* Messages do not accumulate in the pipe or in the logger.
LEMMA InFlightStep ==
  ASSUME TypeOK, lpc # "dead" => OneToken /\ BufferMatchesPC,
         AtMostOneInFlight, [Next]_vars
  PROVE  AtMostOneInFlight'
<1> USE DEF AtMostOneInFlight, TypeOK
<1>1. CASE LoggerLock
  BY <1>1 DEF LoggerLock, LoggerGoes
<1>2. CASE PutToken
  BY <1>2 DEF PutToken, LoggerGoes
<1>3. CASE CondWait
  BY <1>3 DEF CondWait, LoggerGoes
<1>4. CASE CondWaitReturns
  BY <1>4 DEF CondWaitReturns, LoggerGoes
<1>5. CASE OpenLog
  BY <1>5 DEF OpenLog, LoggerGoes
<1>6. CASE OpenLogFails
  BY <1>6 DEF OpenLogFails, LoggerGoes
<1>7. CASE ReadRecord
  BY <1>7 DEF ReadRecord, LoggerGoes, BufferMatchesPC
<1>8. CASE AppendLine
  BY <1>8 DEF AppendLine, LoggerGoes
<1>9. CASE LoggerUnlock
  BY <1>9 DEF LoggerUnlock, LoggerGoes
<1>10. CASE WakeSpuriously
  BY <1>10 DEF WakeSpuriously, LoggerGoes
<1>11. CASE LoggerHangup
  BY <1>11 DEF LoggerHangup
<1>12. ASSUME NEW w \in Workers, CallLog(w)  PROVE  AtMostOneInFlight'
  BY <1>12 DEF CallLog, WorkerGoes
<1>13. ASSUME NEW w \in Workers, ReadToken(w)  PROVE  AtMostOneInFlight'
  BY <1>13 DEF ReadToken, WorkerGoes
<1>14. ASSUME NEW w \in Workers, ReadEndOfFile(w)  PROVE  AtMostOneInFlight'
  BY <1>14 DEF ReadEndOfFile, WorkerGoes
<1>15. ASSUME NEW w \in Workers, WorkerLock(w)  PROVE  AtMostOneInFlight'
  BY <1>15 DEF WorkerLock, WorkerGoes
<1>16. ASSUME NEW w \in Workers, WriteRecord(w)  PROVE  AtMostOneInFlight'
  BY <1>16
     DEF WriteRecord, WorkerGoes, BufferMatchesPC, OneToken, TokenSpent,
         TokenInPipe, TokenWithHandler, TokenIsMessage, HasToken
<1>17. ASSUME NEW w \in Workers, KilledBySigpipe(w)  PROVE  AtMostOneInFlight'
  BY <1>17 DEF KilledBySigpipe
<1>18. ASSUME NEW w \in Workers, Signal(w)  PROVE  AtMostOneInFlight'
  BY <1>18 DEF Signal, WorkerGoes
<1>19. ASSUME NEW w \in Workers, WorkerUnlock(w)  PROVE  AtMostOneInFlight'
  BY <1>19 DEF WorkerUnlock, WorkerGoes
<1>20. CASE PutTokenFails
  BY <1>20 DEF PutTokenFails, LoggerGoes
<1>21. CASE AppendLineFails
  BY <1>21 DEF AppendLineFails, LoggerGoes
<1>22. ASSUME NEW w \in Workers, WriteFails(w)  PROVE  AtMostOneInFlight'
  BY <1>22 DEF WriteFails, WorkerGoes
<1>23. CASE UNCHANGED vars
  BY <1>23 DEF vars
<1> QED
  BY <1>1, <1>2, <1>3, <1>4, <1>5, <1>6, <1>7, <1>8, <1>9, <1>10, <1>11,
     <1>12, <1>13, <1>14, <1>15, <1>16, <1>17, <1>18, <1>19, <1>20,
     <1>21, <1>22, <1>23
     DEF Next, LoggerStep, WorkerStep

\* A handler that has written never goes back.
LEMMA SendersStep ==
  ASSUME TypeOK, SendersHaveWritten, [Next]_vars
  PROVE  SendersHaveWritten'
<1> USE DEF SendersHaveWritten, HasWritten, TypeOK
<1>1. CASE LoggerLock
  BY <1>1 DEF LoggerLock, LoggerGoes
<1>2. CASE PutToken
  BY <1>2 DEF PutToken, LoggerGoes
<1>3. CASE CondWait
  BY <1>3 DEF CondWait, LoggerGoes
<1>4. CASE CondWaitReturns
  BY <1>4 DEF CondWaitReturns, LoggerGoes
<1>5. CASE OpenLog
  BY <1>5 DEF OpenLog, LoggerGoes
<1>6. CASE OpenLogFails
  BY <1>6 DEF OpenLogFails, LoggerGoes
<1>7. CASE ReadRecord
  BY <1>7 DEF ReadRecord, LoggerGoes
<1>8. CASE AppendLine
  BY <1>8 DEF AppendLine, LoggerGoes
<1>9. CASE LoggerUnlock
  BY <1>9 DEF LoggerUnlock, LoggerGoes
<1>10. CASE WakeSpuriously
  BY <1>10 DEF WakeSpuriously, LoggerGoes
<1>11. CASE LoggerHangup
  BY <1>11 DEF LoggerHangup
<1>12. ASSUME NEW w \in Workers, CallLog(w)  PROVE  SendersHaveWritten'
  BY <1>12 DEF CallLog, WorkerGoes
<1>13. ASSUME NEW w \in Workers, ReadToken(w)  PROVE  SendersHaveWritten'
  BY <1>13 DEF ReadToken, WorkerGoes
<1>14. ASSUME NEW w \in Workers, ReadEndOfFile(w)  PROVE  SendersHaveWritten'
  BY <1>14 DEF ReadEndOfFile, WorkerGoes
<1>15. ASSUME NEW w \in Workers, WorkerLock(w)  PROVE  SendersHaveWritten'
  BY <1>15 DEF WorkerLock, WorkerGoes
<1>16. ASSUME NEW w \in Workers, WriteRecord(w)  PROVE  SendersHaveWritten'
  BY <1>16 DEF WriteRecord, WorkerGoes
<1>17. ASSUME NEW w \in Workers, KilledBySigpipe(w)  PROVE  SendersHaveWritten'
  BY <1>17 DEF KilledBySigpipe
<1>18. ASSUME NEW w \in Workers, Signal(w)  PROVE  SendersHaveWritten'
  BY <1>18 DEF Signal, WorkerGoes
<1>19. ASSUME NEW w \in Workers, WorkerUnlock(w)  PROVE  SendersHaveWritten'
  BY <1>19 DEF WorkerUnlock, WorkerGoes
<1>20. CASE PutTokenFails
  BY <1>20 DEF PutTokenFails, LoggerGoes
<1>21. CASE AppendLineFails
  BY <1>21 DEF AppendLineFails, LoggerGoes
<1>22. ASSUME NEW w \in Workers, WriteFails(w)  PROVE  SendersHaveWritten'
  BY <1>22 DEF WriteFails, WorkerGoes
<1>23. CASE UNCHANGED vars
  BY <1>23 DEF vars
<1> QED
  BY <1>1, <1>2, <1>3, <1>4, <1>5, <1>6, <1>7, <1>8, <1>9, <1>10, <1>11,
     <1>12, <1>13, <1>14, <1>15, <1>16, <1>17, <1>18, <1>19, <1>20,
     <1>21, <1>22, <1>23
     DEF Next, LoggerStep, WorkerStep

\* Without spurious wake-ups and failing writes the logger is woken only by the handler that has
\* just written, while it is waiting.
LEMMA SignalStep ==
  ASSUME Inv, lpc # "dead" => SignalInv, ~SpuriousWakeups, ~IOErrors,
         [Next]_vars,
         lpc' # "dead"
  PROVE  SignalInv'
<1> USE WorkersAssumption
<1>1. CASE LoggerLock
  BY <1>1
     DEF LoggerLock, LoggerGoes, TypeOK, MutualExclusion, AtMostOneInFlight,
         Inv, SignalInv, SignalFindsWaiter, OneToken, TokenSpent, TokenInPipe,
         TokenWithHandler, TokenIsMessage, HasToken
<1>2. CASE PutToken
  BY <1>2
     DEF PutToken, LoggerGoes, TypeOK, MutualExclusion, AtMostOneInFlight,
         Inv, SignalInv, SignalFindsWaiter, OneToken, TokenSpent, TokenInPipe,
         TokenWithHandler, TokenIsMessage, HasToken
<1>3. CASE CondWait
  BY <1>3
     DEF CondWait, LoggerGoes, TypeOK, MutualExclusion, AtMostOneInFlight,
         Inv, SignalInv, SignalFindsWaiter, OneToken, TokenSpent, TokenInPipe,
         TokenWithHandler, TokenIsMessage, HasToken
<1>4. CASE CondWaitReturns
  BY <1>4
     DEF CondWaitReturns, LoggerGoes, TypeOK, MutualExclusion,
         AtMostOneInFlight, Inv, SignalInv, SignalFindsWaiter, OneToken,
         TokenSpent, TokenInPipe, TokenWithHandler, TokenIsMessage, HasToken
<1>5. CASE OpenLog
  BY <1>5
     DEF OpenLog, LoggerGoes, TypeOK, MutualExclusion, AtMostOneInFlight, Inv,
         SignalInv, SignalFindsWaiter, OneToken, TokenSpent, TokenInPipe,
         TokenWithHandler, TokenIsMessage, HasToken
<1>6. CASE OpenLogFails
  BY <1>6
     DEF OpenLogFails, LoggerGoes, TypeOK, MutualExclusion, AtMostOneInFlight,
         Inv, SignalInv, SignalFindsWaiter, OneToken, TokenSpent, TokenInPipe,
         TokenWithHandler, TokenIsMessage, HasToken
<1>7. CASE ReadRecord
  BY <1>7
     DEF ReadRecord, LoggerGoes, TypeOK, MutualExclusion, AtMostOneInFlight,
         Inv, SignalInv, SignalFindsWaiter, OneToken, TokenSpent, TokenInPipe,
         TokenWithHandler, TokenIsMessage, HasToken
<1>8. CASE AppendLine
  BY <1>8
     DEF AppendLine, LoggerGoes, TypeOK, MutualExclusion, AtMostOneInFlight,
         Inv, SignalInv, SignalFindsWaiter, OneToken, TokenSpent, TokenInPipe,
         TokenWithHandler, TokenIsMessage, HasToken
<1>9. CASE LoggerUnlock
  BY <1>9
     DEF LoggerUnlock, LoggerGoes, TypeOK, MutualExclusion, AtMostOneInFlight,
         Inv, SignalInv, SignalFindsWaiter, OneToken, TokenSpent, TokenInPipe,
         TokenWithHandler, TokenIsMessage, HasToken
<1>10. CASE WakeSpuriously
  BY <1>10
     DEF WakeSpuriously, LoggerGoes, TypeOK, MutualExclusion,
         AtMostOneInFlight, Inv, SignalInv, SignalFindsWaiter, OneToken,
         TokenSpent, TokenInPipe, TokenWithHandler, TokenIsMessage, HasToken
<1>11. CASE LoggerHangup
  BY <1>11
     DEF LoggerHangup, TypeOK, MutualExclusion, AtMostOneInFlight, Inv,
         SignalInv, SignalFindsWaiter, OneToken, TokenSpent, TokenInPipe,
         TokenWithHandler, TokenIsMessage, HasToken
<1>12. ASSUME NEW w \in Workers, CallLog(w)  PROVE  SignalInv'
  BY <1>12
     DEF CallLog, WorkerGoes, TypeOK, MutualExclusion, AtMostOneInFlight, Inv,
         SignalInv, SignalFindsWaiter, OneToken, TokenSpent, TokenInPipe,
         TokenWithHandler, TokenIsMessage, HasToken
<1>13. ASSUME NEW w \in Workers, ReadToken(w)  PROVE  SignalInv'
  BY <1>13
     DEF ReadToken, WorkerGoes, TypeOK, MutualExclusion, AtMostOneInFlight,
         Inv, SignalInv, SignalFindsWaiter, OneToken, TokenSpent, TokenInPipe,
         TokenWithHandler, TokenIsMessage, HasToken
<1>14. ASSUME NEW w \in Workers, ReadEndOfFile(w)  PROVE  SignalInv'
  BY <1>14
     DEF ReadEndOfFile, WorkerGoes, TypeOK, MutualExclusion,
         AtMostOneInFlight, Inv, SignalInv, SignalFindsWaiter, OneToken,
         TokenSpent, TokenInPipe, TokenWithHandler, TokenIsMessage, HasToken
<1>15. ASSUME NEW w \in Workers, WorkerLock(w)  PROVE  SignalInv'
  BY <1>15
     DEF WorkerLock, WorkerGoes, TypeOK, MutualExclusion, AtMostOneInFlight,
         Inv, SignalInv, SignalFindsWaiter, OneToken, TokenSpent, TokenInPipe,
         TokenWithHandler, TokenIsMessage, HasToken
<1>16. ASSUME NEW w \in Workers, WriteRecord(w)  PROVE  SignalInv'
  <2>1. mutex = w /\ pipe = <<>> /\ lpc = "waiting"
    <3>1. mutex = w /\ HasToken(w) /\ lpc # "dead"
      BY <1>16 DEF WriteRecord, WorkerGoes, HasToken, Inv, MutualExclusion
    <3>2. pipe = <<>> /\ lpc \in {"wait", "waiting", "woken", "open", "read"}
      BY <3>1 DEF Inv, TypeOK, LoggerPC, OneToken, TokenSpent, TokenInPipe,
                  TokenWithHandler, TokenIsMessage
    <3> QED
      BY <3>1, <3>2 DEF Inv, MutualExclusion, SignalInv
  <2>2. /\ wpc'[w] = "signal"
        /\ pipe' = <<w>>
        /\ lpc' = lpc
    BY <2>1, <1>16 DEF WriteRecord, WorkerGoes, Inv, TypeOK
  <2> QED
    BY <2>1, <2>2 DEF SignalInv, SignalFindsWaiter
<1>17. ASSUME NEW w \in Workers, KilledBySigpipe(w)  PROVE  SignalInv'
  BY <1>17
     DEF KilledBySigpipe, TypeOK, MutualExclusion, AtMostOneInFlight, Inv,
         SignalInv, SignalFindsWaiter, OneToken, TokenSpent, TokenInPipe,
         TokenWithHandler, TokenIsMessage, HasToken
<1>18. ASSUME NEW w \in Workers, Signal(w)  PROVE  SignalInv'
  BY <1>18
     DEF Signal, WorkerGoes, TypeOK, MutualExclusion, AtMostOneInFlight, Inv,
         SignalInv, SignalFindsWaiter, OneToken, TokenSpent, TokenInPipe,
         TokenWithHandler, TokenIsMessage, HasToken
<1>19. ASSUME NEW w \in Workers, WorkerUnlock(w)  PROVE  SignalInv'
  BY <1>19
     DEF WorkerUnlock, WorkerGoes, TypeOK, MutualExclusion, AtMostOneInFlight,
         Inv, SignalInv, SignalFindsWaiter, OneToken, TokenSpent, TokenInPipe,
         TokenWithHandler, TokenIsMessage, HasToken
<1>20. CASE PutTokenFails
  BY <1>20
     DEF PutTokenFails, LoggerGoes, TypeOK, MutualExclusion, AtMostOneInFlight,
         Inv, SignalInv, SignalFindsWaiter, OneToken, TokenSpent, TokenInPipe,
         TokenWithHandler, TokenIsMessage, HasToken
<1>21. CASE AppendLineFails
  BY <1>21
     DEF AppendLineFails, LoggerGoes, TypeOK, MutualExclusion, AtMostOneInFlight,
         Inv, SignalInv, SignalFindsWaiter, OneToken, TokenSpent, TokenInPipe,
         TokenWithHandler, TokenIsMessage, HasToken
<1>22. ASSUME NEW w \in Workers, WriteFails(w)  PROVE  SignalInv'
  BY <1>22
     DEF WriteFails, WorkerGoes, TypeOK, MutualExclusion,
         AtMostOneInFlight, Inv, SignalInv, SignalFindsWaiter, OneToken,
         TokenSpent, TokenInPipe, TokenWithHandler, TokenIsMessage, HasToken
<1>23. CASE UNCHANGED vars
  BY <1>23
     DEF vars, TypeOK, MutualExclusion, AtMostOneInFlight, Inv, SignalInv,
         SignalFindsWaiter, OneToken, TokenSpent, TokenInPipe,
         TokenWithHandler, TokenIsMessage, HasToken
<1> QED
  BY <1>1, <1>2, <1>3, <1>4, <1>5, <1>6, <1>7, <1>8, <1>9, <1>10, <1>11,
     <1>12, <1>13, <1>14, <1>15, <1>16, <1>17, <1>18, <1>19, <1>20,
     <1>21, <1>22, <1>23
     DEF Next, LoggerStep, WorkerStep

-----------------------------------------------------------------------------
(* Safety *)

\* The invariant is inductive ...
LEMMA InvStep ==
  ASSUME Inv, [Next]_vars
  PROVE  Inv'
<1>1. TypeOK' /\ MutualExclusion' /\ AtMostOneInFlight' /\ SendersHaveWritten'
  BY TypeStep, MutexStep, InFlightStep, SendersStep DEF Inv
<1>2. lpc' # "dead" => lpc # "dead"
  BY DEF Next, LoggerStep, WorkerStep, vars, LoggerGoes, CallLog, ReadToken,
     ReadEndOfFile, WorkerLock, WriteRecord, KilledBySigpipe, Signal,
     WorkerUnlock, LoggerLock, PutToken, CondWait, CondWaitReturns, OpenLog,
     OpenLogFails, ReadRecord, AppendLine, LoggerUnlock, WakeSpuriously,
     LoggerHangup, WriteFails, PutTokenFails, AppendLineFails
<1>3. lpc' # "dead" => OneToken' /\ BufferMatchesPC'
  BY <1>2, TokenStep, BufferStep DEF Inv
<1> QED
  BY <1>1, <1>3 DEF Inv

\* ... and holds when the server starts.
LEMMA InitInv == Init => Inv
  BY WorkersAssumption, BoundsAssumption
  DEF Init, Inv, TypeOK, WorkerPC, LoggerPC, MutualExclusion,
      AtMostOneInFlight, OneToken, TokenSpent, HasToken, BufferMatchesPC,
      SendersHaveWritten

\* The invariant that carries every result below.
THEOREM Invariance == Spec => []Inv
<1>1. Inv /\ [Next]_vars => Inv'
  BY InvStep
<1> QED
  BY InitInv, <1>1, PTL DEF Spec

\* Type correctness.
THEOREM TypeCorrect == Spec => []TypeOK
<1>1. Inv => TypeOK
  BY DEF Inv
<1> QED
  BY <1>1, Invariance, PTL

\* The mutex of shared memory excludes handlers and logger, whoever dies.
THEOREM Exclusion == Spec => []MutualExclusion
<1>1. Inv => MutualExclusion
  BY DEF Inv
<1> QED
  BY <1>1, Invariance, PTL

\* However the logger ends, it takes at most one record with it.
THEOREM OneInFlight == Spec => []AtMostOneInFlight
<1>1. Inv => AtMostOneInFlight
  BY DEF Inv
<1> QED
  BY <1>1, Invariance, PTL


-----------------------------------------------------------------------------
(* Without spurious wake-ups and failing writes no signal is lost and nobody *)
(* blocks while it holds the mutex.                                        *)

\* The signal invariant lasts as long as the logger lives.
LEMMA SignalInvariance ==
  ASSUME ~SpuriousWakeups, ~IOErrors
  PROVE  Spec => [](Inv /\ (lpc # "dead" => SignalInv))
<1> DEFINE SInv == Inv /\ (lpc # "dead" => SignalInv)
<1>1. Init => SInv
  BY InitInv DEF Init, SignalInv, SignalFindsWaiter
<1>2. SInv /\ [Next]_vars => SInv'
  <2> SUFFICES ASSUME Inv, lpc # "dead" => SignalInv, [Next]_vars
               PROVE  SInv'
    OBVIOUS
  <2>1. Inv'
    BY InvStep
  <2>2. lpc' # "dead" => SignalInv'
    BY SignalStep
  <2> QED
    BY <2>1, <2>2
<1> QED
  BY <1>1, <1>2, PTL DEF Spec

\* The handler's pthread_cond_signal always finds the logger waiting: no lost
\* wake-up, which is what the synchronisation pipe is there for.
THEOREM NoLostSignal ==
  ASSUME ~SpuriousWakeups, ~IOErrors
  PROVE  Spec => []SignalFindsWaiter
<1>1. Inv /\ (lpc # "dead" => SignalInv) => SignalFindsWaiter
  BY DEF SignalInv, SignalFindsWaiter
<1> QED
  BY <1>1, SignalInvariance, PTL

\* No read() or write() of the log pipe blocks with the mutex locked.
THEOREM NoHoldAndWait ==
  ASSUME ~SpuriousWakeups, ~IOErrors
  PROVE  Spec => []CriticalSectionNeverBlocks
<1>1. ASSUME Inv, lpc # "dead" => SignalInv
      PROVE  CriticalSectionNeverBlocks
  <2>1. lpc = "read" => pipe # <<>>
    BY <1>1 DEF SignalInv
  <2>2. ASSUME NEW w \in Workers, lpc # "dead", wpc[w] = "write"
        PROVE  Len(pipe) < PipeSlots
    BY <1>1, <2>2, BoundsAssumption
    DEF Inv, TypeOK, OneToken, TokenSpent, TokenInPipe, TokenWithHandler,
        TokenIsMessage, HasToken
  <2> QED
    BY <2>1, <2>2 DEF CriticalSectionNeverBlocks
<1> QED
  BY <1>1, SignalInvariance, PTL

-----------------------------------------------------------------------------
(* LogPipe implements AccessLog: unsignalled wake-ups, deaths and failing    *)
(* writes included.                                                        *)

\* The refinement mapping.
Accepted == log \o buf \o pipe

\* A handler's write() is Accept.
LEMMA WriteIsAccept ==
  ASSUME Inv, NEW w \in Workers, WriteRecord(w)
  PROVE  AL!Accept(w)
<1>1. pipe = <<>> /\ lpc \in {"wait", "waiting", "woken", "open", "read"}
  BY DEF WriteRecord, WorkerGoes, Inv, TypeOK, LoggerPC, OneToken, TokenSpent,
         TokenInPipe, TokenWithHandler, TokenIsMessage, HasToken
<1>2. /\ pipe' = <<w>>
      /\ buf = <<>> /\ buf' = <<>>
      /\ log' = log
  BY <1>1 DEF WriteRecord, Inv, BufferMatchesPC
<1>3. Accepted = log /\ Accepted' = Append(log, w)
  BY <1>1, <1>2 DEF Accepted, Inv, TypeOK
<1>4. \A i \in 1..Len(log) : log[i] # w
  BY DEF Inv, SendersHaveWritten, HasWritten, WriteRecord, WorkerGoes, TypeOK
<1> QED
  BY <1>2, <1>3, <1>4 DEF AL!Accept, Accepted

\* The logger's dprintf() is Record.
LEMMA AppendIsRecord ==
  ASSUME Inv, AppendLine
  PROVE  AL!Record
<1>1. PICK v \in Workers : buf = <<v>>
  <2>1. Len(buf) = 1 /\ buf \in Seq(Workers)
    BY DEF AppendLine, LoggerGoes, Inv, TypeOK, BufferMatchesPC
  <2>2. buf[1] \in Workers /\ buf = <<buf[1]>>
    BY <2>1
  <2> QED
    BY <2>2
<1>2. /\ pipe = <<>> /\ pipe' = <<>>
      /\ buf' = <<>> /\ log' = log \o buf
  BY DEF AppendLine, LoggerGoes, Inv, OneToken, TokenSpent
<1>3. Accepted = Append(log, v) /\ Accepted' = Append(log, v)
  BY <1>1, <1>2 DEF Accepted, Inv, TypeOK
<1>4. log' = Append(log, v)
  BY <1>1, <1>2 DEF Inv, TypeOK
<1> QED
  BY <1>3, <1>4 DEF AL!Record, Accepted, Inv, TypeOK

\* A dprintf() that fails is Lose: the record was the only one on its way.
LEMMA FailingIsLose ==
  ASSUME Inv, AppendLineFails
  PROVE  AL!Lose
<1>1. buf \in Seq(Workers) /\ log \in Seq(Workers) /\ Len(buf) = 1
  BY DEF AppendLineFails, LoggerGoes, Inv, TypeOK, BufferMatchesPC
<1>2. /\ pipe = <<>> /\ pipe' = <<>>
      /\ buf' = <<>> /\ log' = log /\ IOErrors
  BY DEF AppendLineFails, LoggerGoes, Inv, OneToken, TokenSpent
<1>3. PICK v \in Workers : buf = <<v>>
  <2>1. buf[1] \in Workers /\ buf = <<buf[1]>>
    BY <1>1
  <2> QED
    BY <2>1
<1>4. Accepted = Append(log, v) /\ Accepted' = log
  BY <1>1, <1>2, <1>3 DEF Accepted
<1>5. Len(log) < Len(Accepted)
  BY <1>1, <1>4
<1> QED
  BY <1>2, <1>4, <1>5 DEF AL!Lose, Accepted

\* The logger's read() moves the message and changes nothing of the mapping.
LEMMA ReadIsStutter ==
  ASSUME Inv, ReadRecord
  PROVE  UNCHANGED <<Accepted, log>>
<1>1. PICK v \in Workers : pipe = <<v>>
  BY DEF ReadRecord, LoggerGoes, Inv, TypeOK, OneToken, TokenInPipe,
         TokenWithHandler, TokenIsMessage
<1>2. /\ buf = <<>> /\ buf' = <<v>> /\ pipe' = <<>> /\ log' = log
  BY <1>1 DEF ReadRecord, LoggerGoes, Inv, BufferMatchesPC
<1> QED
  BY <1>1, <1>2 DEF Accepted, Inv, TypeOK

\* Every step of the protocol is a step of AccessLog or changes nothing there.
LEMMA StepRefines ==
  ASSUME Inv, [Next]_vars
  PROVE  [AL!Next]_(AL!alVars)
<1>1. UNCHANGED <<log, buf, pipe>> => UNCHANGED AL!alVars
  BY DEF AL!alVars
<1>2. ASSUME NEW w \in Workers, CallLog(w) \/ WorkerStep(w)
      PROVE  WriteRecord(w) \/ UNCHANGED <<log, buf, pipe>>
  BY <1>2 DEF CallLog, WorkerStep, ReadToken, ReadEndOfFile, WorkerLock,
              WriteFails, KilledBySigpipe, Signal, WorkerUnlock
<1>3. ASSUME LoggerStep \/ WakeSpuriously \/ LoggerHangup
      PROVE  \/ ReadRecord \/ AppendLine \/ AppendLineFails
             \/ UNCHANGED <<log, buf, pipe>>
  BY <1>3 DEF LoggerStep, WakeSpuriously, LoggerHangup, LoggerLock, PutToken,
              PutTokenFails, CondWait, CondWaitReturns, OpenLog, OpenLogFails,
              LoggerUnlock
<1>4. ASSUME NEW w \in Workers, WriteRecord(w)
      PROVE  AL!Next
  BY <1>4, WriteIsAccept DEF AL!Next
<1>5. CASE AppendLine
  BY <1>5, AppendIsRecord DEF AL!Next
<1>6. CASE ReadRecord
  BY <1>6, ReadIsStutter DEF AL!alVars, Accepted
<1>7. CASE AppendLineFails
  BY <1>7, FailingIsLose DEF AL!Next
<1>8. CASE UNCHANGED vars
  BY <1>1, <1>8 DEF vars
<1> QED
  BY <1>1, <1>2, <1>3, <1>4, <1>5, <1>6, <1>7, <1>8 DEF Next

\* Records reach the file one at a time, in the order they were handed over,
\* none twice and none invented, whoever of handlers and logger dies on the way,
\* however the logger is woken; a token, a record or a line whose write fails
\* costs one record at most and never the order of the others.
THEOREM Refinement == Spec => AccessLogSafety
<1>1. Init => AL!Init
  BY DEF Init, AL!Init
<1>2. Inv /\ [Next]_vars => [AL!Next]_(AL!alVars)
  BY StepRefines
<1> QED
  BY <1>1, <1>2, Invariance, PTL DEF Spec, AccessLogSafety, AL!Spec

-----------------------------------------------------------------------------
(* What of this rests on the token alone *)

Token == INSTANCE LogToken

\* Without what the mutex and the condition variable forbid, every step of the
\* protocol is one of LogToken.
THEOREM TokenIsPartOfIt == Spec => Token!Spec
<1> USE DEF Token!Next, Token!LoggerStep, Token!LoggerMoves, Token!LoggerGoes,
            LoggerGoes
<1>1. Init => Token!Init
  BY DEF Init, Token!Init
<1>2. LoggerStep => Token!Next
  BY DEF LoggerStep, LoggerLock, PutToken, CondWait, CondWaitReturns, OpenLog,
         OpenLogFails, ReadRecord, AppendLine, LoggerUnlock, PutTokenFails,
         AppendLineFails, Token!PutToken, Token!ReadRecord, Token!AppendLine,
         Token!LoggerDies, Token!PutTokenFails, Token!AppendLineFails
<1>3. WakeSpuriously \/ LoggerHangup => Token!Next
  BY DEF WakeSpuriously, LoggerHangup, Token!LoggerDies
<1>4. ASSUME NEW w \in Workers, CallLog(w) \/ WorkerStep(w)
      PROVE  Token!Next
  <2>1. CASE KilledBySigpipe(w)
    <3> DEFINE process == IF w \in ThreadWorkers THEN ThreadWorkers ELSE {w}
    <3>1. process \in SUBSET Workers
      BY WorkersAssumption
    <3>2. Token!WorkersDie(process)
      BY <2>1, <3>1 DEF KilledBySigpipe, Token!WorkersDie, Token!Over
    <3> QED
      BY <3>1, <3>2
  <2>2. CASE CallLog(w) \/ (WorkerStep(w) /\ ~KilledBySigpipe(w))
    <3>1. Token!WorkerStep(w)
      BY <2>2 DEF CallLog, WorkerStep, ReadToken, ReadEndOfFile, WorkerLock,
             WriteRecord, WriteFails, Signal, WorkerUnlock, WorkerGoes,
             Token!WorkerStep, Token!WriteFails,
             Token!CallLog, Token!ReadToken, Token!ReadEndOfFile,
             Token!WorkerLock, Token!WriteRecord, Token!Signal,
             Token!WorkerUnlock, Token!WorkerGoes
    <3> QED
      BY <3>1
  <2> QED
    BY <1>4, <2>1, <2>2
<1>5. [Next]_vars => [Token!Next]_(Token!vars)
  BY <1>2, <1>3, <1>4 DEF Next, vars, Token!vars
<1> QED
  BY <1>1, <1>5, PTL DEF Spec, Token!Spec

=============================================================================
