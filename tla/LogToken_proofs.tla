---------------------------- MODULE LogToken_proofs ----------------------------
(***************************************************************************)
(* LogToken implements AccessLog, for any number of handlers.              *)
(***************************************************************************)
EXTENDS LogToken, SequenceTheorems, TLAPS

-----------------------------------------------------------------------------
(* The inductive invariant *)

\* The handlers that have taken a token and not yet written.
HasToken(w) == wpc[w] \in {"lock", "write"}

NoneHasToken == \A w \in Workers : ~HasToken(w)

\* The handlers that have written, if they live.
HasWritten(w) == wpc[w] \in {"signal", "unlock", "done", "killed"}

AllOver == \A w \in Workers : wpc[w] \in Over

\* The three places a token may be in: the synchronisation pipe, a handler, and,
\* as the message it allowed, the log pipe.
TokenInPipe == tokens = 1 /\ NoneHasToken /\ pipe = <<>>

TokenWithHandler ==
  /\ tokens = 0 /\ pipe = <<>>
  /\ \A v, w \in Workers : HasToken(v) /\ HasToken(w) => v = w

TokenIsMessage == tokens = 0 /\ NoneHasToken /\ Len(pipe) = 1

\* There is one at most from the moment the logger puts it to the moment it
\* reads the message; when nobody is left to take one their number is of no
\* account.
OneToken ==
  lpc \in {"wait", "waiting", "woken", "open", "read"} =>
    \/ TokenInPipe \/ TokenWithHandler \/ TokenIsMessage
    \/ AllOver /\ Len(pipe) <= 1

TokenSpent ==
  lpc \in {"off", "lock", "token", "append", "unlock"} =>
    /\ pipe = <<>>
    /\ AllOver \/ (tokens = 0 /\ NoneHasToken)

Buffer ==
  /\ lpc \notin {"append", "dead"} => buf = <<>>
  /\ Len(buf) + Len(pipe) <= 1

\* Each record's handler is past its write().
SendersHaveWritten ==
  /\ \A i \in 1..Len(log) : HasWritten(log[i])
  /\ \A i \in 1..Len(buf) : HasWritten(buf[i])
  /\ \A i \in 1..Len(pipe) : HasWritten(pipe[i])

Inv == TypeOK /\ OneToken /\ TokenSpent /\ Buffer /\ SendersHaveWritten

-----------------------------------------------------------------------------

LEMMA OneElement ==
  ASSUME NEW S, NEW s \in Seq(S), s # <<>>, Len(s) <= 1
  PROVE  Len(s) = 1 /\ \E v \in S : s = <<v>>
<1>0. Len(s) \in Nat /\ Len(s) # 0
  BY EmptySeq
<1>1. Len(s) = 1
  BY <1>0
<1>2. s[1] \in S
  BY <1>1
<1>3. s = <<s[1]>>
  BY <1>1
<1> QED
  BY <1>1, <1>2, <1>3

LEMMA InitInv == Init => Inv
<1> SUFFICES ASSUME Init PROVE Inv
  OBVIOUS
<1>1. Len(<<>>) = 0 /\ 1..0 = {}
  OBVIOUS
<1>2. TypeOK
  BY DEF Init, TypeOK, WorkerPC, LoggerPC
<1> QED
  BY <1>1, <1>2 DEF Init, Inv, OneToken, TokenSpent, Buffer, SendersHaveWritten,
     NoneHasToken, HasToken

\* A handler that has written stays one that has.
LEMMA WorkerTypes ==
  ASSUME TypeOK, NEW w \in Workers, WorkerStep(w)
  PROVE  /\ wpc' \in [Workers -> WorkerPC]
         /\ \A v \in Workers : v # w => wpc'[v] = wpc[v]
         /\ \A v \in Workers : HasWritten(v) => HasWritten(v)'
<1> USE DEF TypeOK, WorkerPC
<1>1. \/ /\ wpc[w] = "serving" /\ wpc' = [wpc EXCEPT ![w] = "sync"]
      \/ /\ wpc[w] = "sync" /\ wpc' = [wpc EXCEPT ![w] = "lock"]
      \/ /\ wpc[w] = "lock" /\ wpc' = [wpc EXCEPT ![w] = "write"]
      \/ /\ wpc[w] = "write" /\ wpc' = [wpc EXCEPT ![w] = "signal"]
      \/ /\ wpc[w] = "signal" /\ wpc' = [wpc EXCEPT ![w] = "unlock"]
      \/ /\ wpc[w] = "unlock" /\ wpc' = [wpc EXCEPT ![w] = "done"]
  BY DEF WorkerStep, CallLog, ReadToken, ReadEndOfFile, WorkerLock, WriteRecord,
         WriteFails, Signal, WorkerUnlock, WorkerGoes
<1> QED
  BY <1>1 DEF HasWritten

\* Senders stay senders when nothing is written.
LEMMA SameSenders ==
  ASSUME TypeOK, SendersHaveWritten, UNCHANGED <<pipe, buf, log>>,
         \A v \in Workers : HasWritten(v) => HasWritten(v)'
  PROVE  SendersHaveWritten'
<1>1. /\ \A i \in 1..Len(log) : log[i] \in Workers
      /\ \A i \in 1..Len(buf) : buf[i] \in Workers
      /\ \A i \in 1..Len(pipe) : pipe[i] \in Workers
  BY DEF TypeOK
<1> QED
  BY <1>1 DEF SendersHaveWritten

LEMMA WriteInv ==
  ASSUME Inv, NEW w \in Workers, WriteRecord(w)
  PROVE  /\ Inv'
         /\ pipe = <<>> /\ buf = <<>>
         /\ \A i \in 1..Len(log) : log[i] # w
<1> USE DEF Inv
<1>1. HasToken(w) /\ ~HasWritten(w) /\ wpc[w] \notin Over /\ lpc # "dead"
  BY DEF WriteRecord, WorkerGoes, HasToken, HasWritten, Over
<1>2. /\ lpc \in {"wait", "waiting", "woken", "open", "read"}
      /\ TokenWithHandler
  BY <1>1 DEF OneToken, TokenSpent, AllOver, NoneHasToken, TokenInPipe,
     TokenIsMessage, TypeOK, LoggerPC
<1>3. /\ pipe = <<>> /\ buf = <<>> /\ pipe' = <<w>> /\ tokens' = 0
      /\ UNCHANGED <<lpc, buf, log>>
  BY <1>2 DEF TokenWithHandler, Buffer, WriteRecord
<1>4. /\ wpc' \in [Workers -> WorkerPC] /\ wpc'[w] = "signal"
      /\ \A v \in Workers : v # w => wpc'[v] = wpc[v]
      /\ \A v \in Workers : HasWritten(v) => HasWritten(v)'
  BY WorkerTypes DEF WorkerStep, WriteRecord, WorkerGoes, TypeOK
<1>5. Len(pipe') = 1 /\ pipe'[1] = w /\ Len(buf') = 0
  BY <1>3
<1>6. TypeOK'
  BY <1>3, <1>4 DEF TypeOK
<1>7. NoneHasToken'
  BY <1>1, <1>2, <1>4 DEF TokenWithHandler, NoneHasToken, HasToken
<1>8. OneToken' /\ TokenSpent'
  BY <1>2, <1>3, <1>5, <1>7 DEF OneToken, TokenIsMessage, TokenSpent
<1>9. Buffer'
  BY <1>3, <1>5 DEF Buffer
<1>10. SendersHaveWritten'
  <2> DEFINE Written == {"signal", "unlock", "done", "killed"}
  <2>1. \A i \in 1..Len(log) : log[i] \in Workers
    BY DEF TypeOK
  <2>2. \A i \in 1..Len(log') : wpc'[log'[i]] \in Written
    BY <1>3, <1>4, <2>1 DEF SendersHaveWritten, HasWritten
  <2>3. \A i \in 1..Len(pipe') : wpc'[pipe'[i]] \in Written
    <3>1. \A i \in 1..Len(pipe') : i = 1
      BY <1>5
    <3> QED
      BY <1>4, <1>5, <3>1
  <2>4. 1..Len(buf') = {}
    BY <1>5
  <2> QED
    BY <2>2, <2>3, <2>4 DEF SendersHaveWritten, HasWritten
<1>11. \A i \in 1..Len(log) : log[i] # w
  BY <1>1 DEF SendersHaveWritten
<1> QED
  BY <1>3, <1>6, <1>8, <1>9, <1>10, <1>11

\* The other steps of a handler.
LEMMA WorkerInv ==
  ASSUME Inv, NEW w \in Workers, WorkerStep(w), ~WriteRecord(w)
  PROVE  Inv' /\ UNCHANGED <<pipe, buf, log>>
<1> USE DEF Inv
<1>1. /\ wpc' \in [Workers -> WorkerPC]
      /\ \A v \in Workers : v # w => wpc'[v] = wpc[v]
      /\ \A v \in Workers : HasWritten(v) => HasWritten(v)'
  BY WorkerTypes
<1>2. UNCHANGED <<pipe, buf, log>>
  BY DEF WorkerStep, CallLog, ReadToken, ReadEndOfFile, WorkerLock, WriteFails,
         Signal, WorkerUnlock
<1>3. SendersHaveWritten'
  BY <1>1, <1>2, SameSenders
<1>4. wpc[w] \notin Over
  BY DEF WorkerStep, CallLog, ReadToken, ReadEndOfFile, WorkerLock, WriteRecord,
         WriteFails, Signal, WorkerUnlock, WorkerGoes, Over
<1>5. ~AllOver
  BY <1>4 DEF AllOver
<1>6. TypeOK' /\ Buffer'
  BY <1>1, <1>2 DEF WorkerStep, CallLog, ReadToken, ReadEndOfFile, WorkerLock,
     WriteFails, Signal, WorkerUnlock, TypeOK, Buffer, LoggerPC
<1>7. OneToken' /\ TokenSpent'
  <2>1. CASE ReadToken(w)
    <3>1. tokens > 0 /\ tokens' = tokens - 1 /\ UNCHANGED <<lpc, pipe>>
          /\ wpc' = [wpc EXCEPT ![w] = "lock"]
      BY <2>1 DEF ReadToken, WorkerGoes
    <3>2. lpc \in {"wait", "waiting", "woken", "open", "read"} => TokenInPipe
      BY <1>5, <3>1 DEF OneToken, TokenWithHandler, TokenIsMessage
    <3>3. lpc \notin {"off", "lock", "token", "append", "unlock"}
      BY <1>5, <3>1 DEF TokenSpent
    <3>4. TokenInPipe => TokenWithHandler'
      BY <1>1, <3>1 DEF TokenInPipe, TokenWithHandler, NoneHasToken, HasToken
    <3> QED
      BY <3>1, <3>2, <3>3, <3>4 DEF OneToken, TokenSpent
  <2>2. CASE ReadEndOfFile(w)
    BY <2>2 DEF ReadEndOfFile, OneToken, TokenSpent
  <2>3. CASE WorkerLock(w)
    <3>1. UNCHANGED <<lpc, tokens, pipe>> /\ \A v \in Workers : HasToken(v)' <=> HasToken(v)
      BY <2>3, <1>1 DEF WorkerLock, WorkerGoes, HasToken, TypeOK
    <3> QED
      BY <1>5, <3>1 DEF OneToken, TokenSpent, TokenInPipe, TokenWithHandler,
         TokenIsMessage, NoneHasToken
  <2>4. CASE CallLog(w) \/ Signal(w) \/ WorkerUnlock(w)
    <3>1. /\ UNCHANGED <<tokens, pipe>>
          /\ lpc' = lpc \/ (lpc = "waiting" /\ lpc' = "woken")
          /\ \A v \in Workers : HasToken(v)' <=> HasToken(v)
      BY <2>4, <1>1 DEF CallLog, Signal, WorkerUnlock, WorkerGoes, HasToken, TypeOK
    <3> QED
      BY <1>5, <3>1 DEF OneToken, TokenSpent, TokenInPipe, TokenWithHandler,
         TokenIsMessage, NoneHasToken
  <2>5. CASE WriteFails(w)
    <3>1. /\ UNCHANGED <<lpc, tokens, pipe>>
          /\ \A v \in Workers : HasToken(v)' => HasToken(v)
      BY <2>5, <1>1 DEF WriteFails, WorkerGoes, HasToken, TypeOK
    <3> QED
      BY <1>5, <3>1 DEF OneToken, TokenSpent, TokenInPipe, TokenWithHandler,
         TokenIsMessage, NoneHasToken
  <2> QED
    BY <2>1, <2>2, <2>3, <2>4, <2>5 DEF WorkerStep
<1> QED
  BY <1>2, <1>3, <1>6, <1>7

LEMMA WorkersDieInv ==
  ASSUME Inv, NEW process \in SUBSET Workers, WorkersDie(process)
  PROVE  Inv' /\ UNCHANGED <<pipe, buf, log>>
<1> USE DEF Inv
<1>1. UNCHANGED <<lpc, tokens, pipe, buf, log>>
  BY DEF WorkersDie
<1>2. \A v \in Workers : wpc'[v] = wpc[v] \/ wpc'[v] = "killed"
  BY DEF WorkersDie
<1>3. wpc' \in [Workers -> WorkerPC]
  BY DEF WorkersDie, TypeOK, WorkerPC
<1>4. \A v \in Workers : HasWritten(v) => HasWritten(v)'
  BY <1>2 DEF HasWritten
<1>5. \A v \in Workers : HasToken(v)' => HasToken(v)
  BY <1>2 DEF HasToken
<1>6. AllOver => AllOver'
  BY <1>2 DEF AllOver, Over
<1>7. SendersHaveWritten'
  BY <1>1, <1>4, SameSenders
<1>8. TypeOK' /\ Buffer'
  BY <1>1, <1>3 DEF TypeOK, Buffer
<1>9. NoneHasToken => NoneHasToken'
  BY <1>5 DEF NoneHasToken
<1>10. OneToken' /\ TokenSpent'
  BY <1>1, <1>5, <1>6, <1>9 DEF OneToken, TokenSpent, TokenInPipe,
     TokenWithHandler, TokenIsMessage
<1> QED
  BY <1>1, <1>7, <1>8, <1>10

LEMMA ReadInv ==
  ASSUME Inv, ReadRecord
  PROVE  /\ Inv'
         /\ log' = log /\ log \o buf' \o pipe' = log \o buf \o pipe
<1> USE DEF Inv
<1>1. /\ lpc = "read" /\ lpc' = "append" /\ pipe # <<>>
      /\ buf' = <<Head(pipe)>> /\ pipe' = Tail(pipe)
      /\ UNCHANGED <<wpc, tokens, log>>
  BY DEF ReadRecord, LoggerGoes
<1>2. Len(pipe) = 1 /\ buf = <<>>
  BY <1>1 DEF Buffer, TypeOK
<1>3. PICK v \in Workers : pipe = <<v>>
  BY <1>1, <1>2, OneElement DEF TypeOK
<1>4. buf' = <<v>> /\ pipe' = <<>>
  BY <1>1, <1>3
<1>5. \/ tokens = 0 /\ NoneHasToken
      \/ AllOver
  BY <1>1, <1>3 DEF OneToken, TokenInPipe, TokenWithHandler, TokenIsMessage
<1>6. TypeOK'
  BY <1>1, <1>4 DEF TypeOK, LoggerPC
<1>7. OneToken' /\ TokenSpent'
  BY <1>1, <1>4, <1>5 DEF OneToken, TokenSpent, NoneHasToken, HasToken, AllOver
<1>8. Buffer'
  <2>1. Len(buf') = 1 /\ Len(pipe') = 0
    BY <1>4
  <2> QED
    BY <1>1, <2>1 DEF Buffer
<1>9. SendersHaveWritten'
  <2>1. HasWritten(v)
    <3>1. 1 \in 1..Len(pipe) /\ pipe[1] = v
      BY <1>2, <1>3
    <3> QED
      BY <3>1 DEF SendersHaveWritten
  <2>2. /\ \A i \in 1..Len(buf') : buf'[i] = v
        /\ 1..Len(pipe') = {}
    BY <1>4
  <2> QED
    BY <1>1, <2>1, <2>2 DEF SendersHaveWritten, HasWritten
<1>10. log \o buf' \o pipe' = log \o buf \o pipe
  BY <1>2, <1>3, <1>4 DEF TypeOK
<1> QED
  BY <1>1, <1>6, <1>7, <1>8, <1>9, <1>10

LEMMA AppendInv ==
  ASSUME Inv, AppendLine
  PROVE  Inv' /\ pipe = <<>> /\ pipe' = <<>> /\ buf' = <<>> /\ log' = log \o buf
         /\ Len(buf) <= 1
<1> USE DEF Inv
<1>1. /\ lpc = "append" /\ lpc' = "unlock" /\ log' = log \o buf /\ buf' = <<>>
      /\ UNCHANGED <<wpc, tokens, pipe>>
  BY DEF AppendLine, LoggerGoes
<1>2. pipe = <<>> /\ (AllOver \/ (tokens = 0 /\ NoneHasToken))
  BY <1>1 DEF TokenSpent
<1>3. TypeOK'
  BY <1>1 DEF TypeOK, LoggerPC
<1>4. OneToken' /\ TokenSpent'
  BY <1>1, <1>2 DEF OneToken, TokenSpent, NoneHasToken, HasToken, AllOver
<1>5. Len(buf) <= 1 /\ Len(pipe') = 0 /\ Len(buf') = 0
  BY <1>1, <1>2 DEF Buffer, TypeOK
<1>6. Buffer'
  BY <1>1, <1>5 DEF Buffer
<1>7. SendersHaveWritten'
  <2>1. /\ Len(log') = Len(log) + Len(buf) /\ Len(log) \in Nat /\ Len(buf) \in Nat
        /\ \A i \in 1..Len(log) : log'[i] = log[i]
        /\ \A i \in 1..Len(buf) : log'[Len(log) + i] = buf[i]
    BY <1>1 DEF TypeOK
  <2>2. ASSUME NEW i \in 1..Len(log')
        PROVE  HasWritten(log'[i])
    <3>1. CASE i <= Len(log)
      BY <2>1, <3>1 DEF SendersHaveWritten
    <3>2. CASE i > Len(log)
      <4>1. i - Len(log) \in 1..Len(buf) /\ i = Len(log) + (i - Len(log))
        BY <2>1, <3>2
      <4> QED
        BY <2>1, <4>1 DEF SendersHaveWritten
    <3> QED
      BY <2>1, <3>1, <3>2
  <2>3. 1..Len(buf') = {} /\ 1..Len(pipe') = {}
    BY <1>5
  <2> QED
    BY <1>1, <2>2, <2>3 DEF SendersHaveWritten, HasWritten
<1> QED
  BY <1>1, <1>2, <1>3, <1>4, <1>5, <1>6, <1>7

\* A line that fails takes what was in the buffer with it.
LEMMA AppendFailsInv ==
  ASSUME Inv, AppendLineFails
  PROVE  Inv' /\ pipe = <<>> /\ pipe' = <<>> /\ buf' = <<>> /\ log' = log
         /\ Len(buf) <= 1
<1> USE DEF Inv
<1>1. /\ lpc = "append" /\ lpc' = "unlock" /\ buf' = <<>>
      /\ UNCHANGED <<wpc, tokens, pipe, log>>
  BY DEF AppendLineFails, LoggerGoes
<1>2. pipe = <<>> /\ (AllOver \/ (tokens = 0 /\ NoneHasToken))
  BY <1>1 DEF TokenSpent
<1>3. TypeOK'
  BY <1>1 DEF TypeOK, LoggerPC
<1>4. OneToken' /\ TokenSpent'
  BY <1>1, <1>2 DEF OneToken, TokenSpent, NoneHasToken, HasToken, AllOver
<1>5. Len(buf) <= 1 /\ Len(pipe') = 0 /\ Len(buf') = 0
  BY <1>1, <1>2 DEF Buffer, TypeOK
<1>6. Buffer'
  BY <1>1, <1>5 DEF Buffer
<1>7. SendersHaveWritten'
  <2>1. 1..Len(buf') = {} /\ 1..Len(pipe') = {}
    BY <1>5
  <2> QED
    BY <1>1, <2>1 DEF SendersHaveWritten, HasWritten
<1> QED
  BY <1>1, <1>2, <1>3, <1>4, <1>5, <1>6, <1>7

\* The other steps of the logger.
LEMMA LoggerInv ==
  ASSUME Inv, LoggerMoves \/ PutToken \/ PutTokenFails \/ ReadNothing \/ LoggerDies
  PROVE  Inv' /\ UNCHANGED <<pipe, buf, log>>
<1> USE DEF Inv
<1>1. UNCHANGED <<wpc, pipe, buf, log>>
  BY DEF LoggerMoves, PutToken, PutTokenFails, ReadNothing, LoggerDies
<1>2. SendersHaveWritten'
  BY <1>1 DEF SendersHaveWritten, HasWritten
<1>3. TypeOK'
  BY <1>1 DEF LoggerMoves, PutToken, PutTokenFails, ReadNothing, LoggerDies, LoggerGoes, TypeOK,
     LoggerPC
<1>4. Buffer'
  BY <1>1 DEF LoggerMoves, PutToken, PutTokenFails, ReadNothing, LoggerDies, LoggerGoes, Buffer
<1>5. OneToken' /\ TokenSpent'
  <2> USE <1>1 DEF LoggerGoes, OneToken, TokenSpent, TokenInPipe,
          TokenWithHandler, TokenIsMessage, NoneHasToken, HasToken, AllOver
  <2>1. CASE LoggerMoves
    BY <2>1 DEF LoggerMoves
  <2>2. CASE PutToken
    <3>1. Len(pipe) <= 1
      BY DEF Buffer, TypeOK
    <3> QED
      BY <2>2, <3>1 DEF PutToken
  <2>3. CASE ReadNothing
    BY <2>3 DEF ReadNothing
  <2>4. CASE LoggerDies
    BY <2>4 DEF LoggerDies
  <2>5. CASE PutTokenFails
    <3>1. Len(pipe) <= 1
      BY DEF Buffer, TypeOK
    <3> QED
      BY <2>5, <3>1 DEF PutTokenFails
  <2> QED
    BY <2>1, <2>2, <2>3, <2>4, <2>5
<1> QED
  BY <1>1, <1>2, <1>3, <1>4, <1>5

\* A step keeps the invariant, and is one of AccessLog or changes nothing there.
LEMMA StepInv ==
  ASSUME Inv, [Next]_vars
  PROVE  Inv' /\ [AL!Next]_(AL!alVars)
<1>1. ASSUME NEW w \in Workers, WriteRecord(w)
      PROVE  Inv' /\ AL!Accept(w)
  <2>1. /\ Inv' /\ pipe = <<>> /\ buf = <<>>
        /\ \A i \in 1..Len(log) : log[i] # w
    BY <1>1, WriteInv
  <2>2. pipe' = <<w>> /\ buf' = <<>> /\ log' = log
    BY <1>1, <2>1 DEF WriteRecord
  <2>3. log \o buf \o pipe = log /\ log' \o buf' \o pipe' = Append(log, w)
    BY <2>1, <2>2 DEF Inv, TypeOK
  <2> QED
    BY <2>1, <2>2, <2>3 DEF AL!Accept
<1>2. ASSUME NEW w \in Workers, WorkerStep(w), ~WriteRecord(w)
      PROVE  Inv' /\ UNCHANGED <<pipe, buf, log>>
  BY <1>2, WorkerInv
<1>3. ASSUME NEW process \in SUBSET Workers, WorkersDie(process)
      PROVE  Inv' /\ UNCHANGED <<pipe, buf, log>>
  BY <1>3, WorkersDieInv
<1>4. CASE ReadRecord
  BY <1>4, ReadInv DEF AL!alVars
<1>5. CASE AppendLine
  <2>1. /\ Inv' /\ pipe = <<>> /\ pipe' = <<>> /\ buf' = <<>>
        /\ log' = log \o buf /\ Len(buf) <= 1
    BY <1>5, AppendInv
  <2>2. log \in Seq(Workers) /\ buf \in Seq(Workers)
    BY DEF Inv, TypeOK
  <2>3. CASE buf = <<>>
    <3>1. log' = log
      BY <2>1, <2>2, <2>3
    <3> QED
      BY <2>1, <2>3, <3>1 DEF AL!alVars
  <2>4. CASE buf # <<>>
    <3>1. PICK v \in Workers : buf = <<v>>
      <4>1. Len(buf) <= 1
        BY <2>1
      <4> QED
        BY <2>2, <2>4, <4>1, OneElement
    <3>2. /\ log' = Append(log, v)
          /\ log \o buf \o pipe = Append(log, v)
          /\ log' \o buf' \o pipe' = Append(log, v)
      BY <2>1, <2>2, <3>1
    <3>3. /\ Len(log) < Len(Append(log, v))
          /\ Append(log, v)[Len(log) + 1] = v
      BY <2>2
    <3>4. AL!Record
      BY <3>2, <3>3 DEF AL!Record
    <3> QED
      BY <2>1, <3>4 DEF AL!Next
  <2> QED
    BY <2>3, <2>4
<1>10. CASE AppendLineFails
  <2>1. /\ Inv' /\ pipe = <<>> /\ pipe' = <<>> /\ buf' = <<>>
        /\ log' = log /\ Len(buf) <= 1 /\ IOErrors
    BY <1>10, AppendFailsInv DEF AppendLineFails
  <2>2. log \in Seq(Workers) /\ buf \in Seq(Workers)
    BY DEF Inv, TypeOK
  <2>3. CASE buf = <<>>
    BY <2>1, <2>3 DEF AL!alVars
  <2>4. CASE buf # <<>>
    <3>1. PICK v \in Workers : buf = <<v>>
      <4>1. Len(buf) <= 1
        BY <2>1
      <4> QED
        BY <2>2, <2>4, <4>1, OneElement
    <3>2. /\ log \o buf \o pipe = Append(log, v)
          /\ log' \o buf' \o pipe' = log
          /\ Len(log) < Len(Append(log, v))
      BY <2>1, <2>2, <3>1
    <3>3. AL!Lose
      BY <2>1, <3>2 DEF AL!Lose
    <3> QED
      BY <2>1, <3>3 DEF AL!Next
  <2> QED
    BY <2>3, <2>4
<1>6. CASE LoggerMoves \/ PutToken \/ PutTokenFails \/ ReadNothing \/ LoggerDies
  BY <1>6, LoggerInv DEF AL!alVars
<1>7. CASE UNCHANGED vars
  <2>1. Inv'
    BY <1>7 DEF vars, Inv, TypeOK, OneToken, TokenSpent, Buffer,
       SendersHaveWritten, TokenInPipe, TokenWithHandler, TokenIsMessage,
       NoneHasToken, HasToken, HasWritten, AllOver
  <2> QED
    BY <1>7, <2>1 DEF vars, AL!alVars
<1>8. ASSUME NEW w \in Workers, WorkerStep(w) PROVE Inv' /\ [AL!Next]_(AL!alVars)
  BY <1>1, <1>2, <1>8 DEF AL!Next, AL!alVars
<1>9. ASSUME NEW process \in SUBSET Workers, WorkersDie(process)
      PROVE  Inv' /\ [AL!Next]_(AL!alVars)
  BY <1>3, <1>9 DEF AL!alVars
<1> QED
  BY <1>4, <1>5, <1>6, <1>7, <1>8, <1>9, <1>10 DEF Next, LoggerStep

\* One record is on its way at most, and those that arrive are in order and
\* none twice: with the token alone, whoever holds the mutex, whatever wakes the
\* logger and whoever dies.
THEOREM TokenIsEnough == Spec => AccessLogSafety
<1>1. Init => Inv /\ AL!Init
  <2>1. Init => AL!Init
    BY DEF Init, AL!Init
  <2> QED
    BY <2>1, InitInv
<1>2. Inv /\ [Next]_vars => Inv' /\ [AL!Next]_(AL!alVars)
  BY StepInv
<1> QED
  BY <1>1, <1>2, PTL DEF Spec, AccessLogSafety, AL!Spec

==============================================================================
