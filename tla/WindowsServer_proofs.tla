------------------------ MODULE WindowsServer_proofs ------------------------
(***************************************************************************)
(* Proofs about WindowsServer, for any set of requests, whatever the       *)
(* clients ask for, however often Ctrl-C is pressed, and with or without   *)
(* calls that fail.                                                        *)
(***************************************************************************)
EXTENDS WindowsServer, TLAPS

(***************************************************************************)
(* The inductive invariant.                                                *)
(***************************************************************************)

\* Where the runner deals with a request process.
Handing == {"duplicate", "connect", "connecting", "handoff", "disconnect",
            "wait"}

\* The runner hands the last connection over to a process, and keeps its own
\* handle of it: no thread can close it, because args.configs says "Process".
HandOff ==
  /\ runner \in Handing \cup {"spawn"} => cur \in Requests
  /\ runner \in Handing => argsMode = "Process" /\ kind[cur] = "process"
  /\ runner \in Handing \/ (runner = "spawn" /\ argsMode = "Process")
       => (conn[cur] = "accepted" => "server" \in handles[cur])
  /\ \A r \in Requests : kind[r] = "thread" => cur \in Requests
  /\ OneRequestProcess

\* A thread that was not overtaken finds its own connection and client in
\* args, or no connection where accept() gave none; the runner overtakes all
\* there are before it starts another.
OwnArgs ==
  /\ runner = "spawn" =>
       /\ argsFd = cur \/ (argsFd = NoConn /\ conn[cur] = "reset")
       /\ Threads \subseteq overtaken
  /\ \A r \in Threads \ overtaken :
       /\ argsFd = r \/ (argsFd = NoConn /\ conn[r] = "reset")
       /\ cur = r
  /\ \A r \in Requests : snd[r] = "running" =>
       sndFd[r] \in {r, NoConn} \/ r \in overtaken
  /\ \A c \in Requests : \A answer \in sent[c] :
       answer[1] = c \/ answer[1] \in overtaken

\* A request has one connection, which is accepted before it has a handler,
\* and only a process has to be given it.
OneConnection ==
  /\ runner = "spawn" => conn[cur] \in {"accepted", "reset"} /\ pc[cur] = "none"
  /\ \A r \in Requests :
       /\ conn[r] \in {"none", "queued", "stranded"} => pc[r] = "none"
       /\ pc[r] # "none" => kind[r] # "none"
       /\ pc[r] \in {"begin", "openpipe", "readinfo"} => kind[r] = "process"
       /\ snd[r] = "running" => pc[r] # "none"

\* The places of a handler before it receives the request, before it answers,
\* and while it answers with a file and logs it.
Starting == {"none", "begin", "openpipe", "readinfo"}
Sending == {"recv", "error", "list"}
Filing == {"mapped", "pipe", "redirect", "create", "restore", "redirect2",
           "write", "event"}

\* The answer a request gets; what remains of a file may be nothing.
Answered(r) ==
  CASE target[r] = "missing" -> sent[r] = {<<r, "error">>}
    [] target[r] = "directory" -> sent[r] = {<<r, "listing">>}
    [] OTHER -> sent[r] \subseteq {<<r, "file">>}

\* How far a handler is with its answer, and that it still has its connection
\* when it gives it.
Answering ==
  \A r \in Requests :
    /\ pc[r] \in Starting \cup Sending \cup {"map"} => sent[r] = {}
    /\ pc[r] = "error" => target[r] = "missing"
    /\ pc[r] = "list" => target[r] = "directory"
    /\ pc[r] \in Filing \cup {"map"} =>
         /\ target[r] \notin {"missing", "directory"}
         /\ sent[r] \subseteq {<<r, "file">>}
    /\ pc[r] \in {"clean", "done"} /\ conn[r] = "accepted" => Answered(r)
    /\ pc[r] \in Sending /\ conn[r] = "accepted" => Holder(r) \in handles[r]

\* As long as no thread was overtaken.
AnswerInv ==
  overtaken = {} =>
    /\ runner = "spawn" /\ conn[cur] = "accepted" => "server" \in handles[cur]
    /\ Answering

\* The places of a handler that has written its record.
PastWrite == {"event", "clean"} \cup Ended

\* A record is its writer's, and about its writer's own client.
True(record) ==
  /\ record.ip = record.by \/ record.by \in overtaken
  /\ pc[record.by] \in PastWrite

\* A record is in one place: a pipe, a log process or the log.
RecordInv ==
  /\ \A p \in Requests : pipe[p] # <<>> => Len(pipe[p]) = 1 /\ True(pipe[p][1])
  /\ \A p \in Requests : lbuf[p] # <<>> => Len(lbuf[p]) = 1 /\ True(lbuf[p][1])
  /\ \A i \in 1..Len(log) : True(log[i])
  /\ \A p, q \in Requests :
       /\ pipe[p] # <<>> /\ pipe[q] # <<>> /\ pipe[p][1].by = pipe[q][1].by
            => p = q
       /\ lbuf[p] # <<>> /\ lbuf[q] # <<>> /\ lbuf[p][1].by = lbuf[q][1].by
            => p = q
       /\ ~(pipe[p] # <<>> /\ lbuf[q] # <<>> /\ pipe[p][1].by = lbuf[q][1].by)
  /\ \A i \in 1..Len(log) : \A p \in Requests :
       /\ pipe[p] # <<>> => pipe[p][1].by # log[i].by
       /\ lbuf[p] # <<>> => lbuf[p][1].by # log[i].by
  /\ \A i, j \in 1..Len(log) : log[i].by = log[j].by => i = j

Inv ==
  /\ TypeOK
  /\ HandOff
  /\ OwnArgs
  /\ OneConnection
  /\ AnswerInv
  /\ RecordInv

-----------------------------------------------------------------------------
(* Types *)

\* Most steps leave the log alone.
LEMMA LogUnchanged == WLogTypeOK /\ UNCHANGED wlogVars => WLogTypeOK'
  BY DEF WLogTypeOK, wlogVars

\* The connection a handler uses, and where it goes when the file is dealt
\* with.
LEMMA HandlerTypes ==
  ASSUME TypeOK, NEW r \in Requests
  PROVE  /\ Fd(r) \in Requests \cup {NoConn}
         /\ ClientIp(r) \in Requests \cup {NoConn}
         /\ LogsFrom(r) \in {"pipe", "redirect2", "write"}
  BY DEF TypeOK, Fd, ClientIp, LogsFrom

\* What is sent is an answer of a handler.
LEMMA SendsTypes ==
  ASSUME TypeOK, NEW r \in Requests, NEW c, NEW answer \in Answers,
         Sends(r, c, answer)
  PROVE  sent' \in [Requests -> SUBSET (Requests \X Answers)]
<1>1. sent \in [Requests -> SUBSET (Requests \X Answers)]
  BY DEF TypeOK
<1>2. <<r, answer>> \in Requests \X Answers
  OBVIOUS
<1>3. CASE ~Usable(r, c)
  BY <1>1, <1>3 DEF Sends
<1>4. CASE Usable(r, c)
  <2>1. sent' = [sent EXCEPT ![c] = @ \cup {<<r, answer>>}]
    BY <1>4 DEF Sends
  <2> QED
    BY <1>1, <1>2, <2>1
<1> QED
  BY <1>3, <1>4

\* What a log process does.
LEMMA LoggerTypes ==
  ASSUME WLogTypeOK, NEW r \in Requests, NEW writeEnds,
         LoggerStep(r, writeEnds)
  PROVE  WLogTypeOK'
<1> USE DEF WLogTypeOK, globalVars, procVars
<1>1. CASE LoggerCreatesEvent(r)
  BY <1>1 DEF LoggerCreatesEvent
<1>2. CASE LoggerWakes(r)
  BY <1>2 DEF LoggerWakes
<1>3. CASE LoggerReads(r)
  <2>1. /\ lbuf' \in [Requests -> Seq(Records)]
        /\ pipe' \in [Requests -> Seq(Records)]
    BY <1>3 DEF LoggerReads
  <2> QED
    BY <1>3, <2>1 DEF LoggerReads
<1>4. CASE LoggerReadFails(r, writeEnds)
  BY <1>4 DEF LoggerReadFails, LoggerEnds, Handles
<1>5. CASE LoggerWrites(r)
  <2>1. log' \in Seq(Records)
    BY <1>5 DEF LoggerWrites
  <2> QED
    BY <1>5, <2>1 DEF LoggerWrites, LoggerEnds, Handles
<1> QED
  BY <1>1, <1>2, <1>3, <1>4, <1>5 DEF LoggerStep

\* What a handler does to the log.
LEMMA LogCallTypes ==
  ASSUME TypeOK, NEW r \in Requests, LogCall(r), ClientIp(r) \in Requests
  PROVE  WLogTypeOK'
<1> USE DEF WLogTypeOK, globalVars, procVars, LogStep
<1>0. WLogTypeOK
  BY DEF TypeOK
<1>1. CASE CreatePipe(r)
  BY <1>0, <1>1 DEF CreatePipe
<1>2. CASE RedirectStd(r)
  BY <1>0, <1>2 DEF RedirectStd, Handles
<1>3. CASE StartLogger(r)
  BY <1>0, <1>3 DEF StartLogger
<1>4. CASE RestoreStd(r) /\ UNCHANGED event
  BY <1>0, <1>4 DEF RestoreStd, Handles
<1>5. CASE WriteFileToPipe(IF kind[r] = "thread" THEN gpipe ELSE r,
                           [by |-> r, ip |-> ClientIp(r)])
  <2> DEFINE p == IF kind[r] = "thread" THEN gpipe ELSE r
             record == [by |-> r, ip |-> ClientIp(r)]
  <2>1. record \in Records
    BY DEF Records
  <2>2. p \in Requests \cup {NoPipe}
    BY <1>0
  <2> HIDE DEF p, record
  <2>3. <<record>> \in Seq(Records)
    BY <2>1
  <2>4. pipe' \in [Requests -> Seq(Records)]
    <3>1. CASE p = NoPipe
      BY <1>0, <1>5, <3>1 DEF WriteFileToPipe, p, record
    <3>2. CASE p # NoPipe
      <4>1. p \in Requests /\ pipe' = [pipe EXCEPT ![p] = <<record>>]
        BY <1>5, <2>2, <3>2 DEF WriteFileToPipe, p, record
      <4>2. pipe \in [Requests -> Seq(Records)]
        BY <1>0
      <4> QED
        BY <2>3, <4>1, <4>2
    <3> QED
      BY <3>1, <3>2
  <2> QED
    BY <1>0, <1>5, <2>4 DEF WriteFileToPipe
<1>6. CASE SignalEvent /\ RestoreStd(r)
  BY <1>0, <1>6 DEF SignalEvent, RestoreStd, Handles
<1>7. CASE SignalEvent /\ UNCHANGED globalVars
  BY <1>0, <1>7 DEF SignalEvent
<1> QED
  BY <1>1, <1>2, <1>3, <1>4, <1>5, <1>6, <1>7 DEF LogCall

\* Types are kept.
LEMMA TypeStep ==
  ASSUME TypeOK, HandOff, [Next]_vars
  PROVE  TypeOK'
<1> USE DEF TypeOK, Goes, RunnerGoes, loopVars, argsVars, pipeVars, connVars,
            handlerVars, HandlerPC, Ended, AllTargets, Modes
<1>0. \A r \in Requests : ClientIp(r) \in Requests
  BY DEF HandOff, ClientIp
<1>1. CASE CtrlC
  <2>1. WLogTypeOK'
    BY <1>1 DEF CtrlC, LoggersKilled, WLogTypeOK, Handles, globalVars
  <2>2. handles' \in [Requests -> SUBSET {"server", "process"}]
    BY <1>1 DEF CtrlC, Drop
  <2>3. events' \in Nat
    BY <1>1 DEF CtrlC
  <2> QED
    BY <1>1, <2>1, <2>2, <2>3 DEF CtrlC
<1>2. ASSUME NEW r \in Requests, Connect(r)  PROVE  TypeOK'
  BY <1>2, LogUnchanged DEF Connect
<1>3. CASE StartRunner
  BY <1>3, LogUnchanged DEF StartRunner
<1>4. CASE StartRunnerFails
  BY <1>4, LogUnchanged DEF StartRunnerFails
<1>5. ASSUME NEW r \in Requests, Accept(r) \/ AcceptFails(r)  PROVE  TypeOK'
  <2>1. overtaken' \subseteq Requests
    BY <1>5 DEF Accept, AcceptFails, Threads
  <2>2. handles' \in [Requests -> SUBSET {"server", "process"}]
    BY <1>5 DEF Accept, AcceptFails
  <2> QED
    BY <1>5, <2>1, <2>2, LogUnchanged DEF Accept, AcceptFails
<1>6. CASE Spawn
  BY <1>6, LogUnchanged DEF Spawn
<1>7. CASE SpawnFails
  BY <1>7, LogUnchanged DEF SpawnFails
<1>8. CASE DuplicateSocket
  BY <1>8, LogUnchanged DEF DuplicateSocket
<1>9. CASE DuplicateSocketFails \/ ParseConfigFails
  BY <1>9, LogUnchanged DEF DuplicateSocketFails, ParseConfigFails, ServerDies, Drop
<1>10. CASE ConnectNamedPipe
  BY <1>10, LogUnchanged DEF ConnectNamedPipe
<1>11. CASE AlreadyConnected
  BY <1>11, LogUnchanged DEF AlreadyConnected
<1>12. CASE ClientConnected
  BY <1>12, LogUnchanged DEF ClientConnected
<1>13. CASE WriteInfo
  BY <1>13, LogUnchanged DEF WriteInfo
<1>14. CASE DisconnectNamedPipe
  BY <1>14, LogUnchanged DEF DisconnectNamedPipe
<1>15. CASE WaitProcess
  BY <1>15, LogUnchanged DEF WaitProcess
<1>16. CASE Timeout
  BY <1>16, LogUnchanged DEF Timeout
<1>17. CASE EndServer \/ SelectFails
  <2>1. overtaken' \subseteq Requests
    BY <1>17 DEF EndServer, SelectFails, ArgsGone, Threads
  <2> QED
    BY <1>17, <2>1, LogUnchanged DEF EndServer, SelectFails, WaitingGet, ArgsGone
<1>18. CASE ClearFlag
  BY <1>18, LogUnchanged DEF ClearFlag
<1>19. CASE ReadConfig
  BY <1>19, LogUnchanged DEF ReadConfig
<1>20. CASE ParseConfig
  BY <1>20, LogUnchanged DEF ParseConfig
<1>21. ASSUME NEW r \in Requests, BeginProcess(r)  PROVE  TypeOK'
  <2>1. WLogTypeOK'
    BY <1>21 DEF BeginProcess, RunLogProcess, WLogTypeOK, Handles, globalVars
  <2> QED
    BY <1>21, <2>1 DEF BeginProcess
<1>22. ASSUME NEW r \in Requests, OpenNamedPipe(r)  PROVE  TypeOK'
  BY <1>22, LogUnchanged DEF OpenNamedPipe
<1>23. ASSUME NEW r \in Requests, OpenNamedPipeFails(r)  PROVE  TypeOK'
  BY <1>23, LogUnchanged DEF OpenNamedPipeFails, ProcessEnds
<1>24. ASSUME NEW r \in Requests, ReadInfo(r)  PROVE  TypeOK'
  <2>1. handles' \in [Requests -> SUBSET {"server", "process"}]
    BY <1>24 DEF ReadInfo
  <2>2. pc' \in [Requests -> HandlerPC] /\ info' \in BOOLEAN
    BY <1>24 DEF ReadInfo
  <2>3. UNCHANGED <<loopVars, runner, argsVars, inst, conn, taken, sent, kind,
                    job, snd, sndFd, wlogVars>>
    BY <1>24 DEF ReadInfo
  <2>4. WLogTypeOK'
    BY <2>3, LogUnchanged
  <2> QED
    BY <2>1, <2>2, <2>3, <2>4
<1>25. ASSUME NEW r \in Requests, ReadInfoFails(r)  PROVE  TypeOK'
  BY <1>25, LogUnchanged DEF ReadInfoFails, ProcessEnds
<1>26. ASSUME NEW r \in Requests, Receive(r)  PROVE  TypeOK'
  <2>1. Fd(r) \in Requests
    BY <1>26, HandlerTypes DEF Receive, Usable
  <2>2. target[Fd(r)] \in AllTargets
    BY <2>1
  <2>3. job' \in [Requests -> AllTargets \cup {"none"}]
    BY <1>26, <2>2 DEF Receive
  <2>4. taken' \in [Requests -> BOOLEAN]
    BY <1>26, <2>1 DEF Receive
  <2>5. pc' \in [Requests -> HandlerPC]
    <3>1. \E to \in {"error", "list", "map"} : Goes(r, "recv", to)
      BY <1>26 DEF Receive
    <3> QED
      BY <3>1
  <2> QED
    BY <1>26, <2>3, <2>4, <2>5, LogUnchanged DEF Receive
<1>27. ASSUME NEW r \in Requests, ReceiveFails(r)  PROVE  TypeOK'
  BY <1>27, LogUnchanged DEF ReceiveFails
<1>28. ASSUME NEW r \in Requests, SendError(r)  PROVE  TypeOK'
  <2>1. Sends(r, Fd(r), "error") /\ "error" \in Answers
    BY <1>28 DEF SendError, Answers
  <2>2. sent' \in [Requests -> SUBSET (Requests \X Answers)]
    BY <2>1, SendsTypes
  <2>3. /\ pc' \in [Requests -> HandlerPC]
        /\ snd' \in [Requests -> {"none", "running", "ended"}]
    BY <1>28 DEF SendError
  <2>4. UNCHANGED <<loopVars, runner, argsVars, pipeVars, conn, handles,
                    taken, kind, job, sndFd, wlogVars>>
    BY <1>28 DEF SendError
  <2>5. WLogTypeOK'
    BY <2>4, LogUnchanged
  <2> QED
    BY <2>2, <2>3, <2>4, <2>5
<1>29. ASSUME NEW r \in Requests, SendListing(r)  PROVE  TypeOK'
  <2>1. Sends(r, Fd(r), "listing") /\ "listing" \in Answers
    BY <1>29 DEF SendListing, Answers
  <2>2. sent' \in [Requests -> SUBSET (Requests \X Answers)]
    BY <2>1, SendsTypes
  <2>3. /\ pc' \in [Requests -> HandlerPC]
        /\ snd' \in [Requests -> {"none", "running", "ended"}]
    BY <1>29 DEF SendListing
  <2>4. UNCHANGED <<loopVars, runner, argsVars, pipeVars, conn, handles,
                    taken, kind, job, sndFd, wlogVars>>
    BY <1>29 DEF SendListing
  <2>5. WLogTypeOK'
    BY <2>4, LogUnchanged
  <2> QED
    BY <2>2, <2>3, <2>4, <2>5
<1>30. ASSUME NEW r \in Requests, MapFile(r)  PROVE  TypeOK'
  BY <1>30, HandlerTypes, LogUnchanged, WindowsAssumption DEF MapFile
<1>31. ASSUME NEW r \in Requests, MapFileFails(r)  PROVE  TypeOK'
  BY <1>31, HandlerTypes, LogUnchanged, WindowsAssumption DEF MapFileFails
<1>32. ASSUME NEW r \in Requests, UnmapFile(r)  PROVE  TypeOK'
  BY <1>32, HandlerTypes, LogUnchanged, WindowsAssumption DEF UnmapFile
<1>33. ASSUME NEW r \in Requests, LogCall(r)  PROVE  TypeOK'
  <2>1. WLogTypeOK'
    BY <1>33, LogCallTypes, <1>0
  <2>2. \E from, to \in HandlerPC : Goes(r, from, to)
    BY <1>33 DEF LogCall, LogStep
  <2>3. UNCHANGED <<loopVars, runner, argsVars, pipeVars, connVars, kind, job,
                    snd, sndFd>>
    BY <1>33 DEF LogCall, LogStep
  <2> QED
    BY <2>1, <2>2, <2>3
<1>34. ASSUME NEW r \in Requests, CleanRequest(r)  PROVE  TypeOK'
  BY <1>34, LogUnchanged DEF CleanRequest
<1>35. ASSUME NEW r \in Requests, CleanRequestDies(r)  PROVE  TypeOK'
  BY <1>35, LogUnchanged DEF CleanRequestDies, ServerDies, Drop
<1>36. ASSUME NEW r \in Requests, CleanProcess(r)  PROVE  TypeOK'
  BY <1>36, LogUnchanged DEF CleanProcess, ProcessEnds
<1>37. ASSUME NEW r \in Requests, SenderSends(r)  PROVE  TypeOK'
  <2>1. Sends(r, sndFd[r], "file") /\ "file" \in Answers
    BY <1>37 DEF SenderSends, Answers
  <2>2. sent' \in [Requests -> SUBSET (Requests \X Answers)]
    BY <2>1, SendsTypes
  <2>3. /\ pc' \in [Requests -> HandlerPC]
        /\ snd' \in [Requests -> {"none", "running", "ended"}]
    BY <1>37 DEF SenderSends
  <2>4. UNCHANGED <<loopVars, runner, argsVars, pipeVars, conn, handles,
                    taken, kind, job, sndFd, wlogVars>>
    BY <1>37 DEF SenderSends
  <2>5. WLogTypeOK'
    BY <2>4, LogUnchanged
  <2> QED
    BY <2>2, <2>3, <2>4, <2>5
<1>38. ASSUME NEW r \in Requests, SenderFails(r)  PROVE  TypeOK'
  BY <1>38, LogUnchanged DEF SenderFails
<1>39. ASSUME NEW r \in Requests, SenderFaults(r)  PROVE  TypeOK'
  BY <1>39, LogUnchanged DEF SenderFaults, Dies, ServerDies, ProcessEnds, Drop
<1>40. ASSUME NEW r \in Requests, LogProcess(r)  PROVE  TypeOK'
  <2>1. WLogTypeOK'
    BY <1>40, LoggerTypes DEF LogProcess
  <2> QED
    BY <1>40, <2>1 DEF LogProcess
<1>41. CASE UNCHANGED vars
  BY <1>41, LogUnchanged DEF vars
<1> QED
  BY <1>1, <1>2, <1>3, <1>4, <1>5, <1>6, <1>7, <1>8, <1>9, <1>10, <1>11,
     <1>12, <1>13, <1>14, <1>15, <1>16, <1>17, <1>18, <1>19, <1>20, <1>21,
     <1>22, <1>23, <1>24, <1>25, <1>26, <1>27, <1>28, <1>29, <1>30, <1>31,
     <1>32, <1>33, <1>34, <1>35, <1>36, <1>37, <1>38, <1>39, <1>40, <1>41
     DEF Next, SystemStep, RunnerStep, HandlerStep, SenderStep

-----------------------------------------------------------------------------
(* One request process *)

\* The runner waits for the process, which only the end of either ends.
LEMMA HandOffStep ==
  ASSUME TypeOK, HandOff, [Next]_vars
  PROVE  HandOff'
<1> USE DEF TypeOK, HandOff, OneRequestProcess, Handing, Modes, Processes,
            Threads, Running, Ended, Goes, RunnerGoes, loopVars, argsVars,
            pipeVars, connVars, handlerVars
<1>1. CASE CtrlC
  BY <1>1 DEF CtrlC, Drop
<1>2. ASSUME NEW r \in Requests, Connect(r)  PROVE  HandOff'
  BY <1>2 DEF Connect
<1>3. CASE StartRunner
  BY <1>3 DEF StartRunner
<1>4. CASE StartRunnerFails
  BY <1>4 DEF StartRunnerFails
<1>5. ASSUME NEW r \in Requests, Accept(r) \/ AcceptFails(r)  PROVE  HandOff'
  BY <1>5 DEF Accept, AcceptFails
<1>6. CASE Spawn
  BY <1>6 DEF Spawn
<1>7. CASE SpawnFails
  BY <1>7 DEF SpawnFails
<1>8. CASE DuplicateSocket
  BY <1>8 DEF DuplicateSocket
<1>9. CASE DuplicateSocketFails \/ ParseConfigFails
  BY <1>9 DEF DuplicateSocketFails, ParseConfigFails, ServerDies, Drop
<1>10. CASE ConnectNamedPipe
  BY <1>10 DEF ConnectNamedPipe
<1>11. CASE AlreadyConnected
  BY <1>11 DEF AlreadyConnected
<1>12. CASE ClientConnected
  BY <1>12 DEF ClientConnected
<1>13. CASE WriteInfo
  BY <1>13 DEF WriteInfo
<1>14. CASE DisconnectNamedPipe
  BY <1>14 DEF DisconnectNamedPipe
<1>15. CASE WaitProcess
  BY <1>15 DEF WaitProcess
<1>16. CASE Timeout
  BY <1>16 DEF Timeout
<1>17. CASE EndServer \/ SelectFails
  BY <1>17 DEF EndServer, SelectFails, WaitingGet, ArgsGone
<1>18. CASE ClearFlag
  BY <1>18 DEF ClearFlag
<1>19. CASE ReadConfig
  BY <1>19 DEF ReadConfig
<1>20. CASE ParseConfig
  BY <1>20 DEF ParseConfig
<1>21. ASSUME NEW r \in Requests, BeginProcess(r)  PROVE  HandOff'
  BY <1>21 DEF BeginProcess
<1>22. ASSUME NEW r \in Requests, OpenNamedPipe(r)  PROVE  HandOff'
  BY <1>22 DEF OpenNamedPipe
<1>23. ASSUME NEW r \in Requests, OpenNamedPipeFails(r)  PROVE  HandOff'
  BY <1>23 DEF OpenNamedPipeFails, ProcessEnds
<1>24. ASSUME NEW r \in Requests, ReadInfo(r)  PROVE  HandOff'
  BY <1>24 DEF ReadInfo
<1>25. ASSUME NEW r \in Requests, ReadInfoFails(r)  PROVE  HandOff'
  BY <1>25 DEF ReadInfoFails, ProcessEnds
<1>26. ASSUME NEW r \in Requests, Receive(r)  PROVE  HandOff'
  BY <1>26 DEF Receive
<1>27. ASSUME NEW r \in Requests, ReceiveFails(r)  PROVE  HandOff'
  BY <1>27 DEF ReceiveFails
<1>28. ASSUME NEW r \in Requests, SendError(r)  PROVE  HandOff'
  BY <1>28 DEF SendError, Sends
<1>29. ASSUME NEW r \in Requests, SendListing(r)  PROVE  HandOff'
  BY <1>29 DEF SendListing, Sends
<1>30. ASSUME NEW r \in Requests, MapFile(r)  PROVE  HandOff'
  BY <1>30 DEF MapFile
<1>31. ASSUME NEW r \in Requests, MapFileFails(r)  PROVE  HandOff'
  BY <1>31 DEF MapFileFails, LogsFrom
<1>32. ASSUME NEW r \in Requests, UnmapFile(r)  PROVE  HandOff'
  BY <1>32 DEF UnmapFile, LogsFrom
<1>33. ASSUME NEW r \in Requests, LogCall(r)  PROVE  HandOff'
  BY <1>33 DEF LogCall, LogStep
<1>34. ASSUME NEW r \in Requests, CleanRequest(r)  PROVE  HandOff'
  BY <1>34 DEF CleanRequest
<1>35. ASSUME NEW r \in Requests, CleanRequestDies(r)  PROVE  HandOff'
  BY <1>35 DEF CleanRequestDies, ServerDies, Drop
<1>36. ASSUME NEW r \in Requests, CleanProcess(r)  PROVE  HandOff'
  BY <1>36 DEF CleanProcess, ProcessEnds
<1>37. ASSUME NEW r \in Requests, SenderSends(r)  PROVE  HandOff'
  BY <1>37 DEF SenderSends, Sends
<1>38. ASSUME NEW r \in Requests, SenderFails(r)  PROVE  HandOff'
  BY <1>38 DEF SenderFails
<1>39. ASSUME NEW r \in Requests, SenderFaults(r)  PROVE  HandOff'
  BY <1>39 DEF SenderFaults, Dies, ServerDies, ProcessEnds, Drop
<1>40. ASSUME NEW r \in Requests, LogProcess(r)  PROVE  HandOff'
  BY <1>40 DEF LogProcess
<1>41. CASE UNCHANGED vars
  BY <1>41 DEF vars
<1> QED
  BY <1>1, <1>2, <1>3, <1>4, <1>5, <1>6, <1>7, <1>8, <1>9, <1>10, <1>11,
     <1>12, <1>13, <1>14, <1>15, <1>16, <1>17, <1>18, <1>19, <1>20, <1>21,
     <1>22, <1>23, <1>24, <1>25, <1>26, <1>27, <1>28, <1>29, <1>30, <1>31,
     <1>32, <1>33, <1>34, <1>35, <1>36, <1>37, <1>38, <1>39, <1>40, <1>41
     DEF Next, SystemStep, RunnerStep, HandlerStep, SenderStep

-----------------------------------------------------------------------------
(* Own connections and answers *)

\* Whoever changes args marks the threads that run as overtaken.
LEMMA OwnArgsStep ==
  ASSUME TypeOK, HandOff, OwnArgs, [Next]_vars
  PROVE  OwnArgs'
<1> USE DEF TypeOK, OwnArgs, Modes, Processes, Threads, Running, Ended, Fd,
            Goes, RunnerGoes, loopVars, argsVars, pipeVars, connVars,
            handlerVars
<1>1. CASE CtrlC
  BY <1>1 DEF CtrlC, Drop
<1>2. ASSUME NEW r \in Requests, Connect(r)  PROVE  OwnArgs'
  BY <1>2 DEF Connect
<1>3. CASE StartRunner \/ StartRunnerFails \/ SpawnFails \/ DuplicateSocket
          \/ ConnectNamedPipe \/ AlreadyConnected \/ ClientConnected
          \/ WriteInfo \/ DisconnectNamedPipe \/ Timeout \/ ClearFlag
          \/ ReadConfig \/ ParseConfig
  BY <1>3
     DEF StartRunner, StartRunnerFails, SpawnFails, DuplicateSocket,
         ConnectNamedPipe, AlreadyConnected, ClientConnected, WriteInfo,
         DisconnectNamedPipe, Timeout, ClearFlag, ReadConfig, ParseConfig
<1>4. ASSUME NEW r \in Requests, Accept(r) \/ AcceptFails(r)  PROVE  OwnArgs'
  BY <1>4 DEF Accept, AcceptFails
<1>5. CASE Spawn
  BY <1>5 DEF Spawn
<1>6. CASE DuplicateSocketFails \/ ParseConfigFails
  BY <1>6 DEF DuplicateSocketFails, ParseConfigFails, ServerDies, Drop
<1>7. CASE WaitProcess
  BY <1>7 DEF WaitProcess
<1>8. CASE EndServer \/ SelectFails
  BY <1>8 DEF EndServer, SelectFails, WaitingGet, ArgsGone
<1>9. ASSUME NEW r \in Requests,
             BeginProcess(r) \/ OpenNamedPipe(r) \/ ReadInfo(r)
             \/ Receive(r) \/ ReceiveFails(r)
      PROVE  OwnArgs'
  BY <1>9 DEF BeginProcess, OpenNamedPipe, ReadInfo, Receive, ReceiveFails
<1>10. ASSUME NEW r \in Requests,
             OpenNamedPipeFails(r) \/ ReadInfoFails(r) \/ CleanProcess(r)
      PROVE  OwnArgs'
  BY <1>10 DEF OpenNamedPipeFails, ProcessEnds, ReadInfoFails, CleanProcess
<1>11. ASSUME NEW r \in Requests,
             SendError(r) \/ SendListing(r)
      PROVE  OwnArgs'
  BY <1>11, WindowsAssumption DEF SendError, Sends, SendListing, Usable
<1>12. ASSUME NEW r \in Requests, MapFile(r)  PROVE  OwnArgs'
  BY <1>12 DEF MapFile
<1>13. ASSUME NEW r \in Requests, MapFileFails(r)  PROVE  OwnArgs'
  BY <1>13 DEF MapFileFails, LogsFrom
<1>14. ASSUME NEW r \in Requests, UnmapFile(r)  PROVE  OwnArgs'
  BY <1>14 DEF UnmapFile, LogsFrom
<1>15. ASSUME NEW r \in Requests, LogCall(r)  PROVE  OwnArgs'
  BY <1>15 DEF LogCall, LogStep
<1>16. ASSUME NEW r \in Requests, CleanRequest(r)  PROVE  OwnArgs'
  BY <1>16 DEF CleanRequest
<1>17. ASSUME NEW r \in Requests, CleanRequestDies(r)  PROVE  OwnArgs'
  BY <1>17 DEF CleanRequestDies, ServerDies, Drop
<1>18. ASSUME NEW r \in Requests, SenderSends(r)  PROVE  OwnArgs'
  BY <1>18, WindowsAssumption DEF SenderSends, Sends, Usable
<1>19. ASSUME NEW r \in Requests, SenderFails(r)  PROVE  OwnArgs'
  BY <1>19 DEF SenderFails
<1>20. ASSUME NEW r \in Requests, SenderFaults(r)  PROVE  OwnArgs'
  BY <1>20 DEF SenderFaults, Dies, ServerDies, ProcessEnds, Drop
<1>21. ASSUME NEW r \in Requests, LogProcess(r)  PROVE  OwnArgs'
  BY <1>21 DEF LogProcess
<1>22. CASE UNCHANGED vars
  BY <1>22 DEF vars
<1> QED
  BY <1>1, <1>2, <1>3, <1>4, <1>5, <1>6, <1>7, <1>8, <1>9, <1>10, <1>11,
     <1>12, <1>13, <1>14, <1>15, <1>16, <1>17, <1>18, <1>19, <1>20, <1>21,
     <1>22
     DEF Next, SystemStep, RunnerStep, HandlerStep, SenderStep

\* A connection is accepted once.
LEMMA OneConnectionStep ==
  ASSUME TypeOK, HandOff, OneConnection, [Next]_vars
  PROVE  OneConnection'
<1> USE DEF TypeOK, OneConnection, Modes, Processes, Threads, Running, Ended,
            HandOff, Handing, Goes, RunnerGoes, loopVars, argsVars, pipeVars,
            connVars, handlerVars
<1>1. CASE CtrlC
  BY <1>1 DEF CtrlC, Drop
<1>2. ASSUME NEW r \in Requests, Connect(r)  PROVE  OneConnection'
  BY <1>2 DEF Connect
<1>3. CASE StartRunner \/ StartRunnerFails \/ SpawnFails \/ DuplicateSocket
          \/ ConnectNamedPipe \/ AlreadyConnected \/ ClientConnected
          \/ WriteInfo \/ DisconnectNamedPipe \/ Timeout \/ ClearFlag
          \/ ReadConfig \/ ParseConfig
  BY <1>3
     DEF StartRunner, StartRunnerFails, SpawnFails, DuplicateSocket,
         ConnectNamedPipe, AlreadyConnected, ClientConnected, WriteInfo,
         DisconnectNamedPipe, Timeout, ClearFlag, ReadConfig, ParseConfig
<1>4. ASSUME NEW r \in Requests, Accept(r) \/ AcceptFails(r)  PROVE  OneConnection'
  BY <1>4 DEF Accept, AcceptFails
<1>5. CASE Spawn
  BY <1>5 DEF Spawn
<1>6. CASE DuplicateSocketFails \/ ParseConfigFails
  BY <1>6 DEF DuplicateSocketFails, ParseConfigFails, ServerDies, Drop
<1>7. CASE WaitProcess
  BY <1>7 DEF WaitProcess
<1>8. CASE EndServer \/ SelectFails
  BY <1>8 DEF EndServer, SelectFails, WaitingGet, ArgsGone
<1>9. ASSUME NEW r \in Requests,
             BeginProcess(r) \/ OpenNamedPipe(r) \/ ReadInfo(r)
      PROVE  OneConnection'
  BY <1>9 DEF BeginProcess, OpenNamedPipe, ReadInfo
<1>10. ASSUME NEW r \in Requests,
             OpenNamedPipeFails(r) \/ ReadInfoFails(r) \/ CleanProcess(r)
      PROVE  OneConnection'
  BY <1>10 DEF OpenNamedPipeFails, ProcessEnds, ReadInfoFails, CleanProcess
<1>11. ASSUME NEW r \in Requests,
             Receive(r) \/ ReceiveFails(r)
      PROVE  OneConnection'
  BY <1>11 DEF Receive, ReceiveFails
<1>12. ASSUME NEW r \in Requests,
             SendError(r) \/ SendListing(r)
      PROVE  OneConnection'
  BY <1>12 DEF SendError, Sends, SendListing
<1>13. ASSUME NEW r \in Requests, MapFile(r)  PROVE  OneConnection'
  BY <1>13 DEF MapFile
<1>14. ASSUME NEW r \in Requests, MapFileFails(r)  PROVE  OneConnection'
  BY <1>14 DEF MapFileFails, LogsFrom
<1>15. ASSUME NEW r \in Requests, UnmapFile(r)  PROVE  OneConnection'
  BY <1>15 DEF UnmapFile, LogsFrom
<1>16. ASSUME NEW r \in Requests, LogCall(r)  PROVE  OneConnection'
  BY <1>16 DEF LogCall, LogStep
<1>17. ASSUME NEW r \in Requests, CleanRequest(r)  PROVE  OneConnection'
  BY <1>17 DEF CleanRequest
<1>18. ASSUME NEW r \in Requests, CleanRequestDies(r)  PROVE  OneConnection'
  BY <1>18 DEF CleanRequestDies, ServerDies, Drop
<1>19. ASSUME NEW r \in Requests, SenderSends(r)  PROVE  OneConnection'
  BY <1>19 DEF SenderSends, Sends
<1>20. ASSUME NEW r \in Requests, SenderFails(r)  PROVE  OneConnection'
  BY <1>20 DEF SenderFails
<1>21. ASSUME NEW r \in Requests, SenderFaults(r)  PROVE  OneConnection'
  BY <1>21 DEF SenderFaults, Dies, ServerDies, ProcessEnds, Drop
<1>22. ASSUME NEW r \in Requests, LogProcess(r)  PROVE  OneConnection'
  BY <1>22 DEF LogProcess
<1>23. CASE UNCHANGED vars
  BY <1>23 DEF vars
<1> QED
  BY <1>1, <1>2, <1>3, <1>4, <1>5, <1>6, <1>7, <1>8, <1>9, <1>10, <1>11,
     <1>12, <1>13, <1>14, <1>15, <1>16, <1>17, <1>18, <1>19, <1>20, <1>21,
     <1>22, <1>23
     DEF Next, SystemStep, RunnerStep, HandlerStep, SenderStep

\* With args of its own, a handler has its connection until it has answered.
LEMMA AnswerStep ==
  ASSUME TypeOK, HandOff, OwnArgs, OneConnection, AnswerInv, [Next]_vars
  PROVE  AnswerInv'
<1> USE DEF TypeOK, AnswerInv, Answering, Answered, Starting, Sending, Filing,
            OwnArgs, OneConnection, HandOff, Handing, Modes, Processes,
            Threads, Running, Ended, Holder, Goes, RunnerGoes, loopVars,
            argsVars, pipeVars, connVars, handlerVars
<1>1. CASE CtrlC
  BY <1>1 DEF CtrlC, Drop
<1>2. ASSUME NEW r \in Requests, Connect(r)  PROVE  AnswerInv'
  BY <1>2 DEF Connect
<1>3. CASE StartRunner \/ StartRunnerFails \/ SpawnFails \/ DuplicateSocket
          \/ ConnectNamedPipe \/ AlreadyConnected \/ ClientConnected
          \/ WriteInfo \/ DisconnectNamedPipe \/ Timeout \/ ClearFlag
          \/ ReadConfig \/ ParseConfig
  BY <1>3
     DEF StartRunner, StartRunnerFails, SpawnFails, DuplicateSocket,
         ConnectNamedPipe, AlreadyConnected, ClientConnected, WriteInfo,
         DisconnectNamedPipe, Timeout, ClearFlag, ReadConfig, ParseConfig
<1>4. ASSUME NEW r \in Requests, Accept(r) \/ AcceptFails(r)  PROVE  AnswerInv'
  BY <1>4 DEF Accept, AcceptFails
<1>5. CASE Spawn
  BY <1>5 DEF Spawn
<1>6. CASE DuplicateSocketFails \/ ParseConfigFails
  BY <1>6 DEF DuplicateSocketFails, ParseConfigFails, ServerDies, Drop
<1>7. CASE WaitProcess
  BY <1>7 DEF WaitProcess
<1>8. CASE EndServer \/ SelectFails
  BY <1>8 DEF EndServer, SelectFails, WaitingGet, ArgsGone
<1>9. ASSUME NEW r \in Requests, BeginProcess(r)  PROVE  AnswerInv'
  BY <1>9 DEF BeginProcess
<1>10. ASSUME NEW r \in Requests, OpenNamedPipe(r)  PROVE  AnswerInv'
  BY <1>10 DEF OpenNamedPipe
<1>11. ASSUME NEW r \in Requests, OpenNamedPipeFails(r)  PROVE  AnswerInv'
  BY <1>11 DEF OpenNamedPipeFails, ProcessEnds
<1>12. ASSUME NEW r \in Requests, ReadInfo(r)  PROVE  AnswerInv'
  BY <1>12 DEF ReadInfo
<1>13. ASSUME NEW r \in Requests, ReadInfoFails(r)  PROVE  AnswerInv'
  BY <1>13 DEF ReadInfoFails, ProcessEnds
<1>14. ASSUME NEW r \in Requests, Receive(r)  PROVE  AnswerInv'
  BY <1>14 DEF Receive, Sends, Usable, Fd
<1>15. ASSUME NEW r \in Requests, ReceiveFails(r)  PROVE  AnswerInv'
  <2>1. overtaken = {} /\ conn[r] = "accepted" => Fd(r) = r /\ Usable(r, r)
    BY <1>15, WindowsAssumption DEF ReceiveFails, Usable, Fd
  <2> QED
    BY <1>15, <2>1 DEF ReceiveFails
<1>16. ASSUME NEW r \in Requests, SendError(r)  PROVE  AnswerInv'
  <2> SUFFICES ASSUME overtaken = {}  PROVE  AnswerInv'
    BY <1>16 DEF SendError
  <2>1. Fd(r) \in {r, NoConn} /\ (conn[r] = "accepted" => Usable(r, Fd(r)))
    BY <1>16, WindowsAssumption DEF SendError, Usable, Fd
  <2>2. \/ sent' = [sent EXCEPT ![r] = {<<r, "error">>}]
        \/ sent' = sent /\ conn[r] # "accepted"
    <3>1. CASE Usable(r, Fd(r))
      <4>1. Fd(r) = r
        BY <2>1, <3>1 DEF Usable
      <4>2. sent' = [sent EXCEPT ![r] = @ \cup {<<r, "error">>}]
        BY <1>16, <3>1, <4>1 DEF SendError, Sends
      <4>3. sent[r] = {}
        BY <1>16 DEF SendError
      <4> QED
        BY <4>2, <4>3
    <3>2. CASE ~Usable(r, Fd(r))
      BY <1>16, <2>1, <3>2 DEF SendError, Sends
    <3> QED
      BY <3>1, <3>2
  <2>3. pc' = [pc EXCEPT ![r] = "clean"] /\ pc[r] = "error"
    BY <1>16 DEF SendError
  <2>4. UNCHANGED <<target, runner, cur, overtaken, conn, handles, kind>>
    BY <1>16 DEF SendError
  <2> QED
    BY <2>2, <2>3, <2>4
<1>17. ASSUME NEW r \in Requests, SendListing(r)  PROVE  AnswerInv'
  <2> SUFFICES ASSUME overtaken = {}  PROVE  AnswerInv'
    BY <1>17 DEF SendListing
  <2>1. Fd(r) \in {r, NoConn} /\ (conn[r] = "accepted" => Usable(r, Fd(r)))
    BY <1>17, WindowsAssumption DEF SendListing, Usable, Fd
  <2>2. \/ sent' = [sent EXCEPT ![r] = {<<r, "listing">>}]
        \/ sent' = sent /\ conn[r] # "accepted"
    <3>1. CASE Usable(r, Fd(r))
      <4>1. Fd(r) = r
        BY <2>1, <3>1 DEF Usable
      <4>2. sent' = [sent EXCEPT ![r] = @ \cup {<<r, "listing">>}]
        BY <1>17, <3>1, <4>1 DEF SendListing, Sends
      <4>3. sent[r] = {}
        BY <1>17 DEF SendListing
      <4> QED
        BY <4>2, <4>3
    <3>2. CASE ~Usable(r, Fd(r))
      BY <1>17, <2>1, <3>2 DEF SendListing, Sends
    <3> QED
      BY <3>1, <3>2
  <2>3. pc' = [pc EXCEPT ![r] = "clean"] /\ pc[r] = "list"
    BY <1>17 DEF SendListing
  <2>4. UNCHANGED <<target, runner, cur, overtaken, conn, handles, kind>>
    BY <1>17 DEF SendListing
  <2> QED
    BY <2>2, <2>3, <2>4
<1>18. ASSUME NEW r \in Requests, MapFile(r)  PROVE  AnswerInv'
  BY <1>18 DEF MapFile
<1>19. ASSUME NEW r \in Requests, MapFileFails(r)  PROVE  AnswerInv'
  BY <1>19 DEF MapFileFails, LogsFrom
<1>20. ASSUME NEW r \in Requests, UnmapFile(r)  PROVE  AnswerInv'
  BY <1>20 DEF UnmapFile, LogsFrom
<1>21. ASSUME NEW r \in Requests, LogCall(r)  PROVE  AnswerInv'
  BY <1>21 DEF LogCall, LogStep
<1>22. ASSUME NEW r \in Requests, CleanRequest(r)  PROVE  AnswerInv'
  BY <1>22 DEF CleanRequest
<1>23. ASSUME NEW r \in Requests, CleanRequestDies(r)  PROVE  AnswerInv'
  BY <1>23 DEF CleanRequestDies, ServerDies, Drop
<1>24. ASSUME NEW r \in Requests, CleanProcess(r)  PROVE  AnswerInv'
  BY <1>24 DEF CleanProcess, ProcessEnds
<1>25. ASSUME NEW r \in Requests, SenderSends(r)  PROVE  AnswerInv'
  BY <1>25 DEF SenderSends, Sends, Usable, Fd
<1>26. ASSUME NEW r \in Requests, SenderFails(r)  PROVE  AnswerInv'
  BY <1>26 DEF SenderFails
<1>27. ASSUME NEW r \in Requests, SenderFaults(r)  PROVE  AnswerInv'
  BY <1>27 DEF SenderFaults, Dies, ServerDies, ProcessEnds, Drop
<1>28. ASSUME NEW r \in Requests, LogProcess(r)  PROVE  AnswerInv'
  BY <1>28 DEF LogProcess
<1>29. CASE UNCHANGED vars
  BY <1>29 DEF vars
<1> QED
  BY <1>1, <1>2, <1>3, <1>4, <1>5, <1>6, <1>7, <1>8, <1>9, <1>10, <1>11,
     <1>12, <1>13, <1>14, <1>15, <1>16, <1>17, <1>18, <1>19, <1>20, <1>21,
     <1>22, <1>23, <1>24, <1>25, <1>26, <1>27, <1>28, <1>29
     DEF Next, SystemStep, RunnerStep, HandlerStep, SenderStep

-----------------------------------------------------------------------------
(* Records *)

KeepsPastWrite ==
  /\ overtaken \subseteq overtaken'
  /\ \A r \in Requests : pc[r] \in PastWrite => pc'[r] \in PastWrite

\* A handler that has written its record does not write again.
LEMMA PastWriteKept ==
  ASSUME TypeOK, OneConnection, [Next]_vars
  PROVE  KeepsPastWrite
<1> USE DEF KeepsPastWrite, TypeOK, OneConnection, PastWrite, Ended, Goes,
            RunnerGoes, loopVars, argsVars, pipeVars, connVars, handlerVars
<1>1. CASE CtrlC
  BY <1>1 DEF CtrlC, Drop
<1>2. ASSUME NEW r \in Requests, Connect(r)  PROVE  KeepsPastWrite
  BY <1>2 DEF Connect
<1>3. CASE StartRunner \/ StartRunnerFails \/ SpawnFails \/ DuplicateSocket
          \/ ConnectNamedPipe \/ AlreadyConnected \/ ClientConnected
          \/ WriteInfo \/ DisconnectNamedPipe \/ Timeout \/ ClearFlag
          \/ ReadConfig \/ ParseConfig
  BY <1>3
     DEF StartRunner, StartRunnerFails, SpawnFails, DuplicateSocket,
         ConnectNamedPipe, AlreadyConnected, ClientConnected, WriteInfo,
         DisconnectNamedPipe, Timeout, ClearFlag, ReadConfig, ParseConfig
<1>4. ASSUME NEW r \in Requests, Accept(r) \/ AcceptFails(r)  PROVE  KeepsPastWrite
  BY <1>4 DEF Accept, AcceptFails
<1>5. CASE Spawn
  BY <1>5 DEF Spawn
<1>6. CASE DuplicateSocketFails \/ ParseConfigFails
  BY <1>6 DEF DuplicateSocketFails, ParseConfigFails, ServerDies, Drop
<1>7. CASE WaitProcess
  BY <1>7 DEF WaitProcess
<1>8. CASE EndServer \/ SelectFails
  BY <1>8 DEF EndServer, SelectFails, WaitingGet, ArgsGone
<1>9. ASSUME NEW r \in Requests,
             BeginProcess(r) \/ OpenNamedPipe(r) \/ ReadInfo(r)
             \/ Receive(r) \/ ReceiveFails(r)
      PROVE  KeepsPastWrite
  BY <1>9 DEF BeginProcess, OpenNamedPipe, ReadInfo, Receive, ReceiveFails
<1>10. ASSUME NEW r \in Requests,
             OpenNamedPipeFails(r) \/ ReadInfoFails(r) \/ CleanProcess(r)
      PROVE  KeepsPastWrite
  BY <1>10 DEF OpenNamedPipeFails, ProcessEnds, ReadInfoFails, CleanProcess
<1>11. ASSUME NEW r \in Requests,
             SendError(r) \/ SendListing(r)
      PROVE  KeepsPastWrite
  BY <1>11 DEF SendError, Sends, SendListing
<1>12. ASSUME NEW r \in Requests, MapFile(r)  PROVE  KeepsPastWrite
  BY <1>12 DEF MapFile
<1>13. ASSUME NEW r \in Requests, MapFileFails(r)  PROVE  KeepsPastWrite
  BY <1>13 DEF MapFileFails, LogsFrom
<1>14. ASSUME NEW r \in Requests, UnmapFile(r)  PROVE  KeepsPastWrite
  BY <1>14 DEF UnmapFile, LogsFrom
<1>15. ASSUME NEW r \in Requests, LogCall(r)  PROVE  KeepsPastWrite
  BY <1>15 DEF LogCall, LogStep
<1>16. ASSUME NEW r \in Requests, CleanRequest(r)  PROVE  KeepsPastWrite
  BY <1>16 DEF CleanRequest
<1>17. ASSUME NEW r \in Requests, CleanRequestDies(r)  PROVE  KeepsPastWrite
  BY <1>17 DEF CleanRequestDies, ServerDies, Drop
<1>18. ASSUME NEW r \in Requests, SenderSends(r)  PROVE  KeepsPastWrite
  BY <1>18 DEF SenderSends, Sends
<1>19. ASSUME NEW r \in Requests, SenderFails(r)  PROVE  KeepsPastWrite
  BY <1>19 DEF SenderFails
<1>20. ASSUME NEW r \in Requests, SenderFaults(r)  PROVE  KeepsPastWrite
  BY <1>20 DEF SenderFaults, Dies, ServerDies, ProcessEnds, Drop
<1>21. ASSUME NEW r \in Requests, LogProcess(r)  PROVE  KeepsPastWrite
  BY <1>21 DEF LogProcess
<1>22. CASE UNCHANGED vars
  BY <1>22 DEF vars
<1> QED
  BY <1>1, <1>2, <1>3, <1>4, <1>5, <1>6, <1>7, <1>8, <1>9, <1>10, <1>11,
     <1>12, <1>13, <1>14, <1>15, <1>16, <1>17, <1>18, <1>19, <1>20, <1>21,
     <1>22
     DEF Next, SystemStep, RunnerStep, HandlerStep, SenderStep

\* Where the records are changes in three ways only.
LEMMA RecordMoves ==
  ASSUME [Next]_vars
  PROVE  \/ UNCHANGED <<pipe, lbuf, log>>
         \/ LoggersKilled
         \/ \E r \in Requests :
              /\ pc[r] = "write" /\ pc' = [pc EXCEPT ![r] = "event"]
              /\ WriteFileToPipe(IF kind[r] = "thread" THEN gpipe ELSE r,
                                 [by |-> r, ip |-> ClientIp(r)])
         \/ \E r \in Requests : LoggerStep(r, WriteEnds)
<1> USE DEF wlogVars, globalVars, procVars
<1>1. CASE CtrlC
  BY <1>1 DEF CtrlC
<1>2. ASSUME NEW r \in Requests, Connect(r)  PROVE  UNCHANGED wlogVars
  BY <1>2 DEF Connect
<1>3. CASE RunnerStep
  BY <1>3
     DEF RunnerStep, StartRunner, StartRunnerFails, Accept, AcceptFails, Spawn,
         SpawnFails, DuplicateSocket, DuplicateSocketFails, SelectFails,
         ParseConfigFails, ConnectNamedPipe,
         AlreadyConnected, ClientConnected, WriteInfo, DisconnectNamedPipe,
         WaitProcess, Timeout, EndServer, ClearFlag, ReadConfig, ParseConfig
<1>4. ASSUME NEW r \in Requests, HandlerStep(r), ~LogCall(r)
      PROVE  UNCHANGED <<pipe, lbuf, log>>
  BY <1>4
     DEF HandlerStep, BeginProcess, RunLogProcess, OpenNamedPipe,
         OpenNamedPipeFails, ReadInfo, ReadInfoFails, Receive, ReceiveFails,
         SendError, SendListing, MapFile, MapFileFails, UnmapFile,
         CleanRequest, CleanRequestDies, CleanProcess
<1>5. ASSUME NEW r \in Requests, LogCall(r)
      PROVE  \/ UNCHANGED <<pipe, lbuf, log>>
             \/ /\ pc[r] = "write" /\ pc' = [pc EXCEPT ![r] = "event"]
                /\ WriteFileToPipe(IF kind[r] = "thread" THEN gpipe ELSE r,
                                   [by |-> r, ip |-> ClientIp(r)])
  BY <1>5 DEF LogCall, LogStep, Goes, CreatePipe, RedirectStd, StartLogger,
              RestoreStd, SignalEvent
<1>6. ASSUME NEW r \in Requests, SenderStep(r)  PROVE  UNCHANGED wlogVars
  BY <1>6 DEF SenderStep, SenderSends, SenderFails, SenderFaults
<1>7. ASSUME NEW r \in Requests, LogProcess(r)
      PROVE  LoggerStep(r, WriteEnds)
  BY <1>7 DEF LogProcess
<1>8. CASE UNCHANGED vars
  BY <1>8 DEF vars
<1> QED
  BY <1>1, <1>2, <1>3, <1>4, <1>5, <1>6, <1>7, <1>8 DEF Next, SystemStep

\* Whichever it is, each record stays in one place.
LEMMA RecordStep ==
  ASSUME TypeOK, TypeOK', HandOff, OwnArgs, OneConnection, RecordInv,
         [Next]_vars
  PROVE  RecordInv'
<1>1. /\ pipe \in [Requests -> Seq(Records)]
      /\ pipe' \in [Requests -> Seq(Records)]
      /\ lbuf \in [Requests -> Seq(Records)]
      /\ lbuf' \in [Requests -> Seq(Records)]
      /\ log \in Seq(Records) /\ log' \in Seq(Records)
  BY DEF TypeOK, WLogTypeOK
<1>2. \A record \in Records : True(record) => True(record)'
  BY PastWriteKept DEF KeepsPastWrite, True, Records
<1>3. CASE UNCHANGED <<pipe, lbuf, log>>
  BY <1>1, <1>2, <1>3 DEF RecordInv
<1>4. CASE LoggersKilled
  <2>1. UNCHANGED <<pipe, log>> /\ lbuf' = [r \in Requests |-> <<>>]
    BY <1>4 DEF LoggersKilled
  <2> QED
    BY <1>1, <1>2, <2>1 DEF RecordInv
<1>5. ASSUME NEW r \in Requests, NEW p \in Requests \cup {NoPipe},
             NEW x \in Records, x.by = r, x.ip = r \/ r \in overtaken,
             pc[r] = "write", pc' = [pc EXCEPT ![r] = "event"],
             WriteFileToPipe(p, x)
      PROVE  RecordInv'
  <2>1. True(x)'
    <3>1. pc'[r] = "event" /\ overtaken \subseteq overtaken'
      BY <1>5, PastWriteKept DEF KeepsPastWrite, TypeOK
    <3> QED
      BY <1>5, <3>1 DEF True, PastWrite
  <2>2. /\ UNCHANGED <<lbuf, log>>
        /\ p # NoPipe => pipe[p] = <<>>
        /\ pipe' = IF p = NoPipe THEN pipe ELSE [pipe EXCEPT ![p] = <<x>>]
    BY <1>5 DEF WriteFileToPipe, procVars
  <2>3. \A y \in Records : True(y) => y.by # r
    BY <1>5 DEF True, PastWrite, Ended
  <2>4. CASE p = NoPipe
    BY <1>3, <2>2, <2>4
  <2>5. CASE p # NoPipe
    <3>1. \A q \in Requests : pipe'[q] = IF q = p THEN <<x>> ELSE pipe[q]
      BY <1>1, <2>2, <2>5
    <3>2. \A q \in Requests : pipe[q] # <<>> => pipe[q][1].by # r
      BY <1>1, <2>3 DEF RecordInv
    <3>3. \A q \in Requests : lbuf[q] # <<>> => lbuf[q][1].by # r
      BY <1>1, <2>3 DEF RecordInv
    <3>4. \A i \in 1..Len(log) : log[i].by # r
      BY <1>1, <2>3 DEF RecordInv
    <3>5. ASSUME NEW q \in Requests
          PROVE  (pipe[q] # <<>> => Len(pipe[q]) = 1 /\ True(pipe[q][1]))'
      <4>1. CASE q = p
        <5>1. pipe'[q] = <<x>>
          BY <3>1, <4>1
        <5>2. pipe'[q][1] = x /\ Len(pipe'[q]) = 1
          BY <5>1
        <5> QED
          BY <1>5, <2>1, <5>2 DEF True
      <4>2. CASE q # p
        <5>1. pipe'[q] = pipe[q]
          BY <3>1, <4>2
        <5>2. ASSUME pipe[q] # <<>>
              PROVE  /\ Len(pipe[q]) = 1
                     /\ pipe[q][1] \in Records
                     /\ True(pipe[q][1])
          BY <1>1, <5>2 DEF RecordInv
        <5> QED
          BY <1>2, <5>1, <5>2 DEF True
      <4> QED
        BY <4>1, <4>2
    <3> QED
      BY <1>1, <1>2, <1>5, <2>2, <3>1, <3>2, <3>3, <3>4, <3>5 DEF RecordInv
  <2> QED
    BY <2>4, <2>5
<1>6. ASSUME NEW r \in Requests, LoggerStep(r, WriteEnds)
      PROVE  RecordInv'
  <2>1. CASE LoggerCreatesEvent(r) \/ LoggerWakes(r)
    BY <1>3, <2>1 DEF LoggerCreatesEvent, LoggerWakes
  <2>2. CASE LoggerReads(r)
    <3>1. /\ lin[r] \in Requests /\ pipe[lin[r]] # <<>>
          /\ pipe' = [pipe EXCEPT ![lin[r]] = <<>>]
          /\ lbuf' = [lbuf EXCEPT ![r] = pipe[lin[r]]]
          /\ log' = log
      BY <2>2 DEF LoggerReads
    <3> DEFINE p == lin[r]
    <3>2. \A q \in Requests :
            /\ pipe'[q] = IF q = p THEN <<>> ELSE pipe[q]
            /\ lbuf'[q] = IF q = r THEN pipe[p] ELSE lbuf[q]
      BY <1>1, <3>1
    <3> HIDE DEF p
    <3> QED
      BY <1>1, <1>2, <3>1, <3>2 DEF RecordInv
  <2>3. CASE LoggerReadFails(r, WriteEnds)
    <3>1. UNCHANGED <<pipe, log>> /\ lbuf' = [lbuf EXCEPT ![r] = <<>>]
      BY <2>3 DEF LoggerReadFails, LoggerEnds
    <3> QED
      BY <1>1, <1>2, <3>1 DEF RecordInv
  <2>4. CASE LoggerWrites(r)
    <3>1. /\ pipe' = pipe /\ lbuf' = [lbuf EXCEPT ![r] = <<>>]
          /\ log' = log \o lbuf[r]
      BY <2>4 DEF LoggerWrites, LoggerEnds
    <3>2. CASE lbuf[r] = <<>>
      <4>1. log' = log /\ lbuf' = lbuf
        BY <1>1, <3>1, <3>2
      <4> QED
        BY <1>3, <3>1, <4>1
    <3>3. CASE lbuf[r] # <<>>
      <4>1. Len(lbuf[r]) = 1 /\ True(lbuf[r][1])
        BY <3>3 DEF RecordInv
      <4>2. /\ Len(log') = Len(log) + 1
            /\ \A i \in 1..Len(log) : log'[i] = log[i]
            /\ log'[Len(log) + 1] = lbuf[r][1]
        <5>1. lbuf[r] \in Seq(Records)
          BY <1>1
        <5>2. Len(log') = Len(log) + Len(lbuf[r])
          BY <1>1, <3>1, <5>1
        <5>3. \A i \in 1..Len(log) : log'[i] = log[i]
          BY <1>1, <3>1, <5>1
        <5>4. Len(log) \in Nat /\ Len(log) + 1 \in 1..Len(log')
          BY <1>1, <4>1, <5>1, <5>2
        <5>5. log'[Len(log) + 1] = lbuf[r][(Len(log) + 1) - Len(log)]
          BY <1>1, <3>1, <4>1, <5>1, <5>2, <5>4
        <5> QED
          BY <4>1, <5>2, <5>3, <5>4, <5>5
      <4> QED
        BY <1>1, <1>2, <3>1, <4>1, <4>2 DEF RecordInv
    <3> QED
      BY <3>2, <3>3
  <2> QED
    BY <1>6, <2>1, <2>2, <2>3, <2>4 DEF LoggerStep
<1>7. ASSUME NEW r \in Requests, pc[r] = "write"
      PROVE  /\ (IF kind[r] = "thread" THEN gpipe ELSE r)
                   \in Requests \cup {NoPipe}
             /\ [by |-> r, ip |-> ClientIp(r)] \in Records
             /\ ClientIp(r) = r \/ r \in overtaken
  BY <1>7 DEF TypeOK, WLogTypeOK, Records, HandOff, OwnArgs, ClientIp,
              Threads, Running, Ended
<1>8. ASSUME NEW r \in Requests,
             pc[r] = "write", pc' = [pc EXCEPT ![r] = "event"],
             WriteFileToPipe(IF kind[r] = "thread" THEN gpipe ELSE r,
                             [by |-> r, ip |-> ClientIp(r)])
      PROVE  RecordInv'
  BY <1>5, <1>7, <1>8
<1> QED
  BY <1>3, <1>4, <1>6, <1>8, RecordMoves

-----------------------------------------------------------------------------
(* The theorems *)

LEMMA InitInv == Init => Inv
<1> SUFFICES ASSUME Init  PROVE  Inv
  OBVIOUS
<1>1. WLogTypeOK
  BY DEF Init, WLogInit, WLogTypeOK, Handles
<1>2. target \in [Requests -> AllTargets] /\ events \in Nat /\ failures \in Nat
  BY WindowsAssumption DEF Init
<1>3. TypeOK
  BY <1>1, <1>2 DEF Init, TypeOK, HandlerPC, Modes
<1>4. HandOff
  BY DEF Init, HandOff, OneRequestProcess, Handing, Processes
<1>5. OwnArgs
  BY DEF Init, OwnArgs, Threads
<1>6. OneConnection
  BY DEF Init, OneConnection
<1>7. AnswerInv
  BY DEF Init, AnswerInv, Answering, Starting, Sending, Filing
<1>8. RecordInv
  <2>1. log = <<>> /\ \A p \in Requests : pipe[p] = <<>> /\ lbuf[p] = <<>>
    BY DEF Init, WLogInit
  <2>2. Len(log) = 0
    BY <2>1
  <2> QED
    BY <2>1, <2>2 DEF RecordInv
<1> QED
  BY <1>3, <1>4, <1>5, <1>6, <1>7, <1>8 DEF Inv

\* The invariant that carries every result below.
THEOREM Invariance == Spec => []Inv
<1>1. Inv /\ [Next]_vars => Inv'
  BY TypeStep, HandOffStep, OwnArgsStep, OneConnectionStep, AnswerStep,
     RecordStep DEF Inv
<1> QED
  BY InitInv, <1>1, PTL DEF Spec

\* Every variable keeps its type.
THEOREM TypeCorrect == Spec => []TypeOK
<1>1. Inv => TypeOK
  BY DEF Inv
<1> QED
  BY <1>1, Invariance, PTL

\* However many clients connect, the runner serves one of them at a time with
\* a process, and keeps the connection it hands over.
THEOREM ProcessesAreSerial == Spec => []OneRequestProcess
<1>1. Inv => OneRequestProcess
  BY DEF Inv, HandOff
<1> QED
  BY <1>1, Invariance, PTL

\* An answer goes astray, or is missing, only where a thread was overtaken.
THEOREM AnswersArrive == Spec => []AnswersReachTheirClients
<1>1. Inv => AnswersReachTheirClients
  BY DEF Inv, OwnArgs, AnswerInv, Answering, Answered,
         AnswersReachTheirClients
<1> QED
  BY <1>1, Invariance, PTL

\* The log has no record twice, and a wrong address only from a thread that
\* was overtaken.
THEOREM LogIsTrue == Spec => []RecordsAreTrue
<1>1. Inv => RecordsAreTrue
  <2> SUFFICES ASSUME Inv  PROVE  RecordsAreTrue
    OBVIOUS
  <2>1. \A i \in 1..Len(log) : True(log[i])
    BY DEF Inv, RecordInv
  <2>2. \A i, j \in 1..Len(log) : log[i].by = log[j].by => i = j
    BY DEF Inv, RecordInv
  <2> QED
    BY <2>1, <2>2 DEF True, RecordsAreTrue
<1> QED
  BY <1>1, Invariance, PTL

==============================================================================
