---------------------------- MODULE Server_proofs ----------------------------
(***************************************************************************)
(* Proofs about Server, for any set of requests, any kinds of targets, any *)
(* number of descriptors and of reloads; the last section is about a table *)
(* that is large enough for all the requests at once.                      *)
(***************************************************************************)
EXTENDS Server, FiniteSetTheorems, TLAPS

(***************************************************************************)
(* The inductive invariant.                                                *)
(***************************************************************************)

\* A handler whose number cfd is its connection.  Between accept() and the
\* start of the handler the number belongs to the server in either mode.
OwnsConn(r) ==
  \/ pc[r] = "accepted"
  \/ /\ Thread(r)
     /\ pc[r] \in {"read", "stat", "code", "pipe", "type", "serve", "line",
                   "closedir", "open", "lock", "map", "send", "join",
                   "unlock", "closefile", "closeclient"}
  \/ Thread(r) /\ pc[r] = "clean" /\ type[r] = 1

\* A thread whose number ffd is its file or directory.
OwnsFile(r) ==
  /\ Thread(r)
  /\ \/ pc[r] \in {"code", "pipe", "type"} /\ type[r] = 1
     \/ pc[r] \in {"line", "closedir", "lock", "map", "send", "join",
                   "unlock", "closefile"}

\* No number is closed under its owner, or given to another.
Descriptors ==
  \A r \in Requests :
    /\ OwnsConn(r) => cfd[r] \in Fd /\ fdt[cfd[r]] = Conn(r)
    /\ OwnsFile(r) => ffd[r] \in Fd /\ fdt[ffd[r]] = File(r)
    /\ Thread(r) /\ pc[r] \in {"pipe", "type"}
         => rfd[r] \in Fd /\ fdt[rfd[r]] = Pipe(r)
    /\ Thread(r) /\ pc[r] = "pipe"
         => wfd[r] \in Fd \ {rfd[r]} /\ fdt[wfd[r]] = Pipe(r)

\* type_Request is only set on the paths that leave the connection to
\* clean_request, and a listing has a line to send for each type it asks for.
TypeRequest ==
  \A r \in Requests :
    /\ pc[r] \in {"none", "accepted", "read", "stat", "serve", "open",
                  "lock", "map", "send", "join", "unlock", "closefile",
                  "closeclient", "log"}
         => type[r] = 0
    /\ pc[r] \in {"line", "closedir"} => type[r] = 1
    /\ pc[r] \in {"code", "pipe", "type", "line"} /\ type[r] = 1
         => target[r] = "directory" /\ lines[r] # 0
    /\ pc[r] = "closedir" => target[r] = "directory"

\* Whoever is between taking and releasing the lock of its mode owns it, or
\* could not take it.
Locks ==
  \A r \in Requests :
    pc[r] \in {"map", "send", "join", "unlock"} =>
      IF Thread(r) THEN pmutex = r
                   ELSE r \in unlocked \/ flock[target[r]] = r

\* What the client has had when its file is logged.
Served(r) ==
  IF target[r] = "empty"
    THEN reply[r] = "nothing"
    ELSE /\ conn[r] = "closed"
         /\ reply[r] = "file" \/ target[r] = "huge" \/ r \in left

\* How far the answer is at each point of the way to the log.
Progress ==
  \A r \in Requests :
    /\ pc[r] \in {"none", "accepted", "read", "stat", "serve", "open", "lock",
                  "map", "send"} => reply[r] = "nothing"
    /\ pc[r] \in {"code", "pipe", "type", "line", "closedir"}
         => \/ reply[r] = "nothing"
            \/ reply[r] = "part" /\ type[r] = 1
    /\ pc[r] \in {"send", "join", "unlock", "closefile", "closeclient"}
         => target[r] # "empty"
    /\ pc[r] \in {"join", "unlock", "closefile", "closeclient"}
         => reply[r] = "file" \/ target[r] = "huge" \/ r \in left
    /\ pc[r] = "log" => Served(r)
    /\ target[r] = "huge" => reply[r] # "file"

\* Whoever has handed a record over is past the log.
Logged ==
  \A i \in 1..Len(accepted) :
    pc[accepted[i]] \in {"clean", "done", "killed"} /\ Served(accepted[i])

\* Whoever has sent a whole file is on the way to the log, or past it.
SentFiles ==
  \A r \in Requests :
    reply[r] = "file" =>
      \/ pc[r] \in {"join", "unlock", "closefile", "closeclient", "log",
                    "killed"}
      \/ \E i \in 1..Len(accepted) : accepted[i] = r

\* What of the types the steps need.
Domains ==
  /\ target \in [Requests -> Targets]
  /\ type \in [Requests -> {0, 1}]
  /\ DOMAIN conn = Requests /\ DOMAIN reply = Requests
  /\ DOMAIN pc = Requests /\ DOMAIN hmode = Requests
  /\ DOMAIN cfd = Requests /\ DOMAIN ffd = Requests
  /\ DOMAIN rfd = Requests /\ DOMAIN wfd = Requests
  /\ DOMAIN lines = Requests
  /\ DOMAIN flock = Targets /\ DOMAIN fdt = Fd

Inv == /\ TypeOK
       /\ Descriptors
       /\ TypeRequest
       /\ Locks
       /\ Progress
       /\ Logged
       /\ SentFiles

-----------------------------------------------------------------------------
(* Each part of the invariant is preserved by every step. *)

\* What a number refers to tells whose it is.
LEMMA Distinct ==
  /\ Unused # Listener
  /\ \A r \in Requests : /\ Conn(r) # Unused /\ File(r) # Unused
                         /\ Conn(r) # Listener /\ File(r) # Listener
                         /\ Pipe(r) # Unused /\ Pipe(r) # Listener
  /\ \A r, s \in Requests : /\ Conn(r) = Conn(s) => r = s
                            /\ File(r) = File(s) => r = s
                            /\ Pipe(r) = Pipe(s) => r = s
                            /\ Conn(r) # File(s)
                            /\ Conn(r) # Pipe(s)
                            /\ File(r) # Pipe(s)
  BY DEF Unused, Listener, Conn, File, Pipe

LEMMA ObjectsType ==
  /\ Unused \in Objects
  /\ Listener \in Objects
  /\ \A r \in Requests : /\ Conn(r) \in Objects
                         /\ File(r) \in Objects
                         /\ Pipe(r) \in Objects
  /\ Conn(NoOne) \in Objects
  BY DEF Unused, Listener, Conn, File, Pipe, Objects

\* open() and close() keep the types of the table and of the connections.
LEMMA OpenFdType ==
  ASSUME TypeOK, NEW r \in Requests, OpenFd(r)
  PROVE  fdt' \in [Fd -> Objects] /\ ffd' \in [Requests -> 0..MaxFd]
<1>1. CASE Thread(r)
  <2>1. PICK n \in Fd : /\ fdt' = [fdt EXCEPT ![n] = File(r)]
                        /\ ffd' = [ffd EXCEPT ![r] = n]
    BY <1>1 DEF OpenFd
  <2>2. n \in 0..MaxFd
    BY DEF Fd
  <2> QED
    BY <2>1, <2>2, ObjectsType DEF TypeOK
<1>2. CASE ~Thread(r)
  BY <1>2 DEF OpenFd, TypeOK
<1> QED
  BY <1>1, <1>2

LEMMA OpenPipeType ==
  ASSUME TypeOK, NEW r \in Requests, OpenPipe(r)
  PROVE  /\ fdt' \in [Fd -> Objects]
         /\ rfd' \in [Requests -> 0..MaxFd]
         /\ wfd' \in [Requests -> 0..MaxFd]
<1>1. CASE Thread(r)
  <2>1. PICK a, b \in Free :
          /\ fdt' = [fdt EXCEPT ![a] = Pipe(r), ![b] = Pipe(r)]
          /\ rfd' = [rfd EXCEPT ![r] = a]
          /\ wfd' = [wfd EXCEPT ![r] = b]
    BY <1>1 DEF OpenPipe
  <2>2. a \in 0..MaxFd /\ b \in 0..MaxFd
    BY DEF Fd, Free
  <2> QED
    BY <2>1, <2>2, ObjectsType DEF TypeOK
<1>2. CASE ~Thread(r)
  BY <1>2 DEF OpenPipe, TypeOK
<1> QED
  BY <1>1, <1>2

LEMMA CloseClientType ==
  ASSUME TypeOK, NEW r \in Requests, CloseClient(r)
  PROVE  /\ fdt' \in [Fd -> Objects]
         /\ conn' \in [Requests ->
                       {"none", "queued", "open", "closed", "reset"}]
<1>1. CASE Thread(r)
  <2>1. fdt' \in [Fd -> Objects]
    BY <1>1, ObjectsType DEF CloseClient, TypeOK
  <2>2. conn' = [q \in Requests |-> IF fdt[cfd[r]] = Conn(q)
                                     THEN "closed" ELSE conn[q]]
    BY <1>1 DEF CloseClient
  <2> QED
    BY <2>1, <2>2 DEF TypeOK
<1>2. CASE ~Thread(r)
  BY <1>2 DEF CloseClient, TypeOK
<1> QED
  BY <1>1, <1>2

\* Every variable keeps its type.
LEMMA TypeStep ==
  ASSUME TypeOK, TypeRequest, [Next]_vars
  PROVE  TypeOK'
<1> USE ServerAssumption, ObjectsType DEF Fd
<1>1. CASE Reopen
  BY <1>1, SMTT(30)
     DEF Reopen, LowestFree, Free, TypeOK, HandlerPC, Modes, clients,
         logVars, loopVars, lockVars, pipeVars
<1>2. CASE ReopenFails
  <2>1. /\ pc' \in [Requests -> HandlerPC]
        /\ main' = "dead"
    BY <1>2
       DEF ReopenFails, ServerEnds, HandlerPC, TypeOK
  <2>2. conn' \in [Requests -> {"none", "queued", "open", "closed", "reset"}]
    BY <1>2
       DEF ReopenFails, ServerEnds, TypeOK
  <2> QED
    BY <1>2, <2>1, <2>2
       DEF ReopenFails, TypeOK, clients, logVars, loopVars, lockVars,
           pipeVars
<1>3. CASE BeginReload
  BY <1>3, SMTT(30)
     DEF BeginReload, TypeOK, HandlerPC, Modes, clients, logVars,
         loopVars, lockVars, pipeVars
<1>4. CASE LoggerWrites
  <2>1. recorded' \in Seq(Requests) /\ accepted' = accepted
    BY <1>4
       DEF LoggerWrites, AL!Record, TypeOK
  <2> QED
    BY <1>4, <2>1
       DEF LoggerWrites, TypeOK, clients, logVars, loopVars, lockVars,
           pipeVars
<1>5. ASSUME NEW r \in Requests, Connect(r)  PROVE  TypeOK'
  BY <1>5, SMTT(30)
     DEF Connect, TypeOK, HandlerPC, Modes, clients, logVars, loopVars,
         lockVars, pipeVars
<1>6. ASSUME NEW r \in Requests, ClientLeaves(r)  PROVE  TypeOK'
  BY <1>6, SMTT(30)
     DEF ClientLeaves, TypeOK, HandlerPC, Modes, clients, logVars,
         loopVars, lockVars, pipeVars
<1>7. ASSUME NEW r \in Requests, Accept(r)  PROVE  TypeOK'
  BY <1>7, SMTT(30)
     DEF Accept, Goes, LowestFree, Free, TypeOK, HandlerPC, Modes,
         clients, logVars, loopVars, lockVars, pipeVars
<1>8. ASSUME NEW r \in Requests, Spawn(r)  PROVE  TypeOK'
  <2>1. fdt' \in [Fd -> Objects]
    BY <1>8
       DEF Spawn, Thread, TypeOK
  <2>2. pc' \in [Requests -> HandlerPC]
    BY <1>8
       DEF Spawn, Goes, HandlerPC, TypeOK
  <2> QED
    BY <1>8, <2>1, <2>2
       DEF Spawn, TypeOK, clients, logVars, loopVars, lockVars, pipeVars
<1>9. ASSUME NEW r \in Requests, SpawnFails(r)  PROVE  TypeOK'
  <2>1. pc' \in [Requests -> HandlerPC]
    BY <1>9
       DEF SpawnFails, Goes, HandlerPC, TypeOK
  <2> QED
    BY <1>9, <2>1
       DEF SpawnFails, TypeOK, clients, logVars, loopVars, lockVars,
           pipeVars
<1>10. ASSUME NEW r \in Requests, ReadRequest(r)  PROVE  TypeOK'
  BY <1>10, SMTT(30)
     DEF ReadRequest, SendFails, TypeOK, HandlerPC, Modes, clients,
         logVars, loopVars, lockVars, pipeVars
<1>11. ASSUME NEW r \in Requests, ReadNothing(r)  PROVE  TypeOK'
  <2>1. pc' \in [Requests -> HandlerPC]
    BY <1>11
       DEF ReadNothing, Goes, HandlerPC, TypeOK
  <2> QED
    BY <1>11, <2>1
       DEF ReadNothing, TypeOK, clients, logVars, loopVars, lockVars,
           pipeVars
<1>12. ASSUME NEW r \in Requests, FileFound(r)  PROVE  TypeOK'
  <2>1. pc' \in [Requests -> HandlerPC]
    BY <1>12
       DEF FileFound, Goes, HandlerPC, TypeOK
  <2> QED
    BY <1>12, <2>1
       DEF FileFound, TypeOK, clients, logVars, loopVars, lockVars,
           pipeVars
<1>13. ASSUME NEW r \in Requests, FileMissing(r)  PROVE  TypeOK'
  <2>1. reply' \in [Requests ->
                    {"nothing", "error", "listing", "part", "file"}]
    BY <1>13
       DEF FileMissing, SendFails, TypeOK
  <2>2. type' \in [Requests -> {0, 1}]
    BY <1>13
       DEF FileMissing, Goes, TypeOK
  <2>3. pc' \in [Requests -> HandlerPC]
    BY <1>13
       DEF FileMissing, Goes, HandlerPC, TypeOK
  <2> QED
    BY <1>13, <2>1, <2>2, <2>3
       DEF FileMissing, TypeOK, clients, logVars, loopVars, lockVars,
           pipeVars
<1>14. ASSUME NEW r \in Requests, OpenCommand(r)  PROVE  TypeOK'
  <2>1. /\ fdt' \in [Fd -> Objects]
        /\ rfd' \in [Requests -> 0..MaxFd]
        /\ wfd' \in [Requests -> 0..MaxFd]
    BY <1>14, OpenPipeType
       DEF OpenCommand, Goes, TypeOK
  <2>2. pc' \in [Requests -> HandlerPC]
    BY <1>14
       DEF OpenCommand, Goes, HandlerPC, TypeOK
  <2> QED
    BY <1>14, <2>1, <2>2
       DEF OpenCommand, TypeOK, clients, logVars, loopVars, lockVars,
           pipeVars
<1>15. ASSUME NEW r \in Requests, OpenCommandFails(r)  PROVE  TypeOK'
  <2>1. pc' \in [Requests -> HandlerPC]
    BY <1>15
       DEF OpenCommandFails, Goes, HandlerPC, TypeOK
  <2> QED
    BY <1>15, <2>1
       DEF OpenCommandFails, TypeOK, clients, logVars, loopVars, lockVars,
           pipeVars
<1>16. ASSUME NEW r \in Requests, StartCommand(r)  PROVE  TypeOK'
  <2>1. fdt' \in [Fd -> Objects]
    BY <1>16
       DEF StartCommand, Thread, TypeOK
  <2>2. wfd' \in [Requests -> 0..MaxFd]
    BY <1>16
       DEF StartCommand, Thread, TypeOK
  <2>3. pc' \in [Requests -> HandlerPC]
    BY <1>16
       DEF StartCommand, Goes, HandlerPC, TypeOK
  <2> QED
    BY <1>16, <2>1, <2>2, <2>3
       DEF StartCommand, TypeOK, clients, logVars, loopVars, lockVars,
           pipeVars
<1>17. ASSUME NEW r \in Requests, GetCode(r)  PROVE  TypeOK'
  <2>1. fdt' \in [Fd -> Objects]
    BY <1>17
       DEF GetCode, Thread, TypeOK
  <2>2. rfd' \in [Requests -> 0..MaxFd]
    BY <1>17
       DEF GetCode, Thread, TypeOK
  <2>3. pc' \in [Requests -> HandlerPC]
    BY <1>17
       DEF GetCode, Goes, HandlerPC, TypeOK
  <2> QED
    BY <1>17, <2>1, <2>2, <2>3
       DEF GetCode, TypeOK, clients, logVars, loopVars, lockVars, pipeVars
<1>18. ASSUME NEW r \in Requests, ServeNothing(r)  PROVE  TypeOK'
  <2>1. pc' \in [Requests -> HandlerPC]
    BY <1>18
       DEF ServeNothing, Goes, HandlerPC, TypeOK
  <2> QED
    BY <1>18, <2>1
       DEF ServeNothing, TypeOK, clients, logVars, loopVars, lockVars,
           pipeVars
<1>19. ASSUME NEW r \in Requests, OpenDirectory(r)  PROVE  TypeOK'
  <2>1. fdt' \in [Fd -> Objects] /\ ffd' \in [Requests -> 0..MaxFd]
    BY <1>19, OpenFdType
       DEF OpenDirectory, Goes, TypeOK
  <2>2. lines' \in [Requests -> 0..Entries]
    BY <1>19
       DEF OpenDirectory, Goes, TypeOK
  <2>3. pc' \in [Requests -> HandlerPC]
    BY <1>19
       DEF OpenDirectory, Goes, HandlerPC, AfterEntries, TypeOK
  <2> QED
    BY <1>19, <2>1, <2>2, <2>3
       DEF OpenDirectory, TypeOK, clients, logVars, loopVars, lockVars,
           pipeVars
<1>20. ASSUME NEW r \in Requests, OpenDirectoryFails(r)  PROVE  TypeOK'
  <2>1. type' \in [Requests -> {0, 1}]
    BY <1>20
       DEF OpenDirectoryFails, Goes, TypeOK
  <2>2. pc' \in [Requests -> HandlerPC]
    BY <1>20
       DEF OpenDirectoryFails, Goes, HandlerPC, TypeOK
  <2> QED
    BY <1>20, <2>1, <2>2
       DEF OpenDirectoryFails, TypeOK, clients, logVars, loopVars,
           lockVars, pipeVars
<1>21. ASSUME NEW r \in Requests, SendLine(r)  PROVE  TypeOK'
  <2>1. lines' \in [Requests -> 0..Entries]
    BY <1>21
       DEF SendLine, Goes, TypeRequest, TypeOK
  <2>2. pc' \in [Requests -> HandlerPC]
    BY <1>21
       DEF SendLine, Goes, HandlerPC, AfterEntries, TypeOK
  <2> QED
    BY <1>21, <2>1, <2>2
       DEF SendLine, TypeOK, clients, logVars, loopVars, lockVars,
           pipeVars
<1>22. ASSUME NEW r \in Requests, SendLineFails(r)  PROVE  TypeOK'
  <2>1. pc' \in [Requests -> HandlerPC]
    BY <1>22
       DEF SendLineFails, Goes, HandlerPC, TypeOK
  <2> QED
    BY <1>22, <2>1
       DEF SendLineFails, TypeOK, clients, logVars, loopVars, lockVars,
           pipeVars
<1>23. ASSUME NEW r \in Requests, CloseDirectory(r)  PROVE  TypeOK'
  <2>1. fdt' \in [Fd -> Objects]
    BY <1>23
       DEF CloseDirectory, CloseFd, TypeOK
  <2>2. pc' \in [Requests -> HandlerPC]
    BY <1>23
       DEF CloseDirectory, Goes, HandlerPC, TypeOK
  <2> QED
    BY <1>23, <2>1, <2>2
       DEF CloseDirectory, CloseFd, TypeOK, clients, logVars, loopVars,
           lockVars, pipeVars
<1>24. ASSUME NEW r \in Requests, ServeFile(r)  PROVE  TypeOK'
  <2>1. type' \in [Requests -> {0, 1}]
    BY <1>24
       DEF ServeFile, Goes, TypeOK
  <2>2. pc' \in [Requests -> HandlerPC]
    BY <1>24
       DEF ServeFile, Goes, HandlerPC, TypeOK
  <2> QED
    BY <1>24, <2>1, <2>2
       DEF ServeFile, TypeOK, clients, logVars, loopVars, lockVars,
           pipeVars
<1>25. ASSUME NEW r \in Requests, OpenFile(r)  PROVE  TypeOK'
  <2>1. fdt' \in [Fd -> Objects] /\ ffd' \in [Requests -> 0..MaxFd]
    BY <1>25, OpenFdType
       DEF OpenFile, Goes, TypeOK
  <2>2. pc' \in [Requests -> HandlerPC]
    BY <1>25
       DEF OpenFile, Goes, HandlerPC, TypeOK
  <2> QED
    BY <1>25, <2>1, <2>2
       DEF OpenFile, TypeOK, clients, logVars, loopVars, lockVars,
           pipeVars
<1>26. ASSUME NEW r \in Requests, OpenFileFails(r)  PROVE  TypeOK'
  <2>1. pc' \in [Requests -> HandlerPC]
    BY <1>26
       DEF OpenFileFails, Goes, HandlerPC, TypeOK
  <2> QED
    BY <1>26, <2>1
       DEF OpenFileFails, TypeOK, clients, logVars, loopVars, lockVars,
           pipeVars
<1>27. ASSUME NEW r \in Requests, LockFile(r)  PROVE  TypeOK'
  <2>1. flock' \in [Targets -> Requests \cup {NoOne}]
    <3>1. \/ flock' = flock
          \/ flock' = [flock EXCEPT ![target[r]] = r]
      BY <1>27 DEF LockFile
    <3>2. flock \in [Targets -> Requests \cup {NoOne}]
      BY DEF TypeOK
    <3> QED
      BY <3>1, <3>2
  <2>2. pmutex' \in Requests \cup {NoOne}
    BY <1>27
       DEF LockFile, Thread, TypeOK
  <2>3. pc' \in [Requests -> HandlerPC]
    BY <1>27
       DEF LockFile, Goes, HandlerPC, TypeOK
  <2> QED
    BY <1>27, <2>1, <2>2, <2>3
       DEF LockFile, TypeOK, clients, logVars, loopVars, lockVars,
           pipeVars
<1>28. ASSUME NEW r \in Requests, LockFileFails(r)  PROVE  TypeOK'
  <2>1. pc' \in [Requests -> HandlerPC]
    BY <1>28
       DEF LockFileFails, Goes, HandlerPC, TypeOK
  <2> QED
    BY <1>28, <2>1
       DEF LockFileFails, TypeOK, clients, logVars, loopVars, lockVars,
           pipeVars
<1>29. ASSUME NEW r \in Requests, MapEmptyFile(r)  PROVE  TypeOK'
  <2>1. pc' \in [Requests -> HandlerPC]
    BY <1>29
       DEF MapEmptyFile, Goes, HandlerPC, TypeOK
  <2> QED
    BY <1>29, <2>1
       DEF MapEmptyFile, TypeOK, clients, logVars, loopVars, lockVars,
           pipeVars
<1>30. ASSUME NEW r \in Requests, MapFails(r)  PROVE  TypeOK'
  <2>1. fdt' \in [Fd -> Objects]
    BY <1>30
       DEF MapFails, CloseFd, TypeOK
  <2>2. flock' \in [Targets -> Requests \cup {NoOne}]
    BY <1>30
       DEF MapFails, ReleaseLockf, TypeOK
  <2>3. pc' \in [Requests -> HandlerPC]
    BY <1>30
       DEF MapFails, Goes, HandlerPC, TypeOK
  <2> QED
    BY <1>30, <2>1, <2>2, <2>3
       DEF MapFails, CloseFd, TypeOK, clients, logVars, loopVars,
           lockVars, pipeVars
<1>31. ASSUME NEW r \in Requests, MapFile(r)  PROVE  TypeOK'
  <2>1. pc' \in [Requests -> HandlerPC]
    BY <1>31
       DEF MapFile, Goes, HandlerPC, TypeOK
  <2> QED
    BY <1>31, <2>1
       DEF MapFile, TypeOK, clients, logVars, loopVars, lockVars, pipeVars
<1>32. ASSUME NEW r \in Requests, SendFile(r)  PROVE  TypeOK'
  <2>1. reply' \in [Requests ->
                    {"nothing", "error", "listing", "part", "file"}]
    BY <1>32
       DEF SendFile, SendMapped, SendFails, TypeOK
  <2>2. pc' \in [Requests -> HandlerPC]
    BY <1>32
       DEF SendFile, Goes, HandlerPC, TypeOK
  <2> QED
    BY <1>32, <2>1, <2>2
       DEF SendFile, SendMapped, TypeOK, clients, logVars, loopVars,
           lockVars, pipeVars
<1>33. ASSUME NEW r \in Requests, SendInline(r)  PROVE  TypeOK'
  <2>1. reply' \in [Requests ->
                    {"nothing", "error", "listing", "part", "file"}]
    BY <1>33
       DEF SendInline, SendMapped, SendFails, TypeOK
  <2>2. pc' \in [Requests -> HandlerPC]
    BY <1>33
       DEF SendInline, Goes, HandlerPC, TypeOK
  <2> QED
    BY <1>33, <2>1, <2>2
       DEF SendInline, SendMapped, TypeOK, clients, logVars, loopVars,
           lockVars, pipeVars
<1>34. ASSUME NEW r \in Requests, JoinNothing(r)  PROVE  TypeOK'
  <2>1. pc' \in [Requests -> HandlerPC]
    BY <1>34
       DEF JoinNothing, Goes, HandlerPC, TypeOK
  <2> QED
    BY <1>34, <2>1
       DEF JoinNothing, TypeOK, clients, logVars, loopVars, lockVars,
           pipeVars
<1>35. ASSUME NEW r \in Requests, UnlockFile(r)  PROVE  TypeOK'
  <2>1. flock' \in [Targets -> Requests \cup {NoOne}]
    BY <1>35
       DEF UnlockFile, Thread, ReleaseLockf, TypeOK
  <2>2. pmutex' \in Requests \cup {NoOne}
    BY <1>35
       DEF UnlockFile, Thread, TypeOK
  <2>3. pc' \in [Requests -> HandlerPC]
    BY <1>35
       DEF UnlockFile, Goes, HandlerPC, TypeOK
  <2> QED
    BY <1>35, <2>1, <2>2, <2>3
       DEF UnlockFile, TypeOK, clients, logVars, loopVars, lockVars,
           pipeVars
<1>36. ASSUME NEW r \in Requests, CloseFile(r)  PROVE  TypeOK'
  <2>1. fdt' \in [Fd -> Objects]
    BY <1>36
       DEF CloseFile, CloseFd, TypeOK
  <2>2. pc' \in [Requests -> HandlerPC]
    BY <1>36
       DEF CloseFile, Goes, HandlerPC, TypeOK
  <2> QED
    BY <1>36, <2>1, <2>2
       DEF CloseFile, CloseFd, TypeOK, clients, logVars, loopVars,
           lockVars, pipeVars
<1>37. ASSUME NEW r \in Requests, CloseServedClient(r)  PROVE  TypeOK'
  <2>1. fdt' \in [Fd -> Objects]
    BY <1>37, CloseClientType
       DEF CloseServedClient, Goes, TypeOK
  <2>2. conn' \in [Requests -> {"none", "queued", "open", "closed", "reset"}]
    BY <1>37, CloseClientType
       DEF CloseServedClient, Goes, TypeOK
  <2>3. pc' \in [Requests -> HandlerPC]
    BY <1>37
       DEF CloseServedClient, Goes, HandlerPC, TypeOK
  <2> QED
    BY <1>37, <2>1, <2>2, <2>3
       DEF CloseServedClient, TypeOK, clients, logVars, loopVars,
           lockVars, pipeVars
<1>38. ASSUME NEW r \in Requests, LogRequest(r)  PROVE  TypeOK'
  <2>1. accepted' \in Seq(Requests) /\ recorded' = recorded
    BY <1>38
       DEF LogRequest, AL!Accept, TypeOK
  <2>2. pc' \in [Requests -> HandlerPC]
    BY <1>38
       DEF LogRequest, Goes, HandlerPC, TypeOK
  <2> QED
    BY <1>38, <2>1, <2>2
       DEF LogRequest, TypeOK, clients, logVars, loopVars, lockVars,
           pipeVars
<1>39. ASSUME NEW r \in Requests, CleanRequest(r)  PROVE  TypeOK'
  <2>1. fdt' \in [Fd -> Objects]
    BY <1>39, CloseClientType
       DEF CleanRequest, Goes, TypeOK
  <2>2. conn' \in [Requests -> {"none", "queued", "open", "closed", "reset"}]
    BY <1>39, CloseClientType
       DEF CleanRequest, Goes, TypeOK
  <2>3. flock' \in [Targets -> Requests \cup {NoOne}]
    BY <1>39
       DEF CleanRequest, ReleaseLockf, TypeOK
  <2>4. pc' \in [Requests -> HandlerPC]
    BY <1>39
       DEF CleanRequest, Goes, HandlerPC, TypeOK
  <2> QED
    BY <1>39, <2>1, <2>2, <2>3, <2>4
       DEF CleanRequest, TypeOK, clients, logVars, loopVars, lockVars,
           pipeVars
<1>40. ASSUME NEW r \in Requests, ThreadDies(r)  PROVE  TypeOK'
  <2>1. /\ pc' \in [Requests -> HandlerPC]
        /\ main' = "dead"
    BY <1>40
       DEF ThreadDies, ServerEnds, HandlerPC, TypeOK
  <2>2. conn' \in [Requests -> {"none", "queued", "open", "closed", "reset"}]
    BY <1>40
       DEF ThreadDies, ServerEnds, TypeOK
  <2> QED
    BY <1>40, <2>1, <2>2
       DEF ThreadDies, TypeOK, clients, logVars, loopVars, lockVars,
           pipeVars
<1>41. ASSUME NEW r \in Requests, ChildDies(r)  PROVE  TypeOK'
  <2>1. fdt' \in [Fd -> Objects]
    BY <1>41, CloseClientType
       DEF ChildDies, Goes, TypeOK
  <2>2. conn' \in [Requests -> {"none", "queued", "open", "closed", "reset"}]
    BY <1>41, CloseClientType
       DEF ChildDies, Goes, TypeOK
  <2>3. flock' \in [Targets -> Requests \cup {NoOne}]
    BY <1>41
       DEF ChildDies, ReleaseLockf, TypeOK
  <2>4. pc' \in [Requests -> HandlerPC]
    BY <1>41
       DEF ChildDies, HandlerPC, TypeOK
  <2> QED
    BY <1>41, <2>1, <2>2, <2>3, <2>4
       DEF ChildDies, TypeOK, clients, logVars, loopVars, lockVars,
           pipeVars
<1>42. CASE UNCHANGED vars
  BY <1>42
     DEF vars, TypeOK, HandlerPC, Modes, clients, logVars, loopVars,
         lockVars, pipeVars
<1> QED
  BY <1>1, <1>2, <1>3, <1>4, <1>5, <1>6, <1>7, <1>8, <1>9, <1>10, <1>11,
     <1>12, <1>13, <1>14, <1>15, <1>16, <1>17, <1>18, <1>19, <1>20, <1>21,
     <1>22, <1>23, <1>24, <1>25, <1>26, <1>27, <1>28, <1>29, <1>30, <1>31,
     <1>32, <1>33, <1>34, <1>35, <1>36, <1>37, <1>38, <1>39, <1>40, <1>41,
     <1>42
     DEF Next, MainStep, HandlerStep

\* type_Request is set on the way to clean_request, or by a listing.
LEMMA TypeRequestStep ==
  ASSUME TypeOK, TypeRequest, [Next]_vars
  PROVE  TypeRequest'
<1>0. Domains
  BY DEF TypeOK, Domains
<1>1. CASE Reopen
  BY <1>1, <1>0
     DEF Reopen, LowestFree, Free, Domains, TypeRequest, clients,
         logVars, loopVars, lockVars, pipeVars
<1>2. CASE ReopenFails
  BY <1>2, <1>0
     DEF ReopenFails, ServerEnds, Thread, Domains, TypeRequest, clients,
         logVars, loopVars, lockVars, pipeVars
<1>3. CASE BeginReload
  BY <1>3, <1>0
     DEF BeginReload, Domains, TypeRequest, clients, logVars, loopVars,
         lockVars, pipeVars
<1>4. CASE LoggerWrites
  BY <1>4, <1>0
     DEF LoggerWrites, AL!Record, Domains, TypeRequest, clients,
         logVars, loopVars, lockVars, pipeVars
<1>5. ASSUME NEW r \in Requests, Connect(r)  PROVE  TypeRequest'
  BY <1>5, <1>0
     DEF Connect, Domains, TypeRequest, clients, logVars, loopVars,
         lockVars, pipeVars
<1>6. ASSUME NEW r \in Requests, ClientLeaves(r)  PROVE  TypeRequest'
  BY <1>6, <1>0
     DEF ClientLeaves, Domains, TypeRequest, clients, logVars, loopVars,
         lockVars, pipeVars
<1>7. ASSUME NEW r \in Requests, Accept(r)  PROVE  TypeRequest'
  BY <1>7, <1>0
     DEF Accept, Goes, LowestFree, Free, Domains, TypeRequest, clients,
         logVars, loopVars, lockVars, pipeVars
<1>8. ASSUME NEW r \in Requests, Spawn(r)  PROVE  TypeRequest'
  BY <1>8, <1>0
     DEF Spawn, Goes, Thread, Domains, TypeRequest, clients, logVars,
         loopVars, lockVars, pipeVars
<1>9. ASSUME NEW r \in Requests, SpawnFails(r)  PROVE  TypeRequest'
  BY <1>9, <1>0
     DEF SpawnFails, Goes, Domains, TypeRequest, clients, logVars,
         loopVars, lockVars, pipeVars
<1>10. ASSUME NEW r \in Requests, ReadRequest(r)  PROVE  TypeRequest'
  BY <1>10, <1>0
     DEF ReadRequest, SendFails, Domains, TypeRequest, clients, logVars,
         loopVars, lockVars, pipeVars
<1>11. ASSUME NEW r \in Requests, ReadNothing(r)  PROVE  TypeRequest'
  BY <1>11, <1>0
     DEF ReadNothing, Goes, Domains, TypeRequest, clients, logVars,
         loopVars, lockVars, pipeVars
<1>12. ASSUME NEW r \in Requests, FileFound(r)  PROVE  TypeRequest'
  BY <1>12, <1>0
     DEF FileFound, Goes, Domains, TypeRequest, clients, logVars,
         loopVars, lockVars, pipeVars
<1>13. ASSUME NEW r \in Requests, FileMissing(r)  PROVE  TypeRequest'
  BY <1>13, <1>0
     DEF FileMissing, Goes, SendFails, Domains, TypeRequest, clients,
         logVars, loopVars, lockVars, pipeVars
<1>14. ASSUME NEW r \in Requests, OpenCommand(r)  PROVE  TypeRequest'
  BY <1>14, <1>0
     DEF OpenCommand, Goes, OpenPipe, LowestFree, Free, Domains,
         TypeRequest, clients, logVars, loopVars, lockVars, pipeVars
<1>15. ASSUME NEW r \in Requests, OpenCommandFails(r)  PROVE  TypeRequest'
  BY <1>15, <1>0
     DEF OpenCommandFails, Goes, Domains, TypeRequest, clients, logVars,
         loopVars, lockVars, pipeVars
<1>16. ASSUME NEW r \in Requests, StartCommand(r)  PROVE  TypeRequest'
  BY <1>16, <1>0
     DEF StartCommand, Goes, Domains, TypeRequest, clients, logVars,
         loopVars, lockVars, pipeVars
<1>17. ASSUME NEW r \in Requests, GetCode(r)  PROVE  TypeRequest'
  BY <1>17, <1>0
     DEF GetCode, Goes, InListing, Domains, TypeRequest, clients,
         logVars, loopVars, lockVars, pipeVars
<1>18. ASSUME NEW r \in Requests, ServeNothing(r)  PROVE  TypeRequest'
  BY <1>18, <1>0
     DEF ServeNothing, Goes, Domains, TypeRequest, clients, logVars,
         loopVars, lockVars, pipeVars
<1>19. ASSUME NEW r \in Requests, OpenDirectory(r)  PROVE  TypeRequest'
  BY <1>19, <1>0
     DEF OpenDirectory, Goes, OpenFd, LowestFree, Free, AfterEntries,
         Domains, TypeRequest, clients, logVars, loopVars, lockVars,
         pipeVars
<1>20. ASSUME NEW r \in Requests, OpenDirectoryFails(r)  PROVE  TypeRequest'
  BY <1>20, <1>0
     DEF OpenDirectoryFails, Goes, Domains, TypeRequest, clients,
         logVars, loopVars, lockVars, pipeVars
<1>21. ASSUME NEW r \in Requests, SendLine(r)  PROVE  TypeRequest'
  BY <1>21, <1>0
     DEF SendLine, Goes, AfterEntries, Domains, TypeRequest, clients,
         logVars, loopVars, lockVars, pipeVars
<1>22. ASSUME NEW r \in Requests, SendLineFails(r)  PROVE  TypeRequest'
  BY <1>22, <1>0
     DEF SendLineFails, Goes, SendFails, Domains, TypeRequest, clients,
         logVars, loopVars, lockVars, pipeVars
<1>23. ASSUME NEW r \in Requests, CloseDirectory(r)  PROVE  TypeRequest'
  BY <1>23, <1>0
     DEF CloseDirectory, Goes, CloseFd, Domains, TypeRequest, clients,
         logVars, loopVars, lockVars, pipeVars
<1>24. ASSUME NEW r \in Requests, ServeFile(r)  PROVE  TypeRequest'
  BY <1>24, <1>0
     DEF ServeFile, Goes, Domains, TypeRequest, clients, logVars,
         loopVars, lockVars, pipeVars
<1>25. ASSUME NEW r \in Requests, OpenFile(r)  PROVE  TypeRequest'
  BY <1>25, <1>0
     DEF OpenFile, Goes, OpenFd, LowestFree, Free, Domains, TypeRequest,
         clients, logVars, loopVars, lockVars, pipeVars
<1>26. ASSUME NEW r \in Requests, OpenFileFails(r)  PROVE  TypeRequest'
  BY <1>26, <1>0
     DEF OpenFileFails, Goes, Domains, TypeRequest, clients, logVars,
         loopVars, lockVars, pipeVars
<1>27. ASSUME NEW r \in Requests, LockFile(r)  PROVE  TypeRequest'
  BY <1>27, <1>0
     DEF LockFile, Goes, Thread, Domains, TypeRequest, clients, logVars,
         loopVars, lockVars, pipeVars
<1>28. ASSUME NEW r \in Requests, LockFileFails(r)  PROVE  TypeRequest'
  BY <1>28, <1>0
     DEF LockFileFails, Goes, Domains, TypeRequest, clients, logVars,
         loopVars, lockVars, pipeVars
<1>29. ASSUME NEW r \in Requests, MapEmptyFile(r)  PROVE  TypeRequest'
  BY <1>29, <1>0
     DEF MapEmptyFile, Goes, Domains, TypeRequest, clients, logVars,
         loopVars, lockVars, pipeVars
<1>30. ASSUME NEW r \in Requests, MapFails(r)  PROVE  TypeRequest'
  BY <1>30, <1>0
     DEF MapFails, Goes, ReleaseLockf, CloseFd, Domains, TypeRequest,
         clients, logVars, loopVars, lockVars, pipeVars
<1>31. ASSUME NEW r \in Requests, MapFile(r)  PROVE  TypeRequest'
  BY <1>31, <1>0
     DEF MapFile, Goes, Domains, TypeRequest, clients, logVars,
         loopVars, lockVars, pipeVars
<1>32. ASSUME NEW r \in Requests, SendFile(r)  PROVE  TypeRequest'
  BY <1>32, <1>0
     DEF SendFile, Goes, SendMapped, SendFails, Domains, TypeRequest,
         clients, logVars, loopVars, lockVars, pipeVars
<1>33. ASSUME NEW r \in Requests, SendInline(r)  PROVE  TypeRequest'
  BY <1>33, <1>0
     DEF SendInline, Goes, SendMapped, SendFails, Domains, TypeRequest,
         clients, logVars, loopVars, lockVars, pipeVars
<1>34. ASSUME NEW r \in Requests, JoinNothing(r)  PROVE  TypeRequest'
  BY <1>34, <1>0
     DEF JoinNothing, Goes, Domains, TypeRequest, clients, logVars,
         loopVars, lockVars, pipeVars
<1>35. ASSUME NEW r \in Requests, UnlockFile(r)  PROVE  TypeRequest'
  BY <1>35, <1>0
     DEF UnlockFile, Goes, Thread, ReleaseLockf, Domains, TypeRequest,
         clients, logVars, loopVars, lockVars, pipeVars
<1>36. ASSUME NEW r \in Requests, CloseFile(r)  PROVE  TypeRequest'
  BY <1>36, <1>0
     DEF CloseFile, Goes, CloseFd, Domains, TypeRequest, clients,
         logVars, loopVars, lockVars, pipeVars
<1>37. ASSUME NEW r \in Requests, CloseServedClient(r)  PROVE  TypeRequest'
  BY <1>37, <1>0
     DEF CloseServedClient, Goes, CloseClient, Domains, TypeRequest,
         clients, logVars, loopVars, lockVars, pipeVars
<1>38. ASSUME NEW r \in Requests, LogRequest(r)  PROVE  TypeRequest'
  BY <1>38, <1>0
     DEF LogRequest, Goes, AL!Accept, Domains, TypeRequest, clients,
         logVars, loopVars, lockVars, pipeVars
<1>39. ASSUME NEW r \in Requests, CleanRequest(r)  PROVE  TypeRequest'
  BY <1>39, <1>0
     DEF CleanRequest, Goes, CloseClient, ReleaseLockf, Domains,
         TypeRequest, clients, logVars, loopVars, lockVars, pipeVars
<1>40. ASSUME NEW r \in Requests, ThreadDies(r)  PROVE  TypeRequest'
  BY <1>40, <1>0
     DEF ThreadDies, ServerEnds, SendFails, Sends, Dies, Thread,
         Domains, TypeRequest, clients, logVars, loopVars, lockVars,
         pipeVars
<1>41. ASSUME NEW r \in Requests, ChildDies(r)  PROVE  TypeRequest'
  BY <1>41, <1>0
     DEF ChildDies, SendFails, Sends, Dies, Thread, CloseClient,
         ReleaseLockf, Domains, TypeRequest, clients, logVars, loopVars,
         lockVars, pipeVars
<1>42. CASE UNCHANGED vars
  BY <1>42
     DEF vars, Domains, TypeRequest, clients, logVars, loopVars,
         lockVars, pipeVars
<1> QED
  BY <1>1, <1>2, <1>3, <1>4, <1>5, <1>6, <1>7, <1>8, <1>9, <1>10, <1>11,
     <1>12, <1>13, <1>14, <1>15, <1>16, <1>17, <1>18, <1>19, <1>20, <1>21,
     <1>22, <1>23, <1>24, <1>25, <1>26, <1>27, <1>28, <1>29, <1>30, <1>31,
     <1>32, <1>33, <1>34, <1>35, <1>36, <1>37, <1>38, <1>39, <1>40, <1>41,
     <1>42
     DEF Next, MainStep, HandlerStep

\* A lock is taken only when free and released only by its owner.
LEMMA LocksStep ==
  ASSUME TypeOK, Locks, [Next]_vars
  PROVE  Locks'
<1> USE ServerAssumption
<1>0. Domains
  BY DEF TypeOK, Domains
<1>1. CASE Reopen
  BY <1>1, <1>0
     DEF Reopen, LowestFree, Free, Domains, Locks, Thread, clients,
         logVars, loopVars, lockVars, pipeVars
<1>2. CASE ReopenFails
  BY <1>2, <1>0
     DEF ReopenFails, ServerEnds, Thread, Domains, Locks, clients,
         logVars, loopVars, lockVars, pipeVars
<1>3. CASE BeginReload
  BY <1>3, <1>0
     DEF BeginReload, Domains, Locks, Thread, clients, logVars,
         loopVars, lockVars, pipeVars
<1>4. CASE LoggerWrites
  BY <1>4, <1>0
     DEF LoggerWrites, AL!Record, Domains, Locks, Thread, clients,
         logVars, loopVars, lockVars, pipeVars
<1>5. ASSUME NEW r \in Requests, Connect(r)  PROVE  Locks'
  BY <1>5, <1>0
     DEF Connect, Domains, Locks, Thread, clients, logVars, loopVars,
         lockVars, pipeVars
<1>6. ASSUME NEW r \in Requests, ClientLeaves(r)  PROVE  Locks'
  BY <1>6, <1>0
     DEF ClientLeaves, Domains, Locks, Thread, clients, logVars,
         loopVars, lockVars, pipeVars
<1>7. ASSUME NEW r \in Requests, Accept(r)  PROVE  Locks'
  BY <1>7, <1>0
     DEF Accept, Goes, LowestFree, Free, Domains, Locks, Thread,
         clients, logVars, loopVars, lockVars, pipeVars
<1>8. ASSUME NEW r \in Requests, Spawn(r)  PROVE  Locks'
  BY <1>8, <1>0
     DEF Spawn, Goes, Thread, Domains, Locks, clients, logVars,
         loopVars, lockVars, pipeVars
<1>9. ASSUME NEW r \in Requests, SpawnFails(r)  PROVE  Locks'
  BY <1>9, <1>0
     DEF SpawnFails, Goes, Domains, Locks, Thread, clients, logVars,
         loopVars, lockVars, pipeVars
<1>10. ASSUME NEW r \in Requests, ReadRequest(r)  PROVE  Locks'
  BY <1>10, <1>0
     DEF ReadRequest, SendFails, Domains, Locks, Thread, clients,
         logVars, loopVars, lockVars, pipeVars
<1>11. ASSUME NEW r \in Requests, ReadNothing(r)  PROVE  Locks'
  BY <1>11, <1>0
     DEF ReadNothing, Goes, Domains, Locks, Thread, clients, logVars,
         loopVars, lockVars, pipeVars
<1>12. ASSUME NEW r \in Requests, FileFound(r)  PROVE  Locks'
  BY <1>12, <1>0
     DEF FileFound, Goes, Domains, Locks, Thread, clients, logVars,
         loopVars, lockVars, pipeVars
<1>13. ASSUME NEW r \in Requests, FileMissing(r)  PROVE  Locks'
  BY <1>13, <1>0
     DEF FileMissing, Goes, SendFails, Domains, Locks, Thread, clients,
         logVars, loopVars, lockVars, pipeVars
<1>14. ASSUME NEW r \in Requests, OpenCommand(r)  PROVE  Locks'
  BY <1>14, <1>0
     DEF OpenCommand, Goes, OpenPipe, LowestFree, Free, Domains, Locks,
         Thread, clients, logVars, loopVars, lockVars, pipeVars
<1>15. ASSUME NEW r \in Requests, OpenCommandFails(r)  PROVE  Locks'
  BY <1>15, <1>0
     DEF OpenCommandFails, Goes, Domains, Locks, Thread, clients,
         logVars, loopVars, lockVars, pipeVars
<1>16. ASSUME NEW r \in Requests, StartCommand(r)  PROVE  Locks'
  BY <1>16, <1>0
     DEF StartCommand, Goes, Domains, Locks, Thread, clients, logVars,
         loopVars, lockVars, pipeVars
<1>17. ASSUME NEW r \in Requests, GetCode(r)  PROVE  Locks'
  BY <1>17, <1>0
     DEF GetCode, Goes, InListing, Domains, Locks, Thread, clients,
         logVars, loopVars, lockVars, pipeVars
<1>18. ASSUME NEW r \in Requests, ServeNothing(r)  PROVE  Locks'
  BY <1>18, <1>0
     DEF ServeNothing, Goes, Domains, Locks, Thread, clients, logVars,
         loopVars, lockVars, pipeVars
<1>19. ASSUME NEW r \in Requests, OpenDirectory(r)  PROVE  Locks'
  BY <1>19, <1>0
     DEF OpenDirectory, Goes, OpenFd, LowestFree, Free, AfterEntries,
         Domains, Locks, Thread, clients, logVars, loopVars, lockVars,
         pipeVars
<1>20. ASSUME NEW r \in Requests, OpenDirectoryFails(r)  PROVE  Locks'
  BY <1>20, <1>0
     DEF OpenDirectoryFails, Goes, Domains, Locks, Thread, clients,
         logVars, loopVars, lockVars, pipeVars
<1>21. ASSUME NEW r \in Requests, SendLine(r)  PROVE  Locks'
  BY <1>21, <1>0
     DEF SendLine, Goes, AfterEntries, Domains, Locks, Thread, clients,
         logVars, loopVars, lockVars, pipeVars
<1>22. ASSUME NEW r \in Requests, SendLineFails(r)  PROVE  Locks'
  BY <1>22, <1>0
     DEF SendLineFails, Goes, SendFails, Domains, Locks, Thread,
         clients, logVars, loopVars, lockVars, pipeVars
<1>23. ASSUME NEW r \in Requests, CloseDirectory(r)  PROVE  Locks'
  BY <1>23, <1>0
     DEF CloseDirectory, Goes, CloseFd, Domains, Locks, Thread, clients,
         logVars, loopVars, lockVars, pipeVars
<1>24. ASSUME NEW r \in Requests, ServeFile(r)  PROVE  Locks'
  BY <1>24, <1>0
     DEF ServeFile, Goes, Domains, Locks, Thread, clients, logVars,
         loopVars, lockVars, pipeVars
<1>25. ASSUME NEW r \in Requests, OpenFile(r)  PROVE  Locks'
  BY <1>25, <1>0
     DEF OpenFile, Goes, OpenFd, LowestFree, Free, Domains, Locks,
         Thread, clients, logVars, loopVars, lockVars, pipeVars
<1>26. ASSUME NEW r \in Requests, OpenFileFails(r)  PROVE  Locks'
  BY <1>26, <1>0
     DEF OpenFileFails, Goes, Domains, Locks, Thread, clients, logVars,
         loopVars, lockVars, pipeVars
<1>27. ASSUME NEW r \in Requests, LockFile(r)  PROVE  Locks'
  BY <1>27, <1>0
     DEF LockFile, Goes, Thread, Domains, Locks, clients, logVars,
         loopVars, lockVars, pipeVars
<1>28. ASSUME NEW r \in Requests, LockFileFails(r)  PROVE  Locks'
  BY <1>28, <1>0
     DEF LockFileFails, Goes, Domains, Locks, Thread, clients, logVars,
         loopVars, lockVars, pipeVars
<1>29. ASSUME NEW r \in Requests, MapEmptyFile(r)  PROVE  Locks'
  BY <1>29, <1>0
     DEF MapEmptyFile, Goes, Domains, Locks, Thread, clients, logVars,
         loopVars, lockVars, pipeVars
<1>30. ASSUME NEW r \in Requests, MapFails(r)  PROVE  Locks'
  BY <1>30, <1>0
     DEF MapFails, Goes, ReleaseLockf, CloseFd, Domains, Locks, Thread,
         clients, logVars, loopVars, lockVars, pipeVars
<1>31. ASSUME NEW r \in Requests, MapFile(r)  PROVE  Locks'
  BY <1>31, <1>0
     DEF MapFile, Goes, Domains, Locks, Thread, clients, logVars,
         loopVars, lockVars, pipeVars
<1>32. ASSUME NEW r \in Requests, SendFile(r)  PROVE  Locks'
  BY <1>32, <1>0
     DEF SendFile, Goes, SendMapped, SendFails, Domains, Locks, Thread,
         clients, logVars, loopVars, lockVars, pipeVars
<1>33. ASSUME NEW r \in Requests, SendInline(r)  PROVE  Locks'
  BY <1>33, <1>0
     DEF SendInline, Goes, SendMapped, SendFails, Domains, Locks,
         Thread, clients, logVars, loopVars, lockVars, pipeVars
<1>34. ASSUME NEW r \in Requests, JoinNothing(r)  PROVE  Locks'
  BY <1>34, <1>0
     DEF JoinNothing, Goes, Domains, Locks, Thread, clients, logVars,
         loopVars, lockVars, pipeVars
<1>35. ASSUME NEW r \in Requests, UnlockFile(r)  PROVE  Locks'
  BY <1>35, <1>0
     DEF UnlockFile, Goes, Thread, ReleaseLockf, Domains, Locks,
         clients, logVars, loopVars, lockVars, pipeVars
<1>36. ASSUME NEW r \in Requests, CloseFile(r)  PROVE  Locks'
  BY <1>36, <1>0
     DEF CloseFile, Goes, CloseFd, Domains, Locks, Thread, clients,
         logVars, loopVars, lockVars, pipeVars
<1>37. ASSUME NEW r \in Requests, CloseServedClient(r)  PROVE  Locks'
  BY <1>37, <1>0
     DEF CloseServedClient, Goes, CloseClient, Domains, Locks, Thread,
         clients, logVars, loopVars, lockVars, pipeVars
<1>38. ASSUME NEW r \in Requests, LogRequest(r)  PROVE  Locks'
  BY <1>38, <1>0
     DEF LogRequest, Goes, AL!Accept, Domains, Locks, Thread, clients,
         logVars, loopVars, lockVars, pipeVars
<1>39. ASSUME NEW r \in Requests, CleanRequest(r)  PROVE  Locks'
  BY <1>39, <1>0
     DEF CleanRequest, Goes, CloseClient, ReleaseLockf, Domains, Locks,
         Thread, clients, logVars, loopVars, lockVars, pipeVars
<1>40. ASSUME NEW r \in Requests, ThreadDies(r)  PROVE  Locks'
  BY <1>40, <1>0
     DEF ThreadDies, ServerEnds, SendFails, Sends, Dies, Thread,
         Domains, Locks, clients, logVars, loopVars, lockVars, pipeVars
<1>41. ASSUME NEW r \in Requests, ChildDies(r)  PROVE  Locks'
  BY <1>41, <1>0
     DEF ChildDies, SendFails, Sends, Dies, Thread, CloseClient,
         ReleaseLockf, Domains, Locks, clients, logVars, loopVars,
         lockVars, pipeVars
<1>42. CASE UNCHANGED vars
  BY <1>42
     DEF vars, Domains, Locks, Thread, clients, logVars, loopVars,
         lockVars, pipeVars
<1> QED
  BY <1>1, <1>2, <1>3, <1>4, <1>5, <1>6, <1>7, <1>8, <1>9, <1>10, <1>11,
     <1>12, <1>13, <1>14, <1>15, <1>16, <1>17, <1>18, <1>19, <1>20, <1>21,
     <1>22, <1>23, <1>24, <1>25, <1>26, <1>27, <1>28, <1>29, <1>30, <1>31,
     <1>32, <1>33, <1>34, <1>35, <1>36, <1>37, <1>38, <1>39, <1>40, <1>41,
     <1>42
     DEF Next, MainStep, HandlerStep

\* A number is given out only when unused and closed only by its owner.
LEMMA DescriptorsStep ==
  ASSUME TypeOK, TypeRequest, Descriptors, [Next]_vars
  PROVE  Descriptors'
<1> USE ServerAssumption, Distinct
<1>0. Domains
  BY DEF TypeOK, Domains
<1>1. CASE Reopen
  BY <1>1, <1>0
     DEF Reopen, LowestFree, Free, Domains, TypeRequest, Descriptors,
         OwnsConn, OwnsFile, Thread, clients, logVars, loopVars,
         lockVars, pipeVars
<1>2. CASE ReopenFails
  BY <1>2, <1>0
     DEF ReopenFails, ServerEnds, Thread, Domains, TypeRequest,
         Descriptors, OwnsConn, OwnsFile, clients, logVars, loopVars,
         lockVars, pipeVars
<1>3. CASE BeginReload
  BY <1>3, <1>0
     DEF BeginReload, Domains, TypeRequest, Descriptors, OwnsConn,
         OwnsFile, Thread, clients, logVars, loopVars, lockVars,
         pipeVars
<1>4. CASE LoggerWrites
  BY <1>4, <1>0
     DEF LoggerWrites, AL!Record, Domains, TypeRequest, Descriptors,
         OwnsConn, OwnsFile, Thread, clients, logVars, loopVars,
         lockVars, pipeVars
<1>5. ASSUME NEW r \in Requests, Connect(r)  PROVE  Descriptors'
  BY <1>5, <1>0
     DEF Connect, Domains, TypeRequest, Descriptors, OwnsConn, OwnsFile,
         Thread, clients, logVars, loopVars, lockVars, pipeVars
<1>6. ASSUME NEW r \in Requests, ClientLeaves(r)  PROVE  Descriptors'
  BY <1>6, <1>0
     DEF ClientLeaves, Domains, TypeRequest, Descriptors, OwnsConn,
         OwnsFile, Thread, clients, logVars, loopVars, lockVars,
         pipeVars
<1>7. ASSUME NEW r \in Requests, Accept(r)  PROVE  Descriptors'
  BY <1>7, <1>0
     DEF Accept, Goes, LowestFree, Free, Domains, TypeRequest,
         Descriptors, OwnsConn, OwnsFile, Thread, clients, logVars,
         loopVars, lockVars, pipeVars
<1>8. ASSUME NEW r \in Requests, Spawn(r)  PROVE  Descriptors'
  BY <1>8, <1>0
     DEF Spawn, Goes, Thread, Domains, TypeRequest, Descriptors,
         OwnsConn, OwnsFile, clients, logVars, loopVars, lockVars,
         pipeVars
<1>9. ASSUME NEW r \in Requests, SpawnFails(r)  PROVE  Descriptors'
  BY <1>9, <1>0
     DEF SpawnFails, Goes, Domains, TypeRequest, Descriptors, OwnsConn,
         OwnsFile, Thread, clients, logVars, loopVars, lockVars,
         pipeVars
<1>10. ASSUME NEW r \in Requests, ReadRequest(r)  PROVE  Descriptors'
  BY <1>10, <1>0
     DEF ReadRequest, SendFails, Domains, TypeRequest, Descriptors,
         OwnsConn, OwnsFile, Thread, clients, logVars, loopVars,
         lockVars, pipeVars
<1>11. ASSUME NEW r \in Requests, ReadNothing(r)  PROVE  Descriptors'
  BY <1>11, <1>0
     DEF ReadNothing, Goes, Domains, TypeRequest, Descriptors, OwnsConn,
         OwnsFile, Thread, clients, logVars, loopVars, lockVars,
         pipeVars
<1>12. ASSUME NEW r \in Requests, FileFound(r)  PROVE  Descriptors'
  BY <1>12, <1>0
     DEF FileFound, Goes, Domains, TypeRequest, Descriptors, OwnsConn,
         OwnsFile, Thread, clients, logVars, loopVars, lockVars,
         pipeVars
<1>13. ASSUME NEW r \in Requests, FileMissing(r)  PROVE  Descriptors'
  BY <1>13, <1>0
     DEF FileMissing, Goes, SendFails, Domains, TypeRequest,
         Descriptors, OwnsConn, OwnsFile, Thread, clients, logVars,
         loopVars, lockVars, pipeVars
<1>14. ASSUME NEW r \in Requests, OpenCommand(r)  PROVE  Descriptors'
  <2>1. CASE ~Thread(r)
    BY <1>14, <2>1
       DEF OpenCommand, Goes, OpenPipe, TypeOK, Descriptors, OwnsConn,
           OwnsFile, Thread, loopVars, clients
  <2>2. CASE Thread(r)
    <3>1. PICK a, b \in Free :
            /\ a # b
            /\ fdt' = [fdt EXCEPT ![a] = Pipe(r), ![b] = Pipe(r)]
            /\ rfd' = [rfd EXCEPT ![r] = a]
            /\ wfd' = [wfd EXCEPT ![r] = b]
      BY <1>14, <2>2 DEF OpenCommand, OpenPipe
    <3>2. /\ a \in Fd /\ b \in Fd
          /\ fdt[a] = Unused /\ fdt[b] = Unused
          /\ fdt'[a] = Pipe(r) /\ fdt'[b] = Pipe(r)
          /\ rfd'[r] = a /\ wfd'[r] = b
          /\ \A m \in Fd \ {a, b} : fdt'[m] = fdt[m]
          /\ \A q \in Requests \ {r} : rfd'[q] = rfd[q] /\ wfd'[q] = wfd[q]
      BY <3>1 DEF Free, TypeOK
    <3>3. /\ pc[r] = "code" /\ pc'[r] = "pipe"
          /\ \A q \in Requests \ {r} : pc'[q] = pc[q]
          /\ UNCHANGED <<cfd, ffd, type, hmode>>
      BY <1>14 DEF OpenCommand, Goes, TypeOK
    <3>4. \A q \in Requests : /\ OwnsConn(q)' => OwnsConn(q)
                              /\ OwnsFile(q)' => OwnsFile(q)
      BY <3>3 DEF OwnsConn, OwnsFile, Thread
    <3>5. \A q \in Requests : /\ OwnsConn(q) => cfd[q] \in Fd \ {a, b}
                              /\ OwnsFile(q) => ffd[q] \in Fd \ {a, b}
      BY <3>2 DEF Descriptors
    <3>6. \A q \in Requests \ {r} : Thread(q) =>
            /\ pc[q] \in {"pipe", "type"} => rfd[q] \in Fd \ {a, b}
            /\ pc[q] = "pipe" => wfd[q] \in Fd \ {a, b}
      BY <3>2 DEF Descriptors
    <3>7. \A q \in Requests \ {r} :
            /\ (OwnsConn(q) => cfd[q] \in Fd /\ fdt[cfd[q]] = Conn(q))'
            /\ (OwnsFile(q) => ffd[q] \in Fd /\ fdt[ffd[q]] = File(q))'
      BY <3>2, <3>3, <3>4, <3>5 DEF Descriptors
    <3>8. /\ (OwnsConn(r) => cfd[r] \in Fd /\ fdt[cfd[r]] = Conn(r))'
          /\ (OwnsFile(r) => ffd[r] \in Fd /\ fdt[ffd[r]] = File(r))'
      BY <3>2, <3>3, <3>4, <3>5 DEF Descriptors
    <3>9. \A q \in Requests \ {r} :
            (/\ Thread(q) /\ pc[q] \in {"pipe", "type"}
                  => rfd[q] \in Fd /\ fdt[rfd[q]] = Pipe(q)
             /\ Thread(q) /\ pc[q] = "pipe"
                  => wfd[q] \in Fd \ {rfd[q]} /\ fdt[wfd[q]] = Pipe(q))'
      BY <3>2, <3>3, <3>6 DEF Descriptors, Thread
    <3>10. (/\ Thread(r) /\ pc[r] \in {"pipe", "type"}
                 => rfd[r] \in Fd /\ fdt[rfd[r]] = Pipe(r)
            /\ Thread(r) /\ pc[r] = "pipe"
                 => wfd[r] \in Fd \ {rfd[r]} /\ fdt[wfd[r]] = Pipe(r))'
      BY <3>1, <3>2
    <3> QED
      BY <3>7, <3>8, <3>9, <3>10 DEF Descriptors
  <2> QED
    BY <2>1, <2>2
<1>15. ASSUME NEW r \in Requests, OpenCommandFails(r)  PROVE  Descriptors'
  BY <1>15, <1>0
     DEF OpenCommandFails, Goes, Domains, TypeRequest, Descriptors,
         OwnsConn, OwnsFile, Thread, clients, logVars, loopVars,
         lockVars, pipeVars
<1>16. ASSUME NEW r \in Requests, StartCommand(r)  PROVE  Descriptors'
  BY <1>16, <1>0
     DEF StartCommand, Goes, Domains, TypeRequest, Descriptors,
         OwnsConn, OwnsFile, Thread, clients, logVars, loopVars,
         lockVars, pipeVars
<1>17. ASSUME NEW r \in Requests, GetCode(r)  PROVE  Descriptors'
  BY <1>17, <1>0
     DEF GetCode, Goes, InListing, Domains, TypeRequest, Descriptors,
         OwnsConn, OwnsFile, Thread, clients, logVars, loopVars,
         lockVars, pipeVars
<1>18. ASSUME NEW r \in Requests, ServeNothing(r)  PROVE  Descriptors'
  BY <1>18, <1>0
     DEF ServeNothing, Goes, Domains, TypeRequest, Descriptors,
         OwnsConn, OwnsFile, Thread, clients, logVars, loopVars,
         lockVars, pipeVars
<1>19. ASSUME NEW r \in Requests, OpenDirectory(r)  PROVE  Descriptors'
  BY <1>19, <1>0
     DEF OpenDirectory, Goes, OpenFd, LowestFree, Free, AfterEntries,
         Domains, TypeRequest, Descriptors, OwnsConn, OwnsFile, Thread,
         clients, logVars, loopVars, lockVars, pipeVars
<1>20. ASSUME NEW r \in Requests, OpenDirectoryFails(r)  PROVE  Descriptors'
  BY <1>20, <1>0
     DEF OpenDirectoryFails, Goes, Domains, TypeRequest, Descriptors,
         OwnsConn, OwnsFile, Thread, clients, logVars, loopVars,
         lockVars, pipeVars
<1>21. ASSUME NEW r \in Requests, SendLine(r)  PROVE  Descriptors'
  BY <1>21, <1>0
     DEF SendLine, Goes, AfterEntries, Domains, TypeRequest,
         Descriptors, OwnsConn, OwnsFile, Thread, clients, logVars,
         loopVars, lockVars, pipeVars
<1>22. ASSUME NEW r \in Requests, SendLineFails(r)  PROVE  Descriptors'
  BY <1>22, <1>0
     DEF SendLineFails, Goes, SendFails, Domains, TypeRequest,
         Descriptors, OwnsConn, OwnsFile, Thread, clients, logVars,
         loopVars, lockVars, pipeVars
<1>23. ASSUME NEW r \in Requests, CloseDirectory(r)  PROVE  Descriptors'
  BY <1>23, <1>0
     DEF CloseDirectory, Goes, CloseFd, Domains, TypeRequest,
         Descriptors, OwnsConn, OwnsFile, Thread, clients, logVars,
         loopVars, lockVars, pipeVars
<1>24. ASSUME NEW r \in Requests, ServeFile(r)  PROVE  Descriptors'
  BY <1>24, <1>0
     DEF ServeFile, Goes, Domains, TypeRequest, Descriptors, OwnsConn,
         OwnsFile, Thread, clients, logVars, loopVars, lockVars,
         pipeVars
<1>25. ASSUME NEW r \in Requests, OpenFile(r)  PROVE  Descriptors'
  BY <1>25, <1>0
     DEF OpenFile, Goes, OpenFd, LowestFree, Free, Domains, TypeRequest,
         Descriptors, OwnsConn, OwnsFile, Thread, clients, logVars,
         loopVars, lockVars, pipeVars
<1>26. ASSUME NEW r \in Requests, OpenFileFails(r)  PROVE  Descriptors'
  BY <1>26, <1>0
     DEF OpenFileFails, Goes, Domains, TypeRequest, Descriptors,
         OwnsConn, OwnsFile, Thread, clients, logVars, loopVars,
         lockVars, pipeVars
<1>27. ASSUME NEW r \in Requests, LockFile(r)  PROVE  Descriptors'
  BY <1>27, <1>0
     DEF LockFile, Goes, Thread, Domains, TypeRequest, Descriptors,
         OwnsConn, OwnsFile, clients, logVars, loopVars, lockVars,
         pipeVars
<1>28. ASSUME NEW r \in Requests, LockFileFails(r)  PROVE  Descriptors'
  BY <1>28, <1>0
     DEF LockFileFails, Goes, Domains, TypeRequest, Descriptors,
         OwnsConn, OwnsFile, Thread, clients, logVars, loopVars,
         lockVars, pipeVars
<1>29. ASSUME NEW r \in Requests, MapEmptyFile(r)  PROVE  Descriptors'
  BY <1>29, <1>0
     DEF MapEmptyFile, Goes, Domains, TypeRequest, Descriptors,
         OwnsConn, OwnsFile, Thread, clients, logVars, loopVars,
         lockVars, pipeVars
<1>30. ASSUME NEW r \in Requests, MapFails(r)  PROVE  Descriptors'
  BY <1>30, <1>0
     DEF MapFails, Goes, ReleaseLockf, CloseFd, Domains, TypeRequest,
         Descriptors, OwnsConn, OwnsFile, Thread, clients, logVars,
         loopVars, lockVars, pipeVars
<1>31. ASSUME NEW r \in Requests, MapFile(r)  PROVE  Descriptors'
  BY <1>31, <1>0
     DEF MapFile, Goes, Domains, TypeRequest, Descriptors, OwnsConn,
         OwnsFile, Thread, clients, logVars, loopVars, lockVars,
         pipeVars
<1>32. ASSUME NEW r \in Requests, SendFile(r)  PROVE  Descriptors'
  BY <1>32, <1>0
     DEF SendFile, Goes, SendMapped, SendFails, Domains, TypeRequest,
         Descriptors, OwnsConn, OwnsFile, Thread, clients, logVars,
         loopVars, lockVars, pipeVars
<1>33. ASSUME NEW r \in Requests, SendInline(r)  PROVE  Descriptors'
  BY <1>33, <1>0
     DEF SendInline, Goes, SendMapped, SendFails, Domains, TypeRequest,
         Descriptors, OwnsConn, OwnsFile, Thread, clients, logVars,
         loopVars, lockVars, pipeVars
<1>34. ASSUME NEW r \in Requests, JoinNothing(r)  PROVE  Descriptors'
  BY <1>34, <1>0
     DEF JoinNothing, Goes, Domains, TypeRequest, Descriptors, OwnsConn,
         OwnsFile, Thread, clients, logVars, loopVars, lockVars,
         pipeVars
<1>35. ASSUME NEW r \in Requests, UnlockFile(r)  PROVE  Descriptors'
  BY <1>35, <1>0
     DEF UnlockFile, Goes, Thread, ReleaseLockf, Domains, TypeRequest,
         Descriptors, OwnsConn, OwnsFile, clients, logVars, loopVars,
         lockVars, pipeVars
<1>36. ASSUME NEW r \in Requests, CloseFile(r)  PROVE  Descriptors'
  BY <1>36, <1>0
     DEF CloseFile, Goes, CloseFd, Domains, TypeRequest, Descriptors,
         OwnsConn, OwnsFile, Thread, clients, logVars, loopVars,
         lockVars, pipeVars
<1>37. ASSUME NEW r \in Requests, CloseServedClient(r)  PROVE  Descriptors'
  <2>1. /\ pc[r] = "closeclient" /\ type[r] = 0
        /\ pc'[r] \in {"log", "clean"}
        /\ \A q \in Requests \ {r} : pc'[q] = pc[q]
        /\ UNCHANGED <<cfd, ffd, rfd, wfd, type, hmode>>
    BY <1>37 DEF CloseServedClient, Goes, TypeOK, TypeRequest, pipeVars
  <2>2. ~OwnsConn(r)' /\ ~OwnsFile(r)'
    BY <2>1 DEF OwnsConn, OwnsFile
  <2>3. \A q \in Requests \ {r} : /\ OwnsConn(q)' => OwnsConn(q)
                                  /\ OwnsFile(q)' => OwnsFile(q)
    BY <2>1 DEF OwnsConn, OwnsFile, Thread
  <2>4. \A n \in Fd : fdt[n] # Conn(r) => fdt'[n] = fdt[n]
    <3>1. CASE Thread(r)
      <4>1. fdt[cfd[r]] = Conn(r)
        BY <2>1, <3>1 DEF Descriptors, OwnsConn
      <4> QED
        BY <1>37, <3>1, <4>1 DEF CloseServedClient, CloseClient, TypeOK
    <3>2. CASE ~Thread(r)
      BY <1>37, <3>2 DEF CloseServedClient, CloseClient
    <3> QED
      BY <3>1, <3>2
  <2> QED
    BY <2>1, <2>2, <2>3, <2>4 DEF Descriptors, Thread
<1>38. ASSUME NEW r \in Requests, LogRequest(r)  PROVE  Descriptors'
  BY <1>38, <1>0
     DEF LogRequest, Goes, AL!Accept, Domains, TypeRequest, Descriptors,
         OwnsConn, OwnsFile, Thread, clients, logVars, loopVars,
         lockVars, pipeVars
<1>39. ASSUME NEW r \in Requests, CleanRequest(r)  PROVE  Descriptors'
  BY <1>39, <1>0
     DEF CleanRequest, Goes, CloseClient, ReleaseLockf, Domains,
         TypeRequest, Descriptors, OwnsConn, OwnsFile, Thread, clients,
         logVars, loopVars, lockVars, pipeVars
<1>40. ASSUME NEW r \in Requests, ThreadDies(r)  PROVE  Descriptors'
  BY <1>40, <1>0
     DEF ThreadDies, ServerEnds, SendFails, Sends, Dies, Thread,
         Domains, TypeRequest, Descriptors, OwnsConn, OwnsFile, clients,
         logVars, loopVars, lockVars, pipeVars
<1>41. ASSUME NEW r \in Requests, ChildDies(r)  PROVE  Descriptors'
  BY <1>41, <1>0
     DEF ChildDies, SendFails, Sends, Dies, Thread, CloseClient,
         ReleaseLockf, Domains, TypeRequest, Descriptors, OwnsConn,
         OwnsFile, clients, logVars, loopVars, lockVars, pipeVars
<1>42. CASE UNCHANGED vars
  BY <1>42
     DEF vars, Domains, TypeRequest, Descriptors, OwnsConn, OwnsFile,
         Thread, clients, logVars, loopVars, lockVars, pipeVars
<1> QED
  BY <1>1, <1>2, <1>3, <1>4, <1>5, <1>6, <1>7, <1>8, <1>9, <1>10, <1>11,
     <1>12, <1>13, <1>14, <1>15, <1>16, <1>17, <1>18, <1>19, <1>20, <1>21,
     <1>22, <1>23, <1>24, <1>25, <1>26, <1>27, <1>28, <1>29, <1>30, <1>31,
     <1>32, <1>33, <1>34, <1>35, <1>36, <1>37, <1>38, <1>39, <1>40, <1>41,
     <1>42
     DEF Next, MainStep, HandlerStep

\* An answer is complete when its connection is closed and the log is next.
LEMMA ProgressStep ==
  ASSUME TypeOK, TypeRequest, Descriptors, Progress, [Next]_vars
  PROVE  Progress'
<1> USE Distinct
<1>0. Domains
  BY DEF TypeOK, Domains
<1>1. CASE Reopen
  BY <1>1, <1>0
     DEF Reopen, LowestFree, Free, Domains, Progress, Served, clients,
         logVars, loopVars, lockVars, pipeVars
<1>2. CASE ReopenFails
  BY <1>2, <1>0
     DEF ReopenFails, ServerEnds, Thread, Domains, Progress, Served,
         clients, logVars, loopVars, lockVars, pipeVars
<1>3. CASE BeginReload
  BY <1>3, <1>0
     DEF BeginReload, Domains, Progress, Served, clients, logVars,
         loopVars, lockVars, pipeVars
<1>4. CASE LoggerWrites
  BY <1>4, <1>0
     DEF LoggerWrites, AL!Record, Domains, Progress, Served, clients,
         logVars, loopVars, lockVars, pipeVars
<1>5. ASSUME NEW r \in Requests, Connect(r)  PROVE  Progress'
  BY <1>5, <1>0
     DEF Connect, Domains, Progress, Served, clients, logVars, loopVars,
         lockVars, pipeVars
<1>6. ASSUME NEW r \in Requests, ClientLeaves(r)  PROVE  Progress'
  BY <1>6, <1>0
     DEF ClientLeaves, Domains, Progress, Served, clients, logVars,
         loopVars, lockVars, pipeVars
<1>7. ASSUME NEW r \in Requests, Accept(r)  PROVE  Progress'
  BY <1>7, <1>0
     DEF Accept, Goes, LowestFree, Free, Domains, Progress, Served,
         clients, logVars, loopVars, lockVars, pipeVars
<1>8. ASSUME NEW r \in Requests, Spawn(r)  PROVE  Progress'
  BY <1>8, <1>0
     DEF Spawn, Goes, Thread, Domains, Progress, Served, clients,
         logVars, loopVars, lockVars, pipeVars
<1>9. ASSUME NEW r \in Requests, SpawnFails(r)  PROVE  Progress'
  BY <1>9, <1>0
     DEF SpawnFails, Goes, Domains, Progress, Served, clients, logVars,
         loopVars, lockVars, pipeVars
<1>10. ASSUME NEW r \in Requests, ReadRequest(r)  PROVE  Progress'
  BY <1>10, <1>0
     DEF ReadRequest, SendFails, Domains, Progress, Served, clients,
         logVars, loopVars, lockVars, pipeVars
<1>11. ASSUME NEW r \in Requests, ReadNothing(r)  PROVE  Progress'
  BY <1>11, <1>0
     DEF ReadNothing, Goes, Domains, Progress, Served, clients, logVars,
         loopVars, lockVars, pipeVars
<1>12. ASSUME NEW r \in Requests, FileFound(r)  PROVE  Progress'
  <2>1. /\ pc[r] = "stat" /\ pc'[r] = "code"
        /\ \A q \in Requests \ {r} : pc'[q] = pc[q]
        /\ UNCHANGED <<target, left, reply, type, conn>>
    BY <1>12 DEF FileFound, Goes, TypeOK, clients
  <2>2. reply[r] = "nothing"
    BY <2>1 DEF Progress
  <2>3. \A q \in Requests : Served(q) => Served(q)'
    BY <2>1 DEF Served
  <2> QED
    BY <2>1, <2>2, <2>3 DEF Progress
<1>13. ASSUME NEW r \in Requests, FileMissing(r)  PROVE  Progress'
  BY <1>13, <1>0
     DEF FileMissing, Goes, SendFails, Domains, Progress, Served,
         clients, logVars, loopVars, lockVars, pipeVars
<1>14. ASSUME NEW r \in Requests, OpenCommand(r)  PROVE  Progress'
  BY <1>14, <1>0
     DEF OpenCommand, Goes, OpenPipe, LowestFree, Free, Domains,
         Progress, Served, clients, logVars, loopVars, lockVars,
         pipeVars
<1>15. ASSUME NEW r \in Requests, OpenCommandFails(r)  PROVE  Progress'
  BY <1>15, <1>0
     DEF OpenCommandFails, Goes, Domains, Progress, Served, clients,
         logVars, loopVars, lockVars, pipeVars
<1>16. ASSUME NEW r \in Requests, StartCommand(r)  PROVE  Progress'
  BY <1>16, <1>0
     DEF StartCommand, Goes, Domains, Progress, Served, clients,
         logVars, loopVars, lockVars, pipeVars
<1>17. ASSUME NEW r \in Requests, GetCode(r)  PROVE  Progress'
  BY <1>17, <1>0
     DEF GetCode, Goes, InListing, Domains, Progress, Served, clients,
         logVars, loopVars, lockVars, pipeVars
<1>18. ASSUME NEW r \in Requests, ServeNothing(r)  PROVE  Progress'
  BY <1>18, <1>0
     DEF ServeNothing, Goes, Domains, Progress, Served, clients,
         logVars, loopVars, lockVars, pipeVars
<1>19. ASSUME NEW r \in Requests, OpenDirectory(r)  PROVE  Progress'
  BY <1>19, <1>0
     DEF OpenDirectory, Goes, OpenFd, LowestFree, Free, AfterEntries,
         Domains, Progress, Served, clients, logVars, loopVars,
         lockVars, pipeVars
<1>20. ASSUME NEW r \in Requests, OpenDirectoryFails(r)  PROVE  Progress'
  BY <1>20, <1>0
     DEF OpenDirectoryFails, Goes, Domains, Progress, Served, clients,
         logVars, loopVars, lockVars, pipeVars
<1>21. ASSUME NEW r \in Requests, SendLine(r)  PROVE  Progress'
  <2>1. /\ pc[r] = "line" /\ pc'[r] \in {"code", "closedir"}
        /\ \A q \in Requests \ {r} : pc'[q] = pc[q]
        /\ type[r] = 1
        /\ reply'[r] = "part"
        /\ \A q \in Requests \ {r} : reply'[q] = reply[q]
        /\ UNCHANGED <<target, left, type, conn>>
    BY <1>21 DEF SendLine, Goes, AfterEntries, TypeOK, TypeRequest, clients
  <2>2. \A q \in Requests \ {r} : Served(q) => Served(q)'
    BY <2>1 DEF Served
  <2> QED
    BY <2>1, <2>2 DEF Progress
<1>22. ASSUME NEW r \in Requests, SendLineFails(r)  PROVE  Progress'
  BY <1>22, <1>0
     DEF SendLineFails, Goes, SendFails, Domains, Progress, Served,
         clients, logVars, loopVars, lockVars, pipeVars
<1>23. ASSUME NEW r \in Requests, CloseDirectory(r)  PROVE  Progress'
  BY <1>23, <1>0
     DEF CloseDirectory, Goes, CloseFd, Domains, Progress, Served,
         clients, logVars, loopVars, lockVars, pipeVars
<1>24. ASSUME NEW r \in Requests, ServeFile(r)  PROVE  Progress'
  BY <1>24, <1>0
     DEF ServeFile, Goes, Domains, Progress, Served, clients, logVars,
         loopVars, lockVars, pipeVars
<1>25. ASSUME NEW r \in Requests, OpenFile(r)  PROVE  Progress'
  BY <1>25, <1>0
     DEF OpenFile, Goes, OpenFd, LowestFree, Free, Domains, Progress,
         Served, clients, logVars, loopVars, lockVars, pipeVars
<1>26. ASSUME NEW r \in Requests, OpenFileFails(r)  PROVE  Progress'
  BY <1>26, <1>0
     DEF OpenFileFails, Goes, Domains, Progress, Served, clients,
         logVars, loopVars, lockVars, pipeVars
<1>27. ASSUME NEW r \in Requests, LockFile(r)  PROVE  Progress'
  BY <1>27, <1>0
     DEF LockFile, Goes, Thread, Domains, Progress, Served, clients,
         logVars, loopVars, lockVars, pipeVars
<1>28. ASSUME NEW r \in Requests, LockFileFails(r)  PROVE  Progress'
  BY <1>28, <1>0
     DEF LockFileFails, Goes, Domains, Progress, Served, clients,
         logVars, loopVars, lockVars, pipeVars
<1>29. ASSUME NEW r \in Requests, MapEmptyFile(r)  PROVE  Progress'
  BY <1>29, <1>0
     DEF MapEmptyFile, Goes, Domains, Progress, Served, clients,
         logVars, loopVars, lockVars, pipeVars
<1>30. ASSUME NEW r \in Requests, MapFails(r)  PROVE  Progress'
  BY <1>30, <1>0
     DEF MapFails, Goes, ReleaseLockf, CloseFd, Domains, Progress,
         Served, clients, logVars, loopVars, lockVars, pipeVars
<1>31. ASSUME NEW r \in Requests, MapFile(r)  PROVE  Progress'
  BY <1>31, <1>0
     DEF MapFile, Goes, Domains, Progress, Served, clients, logVars,
         loopVars, lockVars, pipeVars
<1>32. ASSUME NEW r \in Requests, SendFile(r)  PROVE  Progress'
  BY <1>32, <1>0
     DEF SendFile, Goes, SendMapped, SendFails, Domains, Progress,
         Served, clients, logVars, loopVars, lockVars, pipeVars
<1>33. ASSUME NEW r \in Requests, SendInline(r)  PROVE  Progress'
  BY <1>33, <1>0
     DEF SendInline, Goes, SendMapped, SendFails, Domains, Progress,
         Served, clients, logVars, loopVars, lockVars, pipeVars
<1>34. ASSUME NEW r \in Requests, JoinNothing(r)  PROVE  Progress'
  BY <1>34, <1>0
     DEF JoinNothing, Goes, Domains, Progress, Served, clients, logVars,
         loopVars, lockVars, pipeVars
<1>35. ASSUME NEW r \in Requests, UnlockFile(r)  PROVE  Progress'
  BY <1>35, <1>0
     DEF UnlockFile, Goes, Thread, ReleaseLockf, Domains, Progress,
         Served, clients, logVars, loopVars, lockVars, pipeVars
<1>36. ASSUME NEW r \in Requests, CloseFile(r)  PROVE  Progress'
  BY <1>36, <1>0
     DEF CloseFile, Goes, CloseFd, Domains, Progress, Served, clients,
         logVars, loopVars, lockVars, pipeVars
<1>37. ASSUME NEW r \in Requests, CloseServedClient(r)  PROVE  Progress'
  <2>1. /\ pc[r] = "closeclient"
        /\ pc'[r] \in {"log", "clean"}
        /\ \A q \in Requests \ {r} : pc'[q] = pc[q]
        /\ UNCHANGED <<target, left, reply, type>>
    BY <1>37 DEF CloseServedClient, Goes, TypeOK, clients
  <2>2. /\ conn'[r] = "closed"
        /\ \A q \in Requests : conn[q] = "closed" => conn'[q] = "closed"
    BY <1>37, <2>1
       DEF CloseServedClient, CloseClient, TypeOK, Descriptors, OwnsConn
  <2> QED
    BY <2>1, <2>2 DEF Progress, Served
<1>38. ASSUME NEW r \in Requests, LogRequest(r)  PROVE  Progress'
  BY <1>38, <1>0
     DEF LogRequest, Goes, AL!Accept, Domains, Progress, Served,
         clients, logVars, loopVars, lockVars, pipeVars
<1>39. ASSUME NEW r \in Requests, CleanRequest(r)  PROVE  Progress'
  BY <1>39, <1>0
     DEF CleanRequest, Goes, CloseClient, ReleaseLockf, Domains,
         Progress, Served, clients, logVars, loopVars, lockVars,
         pipeVars
<1>40. ASSUME NEW r \in Requests, ThreadDies(r)  PROVE  Progress'
  BY <1>40, <1>0
     DEF ThreadDies, ServerEnds, SendFails, Sends, Dies, Thread,
         Domains, Progress, Served, clients, logVars, loopVars,
         lockVars, pipeVars
<1>41. ASSUME NEW r \in Requests, ChildDies(r)  PROVE  Progress'
  BY <1>41, <1>0
     DEF ChildDies, SendFails, Sends, Dies, Thread, CloseClient,
         ReleaseLockf, Domains, Progress, Served, clients, logVars,
         loopVars, lockVars, pipeVars
<1>42. CASE UNCHANGED vars
  BY <1>42
     DEF vars, Domains, Progress, Served, clients, logVars, loopVars,
         lockVars, pipeVars
<1> QED
  BY <1>1, <1>2, <1>3, <1>4, <1>5, <1>6, <1>7, <1>8, <1>9, <1>10, <1>11,
     <1>12, <1>13, <1>14, <1>15, <1>16, <1>17, <1>18, <1>19, <1>20, <1>21,
     <1>22, <1>23, <1>24, <1>25, <1>26, <1>27, <1>28, <1>29, <1>30, <1>31,
     <1>32, <1>33, <1>34, <1>35, <1>36, <1>37, <1>38, <1>39, <1>40, <1>41,
     <1>42
     DEF Next, MainStep, HandlerStep

\* A record tells of a handler that is past the log; what it did stays done.
LEMMA LoggedStep ==
  ASSUME TypeOK, Progress, Logged, [Next]_vars
  PROVE  Logged'
<1>0. /\ accepted \in Seq(Requests)
      /\ pc \in [Requests -> HandlerPC]
      /\ DOMAIN reply = Requests /\ DOMAIN conn = Requests
  BY DEF TypeOK
<1>1. CASE Reopen
  BY <1>1, <1>0
     DEF Reopen, LowestFree, Free, Logged, Served, clients, logVars,
         loopVars, lockVars, pipeVars
<1>2. CASE ReopenFails
  BY <1>2, <1>0
     DEF ReopenFails, ServerEnds, Thread, Logged, Served, clients,
         logVars, loopVars, lockVars, pipeVars
<1>3. CASE BeginReload
  BY <1>3, <1>0
     DEF BeginReload, Logged, Served, clients, logVars, loopVars,
         lockVars, pipeVars
<1>4. CASE LoggerWrites
  BY <1>4, <1>0
     DEF LoggerWrites, AL!Record, Logged, Served, clients, logVars,
         loopVars, lockVars, pipeVars
<1>5. ASSUME NEW r \in Requests, Connect(r)  PROVE  Logged'
  BY <1>5, <1>0
     DEF Connect, Logged, Served, clients, logVars, loopVars, lockVars,
         pipeVars
<1>6. ASSUME NEW r \in Requests, ClientLeaves(r)  PROVE  Logged'
  BY <1>6, <1>0
     DEF ClientLeaves, Logged, Served, clients, logVars, loopVars,
         lockVars, pipeVars
<1>7. ASSUME NEW r \in Requests, Accept(r)  PROVE  Logged'
  BY <1>7, <1>0
     DEF Accept, Goes, LowestFree, Free, Logged, Served, clients,
         logVars, loopVars, lockVars, pipeVars
<1>8. ASSUME NEW r \in Requests, Spawn(r)  PROVE  Logged'
  BY <1>8, <1>0
     DEF Spawn, Goes, Thread, Logged, Served, clients, logVars,
         loopVars, lockVars, pipeVars
<1>9. ASSUME NEW r \in Requests, SpawnFails(r)  PROVE  Logged'
  BY <1>9, <1>0
     DEF SpawnFails, Goes, Logged, Served, clients, logVars, loopVars,
         lockVars, pipeVars
<1>10. ASSUME NEW r \in Requests, ReadRequest(r)  PROVE  Logged'
  BY <1>10, <1>0
     DEF ReadRequest, SendFails, Logged, Served, clients, logVars,
         loopVars, lockVars, pipeVars
<1>11. ASSUME NEW r \in Requests, ReadNothing(r)  PROVE  Logged'
  BY <1>11, <1>0
     DEF ReadNothing, Goes, Logged, Served, clients, logVars, loopVars,
         lockVars, pipeVars
<1>12. ASSUME NEW r \in Requests, FileFound(r)  PROVE  Logged'
  BY <1>12, <1>0
     DEF FileFound, Goes, Logged, Served, clients, logVars, loopVars,
         lockVars, pipeVars
<1>13. ASSUME NEW r \in Requests, FileMissing(r)  PROVE  Logged'
  BY <1>13, <1>0
     DEF FileMissing, Goes, SendFails, Logged, Served, clients, logVars,
         loopVars, lockVars, pipeVars
<1>14. ASSUME NEW r \in Requests, OpenCommand(r)  PROVE  Logged'
  BY <1>14, <1>0
     DEF OpenCommand, Goes, OpenPipe, LowestFree, Free, Logged, Served,
         clients, logVars, loopVars, lockVars, pipeVars
<1>15. ASSUME NEW r \in Requests, OpenCommandFails(r)  PROVE  Logged'
  BY <1>15, <1>0
     DEF OpenCommandFails, Goes, Logged, Served, clients, logVars,
         loopVars, lockVars, pipeVars
<1>16. ASSUME NEW r \in Requests, StartCommand(r)  PROVE  Logged'
  BY <1>16, <1>0
     DEF StartCommand, Goes, Logged, Served, clients, logVars, loopVars,
         lockVars, pipeVars
<1>17. ASSUME NEW r \in Requests, GetCode(r)  PROVE  Logged'
  BY <1>17, <1>0
     DEF GetCode, Goes, InListing, Logged, Served, clients, logVars,
         loopVars, lockVars, pipeVars
<1>18. ASSUME NEW r \in Requests, ServeNothing(r)  PROVE  Logged'
  BY <1>18, <1>0
     DEF ServeNothing, Goes, Logged, Served, clients, logVars, loopVars,
         lockVars, pipeVars
<1>19. ASSUME NEW r \in Requests, OpenDirectory(r)  PROVE  Logged'
  BY <1>19, <1>0
     DEF OpenDirectory, Goes, OpenFd, LowestFree, Free, AfterEntries,
         Logged, Served, clients, logVars, loopVars, lockVars, pipeVars
<1>20. ASSUME NEW r \in Requests, OpenDirectoryFails(r)  PROVE  Logged'
  BY <1>20, <1>0
     DEF OpenDirectoryFails, Goes, Logged, Served, clients, logVars,
         loopVars, lockVars, pipeVars
<1>21. ASSUME NEW r \in Requests, SendLine(r)  PROVE  Logged'
  BY <1>21, <1>0
     DEF SendLine, Goes, AfterEntries, Logged, Served, clients, logVars,
         loopVars, lockVars, pipeVars
<1>22. ASSUME NEW r \in Requests, SendLineFails(r)  PROVE  Logged'
  BY <1>22, <1>0
     DEF SendLineFails, Goes, SendFails, Logged, Served, clients,
         logVars, loopVars, lockVars, pipeVars
<1>23. ASSUME NEW r \in Requests, CloseDirectory(r)  PROVE  Logged'
  BY <1>23, <1>0
     DEF CloseDirectory, Goes, CloseFd, Logged, Served, clients,
         logVars, loopVars, lockVars, pipeVars
<1>24. ASSUME NEW r \in Requests, ServeFile(r)  PROVE  Logged'
  BY <1>24, <1>0
     DEF ServeFile, Goes, Logged, Served, clients, logVars, loopVars,
         lockVars, pipeVars
<1>25. ASSUME NEW r \in Requests, OpenFile(r)  PROVE  Logged'
  BY <1>25, <1>0
     DEF OpenFile, Goes, OpenFd, LowestFree, Free, Logged, Served,
         clients, logVars, loopVars, lockVars, pipeVars
<1>26. ASSUME NEW r \in Requests, OpenFileFails(r)  PROVE  Logged'
  BY <1>26, <1>0
     DEF OpenFileFails, Goes, Logged, Served, clients, logVars,
         loopVars, lockVars, pipeVars
<1>27. ASSUME NEW r \in Requests, LockFile(r)  PROVE  Logged'
  BY <1>27, <1>0
     DEF LockFile, Goes, Thread, Logged, Served, clients, logVars,
         loopVars, lockVars, pipeVars
<1>28. ASSUME NEW r \in Requests, LockFileFails(r)  PROVE  Logged'
  BY <1>28, <1>0
     DEF LockFileFails, Goes, Logged, Served, clients, logVars,
         loopVars, lockVars, pipeVars
<1>29. ASSUME NEW r \in Requests, MapEmptyFile(r)  PROVE  Logged'
  BY <1>29, <1>0
     DEF MapEmptyFile, Goes, Logged, Served, clients, logVars, loopVars,
         lockVars, pipeVars
<1>30. ASSUME NEW r \in Requests, MapFails(r)  PROVE  Logged'
  BY <1>30, <1>0
     DEF MapFails, Goes, ReleaseLockf, CloseFd, Logged, Served, clients,
         logVars, loopVars, lockVars, pipeVars
<1>31. ASSUME NEW r \in Requests, MapFile(r)  PROVE  Logged'
  BY <1>31, <1>0
     DEF MapFile, Goes, Logged, Served, clients, logVars, loopVars,
         lockVars, pipeVars
<1>32. ASSUME NEW r \in Requests, SendFile(r)  PROVE  Logged'
  BY <1>32, <1>0
     DEF SendFile, Goes, SendMapped, SendFails, Logged, Served, clients,
         logVars, loopVars, lockVars, pipeVars
<1>33. ASSUME NEW r \in Requests, SendInline(r)  PROVE  Logged'
  BY <1>33, <1>0
     DEF SendInline, Goes, SendMapped, SendFails, Logged, Served,
         clients, logVars, loopVars, lockVars, pipeVars
<1>34. ASSUME NEW r \in Requests, JoinNothing(r)  PROVE  Logged'
  BY <1>34, <1>0
     DEF JoinNothing, Goes, Logged, Served, clients, logVars, loopVars,
         lockVars, pipeVars
<1>35. ASSUME NEW r \in Requests, UnlockFile(r)  PROVE  Logged'
  BY <1>35, <1>0
     DEF UnlockFile, Goes, Thread, ReleaseLockf, Logged, Served,
         clients, logVars, loopVars, lockVars, pipeVars
<1>36. ASSUME NEW r \in Requests, CloseFile(r)  PROVE  Logged'
  BY <1>36, <1>0
     DEF CloseFile, Goes, CloseFd, Logged, Served, clients, logVars,
         loopVars, lockVars, pipeVars
<1>37. ASSUME NEW r \in Requests, CloseServedClient(r)  PROVE  Logged'
  BY <1>37, <1>0
     DEF CloseServedClient, Goes, CloseClient, Logged, Served, clients,
         logVars, loopVars, lockVars, pipeVars
<1>38. ASSUME NEW r \in Requests, LogRequest(r)  PROVE  Logged'
  <2>1. /\ pc[r] = "log" /\ pc' = [pc EXCEPT ![r] = "clean"]
        /\ accepted' = Append(accepted, r)
        /\ UNCHANGED <<target, left, reply, conn>>
    BY <1>38 DEF LogRequest, Goes, AL!Accept, clients
  <2>2. Served(r) /\ \A q \in Requests : Served(q) <=> Served(q)'
    BY <2>1 DEF Served, Progress
  <2>3. accepted \in Seq(Requests) /\ Len(accepted') = Len(accepted) + 1
    BY <2>1 DEF TypeOK
  <2>4. ASSUME NEW i \in 1..Len(accepted')
        PROVE  (pc[accepted[i]] \in {"clean", "done", "killed"}
                /\ Served(accepted[i]))'
    <3>1. CASE i = Len(accepted')
      <4>1. accepted'[i] = r
        BY <2>1, <2>3, <3>1
      <4> QED
        BY <2>1, <2>2, <4>1 DEF TypeOK, Served
    <3>2. CASE i \in 1..Len(accepted)
      <4>1. accepted'[i] = accepted[i] /\ accepted[i] \in Requests
        BY <2>1, <2>3, <3>2
      <4>2. /\ pc[accepted[i]] \in {"clean", "done", "killed"}
            /\ Served(accepted[i])
        BY <3>2 DEF Logged
      <4> QED
        BY <2>1, <2>2, <4>1, <4>2 DEF TypeOK, Served
    <3> QED
      BY <2>3, <3>1, <3>2
  <2> QED
    BY <2>4 DEF Logged
<1>39. ASSUME NEW r \in Requests, CleanRequest(r)  PROVE  Logged'
  BY <1>39, <1>0
     DEF CleanRequest, Goes, CloseClient, ReleaseLockf, Logged, Served,
         clients, logVars, loopVars, lockVars, pipeVars
<1>40. ASSUME NEW r \in Requests, ThreadDies(r)  PROVE  Logged'
  BY <1>40, <1>0
     DEF ThreadDies, ServerEnds, SendFails, Sends, Dies, Thread, Logged,
         Served, clients, logVars, loopVars, lockVars, pipeVars
<1>41. ASSUME NEW r \in Requests, ChildDies(r)  PROVE  Logged'
  BY <1>41, <1>0
     DEF ChildDies, SendFails, Sends, Dies, Thread, CloseClient,
         ReleaseLockf, Logged, Served, clients, logVars, loopVars,
         lockVars, pipeVars
<1>42. CASE UNCHANGED vars
  BY <1>42
     DEF vars, Logged, Served, clients, logVars, loopVars, lockVars,
         pipeVars
<1> QED
  BY <1>1, <1>2, <1>3, <1>4, <1>5, <1>6, <1>7, <1>8, <1>9, <1>10, <1>11,
     <1>12, <1>13, <1>14, <1>15, <1>16, <1>17, <1>18, <1>19, <1>20, <1>21,
     <1>22, <1>23, <1>24, <1>25, <1>26, <1>27, <1>28, <1>29, <1>30, <1>31,
     <1>32, <1>33, <1>34, <1>35, <1>36, <1>37, <1>38, <1>39, <1>40, <1>41,
     <1>42
     DEF Next, MainStep, HandlerStep


\* The way to the log is only left with the record handed over.
LEMMA SentStep ==
  ASSUME TypeOK, Progress, SentFiles, [Next]_vars
  PROVE  SentFiles'
<1>0. Domains
  BY DEF TypeOK, Domains
<1>1. CASE Reopen
  BY <1>1, <1>0
     DEF Reopen, LowestFree, Free, Domains, SentFiles, clients, logVars,
         loopVars, lockVars, pipeVars
<1>2. CASE ReopenFails
  BY <1>2, <1>0
     DEF ReopenFails, ServerEnds, Thread, Domains, SentFiles, clients,
         logVars, loopVars, lockVars, pipeVars
<1>3. CASE BeginReload
  BY <1>3, <1>0
     DEF BeginReload, Domains, SentFiles, clients, logVars, loopVars,
         lockVars, pipeVars
<1>4. CASE LoggerWrites
  BY <1>4, <1>0
     DEF LoggerWrites, AL!Record, Domains, SentFiles, clients, logVars,
         loopVars, lockVars, pipeVars
<1>5. ASSUME NEW r \in Requests, Connect(r)  PROVE  SentFiles'
  BY <1>5, <1>0
     DEF Connect, Domains, SentFiles, clients, logVars, loopVars,
         lockVars, pipeVars
<1>6. ASSUME NEW r \in Requests, ClientLeaves(r)  PROVE  SentFiles'
  BY <1>6, <1>0
     DEF ClientLeaves, Domains, SentFiles, clients, logVars, loopVars,
         lockVars, pipeVars
<1>7. ASSUME NEW r \in Requests, Accept(r)  PROVE  SentFiles'
  BY <1>7, <1>0
     DEF Accept, Goes, LowestFree, Free, Domains, SentFiles, clients,
         logVars, loopVars, lockVars, pipeVars
<1>8. ASSUME NEW r \in Requests, Spawn(r)  PROVE  SentFiles'
  BY <1>8, <1>0
     DEF Spawn, Goes, Thread, Domains, SentFiles, clients, logVars,
         loopVars, lockVars, pipeVars
<1>9. ASSUME NEW r \in Requests, SpawnFails(r)  PROVE  SentFiles'
  BY <1>9, <1>0
     DEF SpawnFails, Goes, Domains, SentFiles, clients, logVars,
         loopVars, lockVars, pipeVars
<1>10. ASSUME NEW r \in Requests, ReadRequest(r)  PROVE  SentFiles'
  BY <1>10, <1>0
     DEF ReadRequest, SendFails, Domains, SentFiles, clients, logVars,
         loopVars, lockVars, pipeVars
<1>11. ASSUME NEW r \in Requests, ReadNothing(r)  PROVE  SentFiles'
  BY <1>11, <1>0
     DEF ReadNothing, Goes, Domains, SentFiles, clients, logVars,
         loopVars, lockVars, pipeVars
<1>12. ASSUME NEW r \in Requests, FileFound(r)  PROVE  SentFiles'
  BY <1>12, <1>0
     DEF FileFound, Goes, Domains, SentFiles, clients, logVars,
         loopVars, lockVars, pipeVars
<1>13. ASSUME NEW r \in Requests, FileMissing(r)  PROVE  SentFiles'
  BY <1>13, <1>0
     DEF FileMissing, Goes, SendFails, Domains, SentFiles, clients,
         logVars, loopVars, lockVars, pipeVars
<1>14. ASSUME NEW r \in Requests, OpenCommand(r)  PROVE  SentFiles'
  BY <1>14, <1>0
     DEF OpenCommand, Goes, OpenPipe, LowestFree, Free, Domains,
         SentFiles, clients, logVars, loopVars, lockVars, pipeVars
<1>15. ASSUME NEW r \in Requests, OpenCommandFails(r)  PROVE  SentFiles'
  BY <1>15, <1>0
     DEF OpenCommandFails, Goes, Domains, SentFiles, clients, logVars,
         loopVars, lockVars, pipeVars
<1>16. ASSUME NEW r \in Requests, StartCommand(r)  PROVE  SentFiles'
  BY <1>16, <1>0
     DEF StartCommand, Goes, Domains, SentFiles, clients, logVars,
         loopVars, lockVars, pipeVars
<1>17. ASSUME NEW r \in Requests, GetCode(r)  PROVE  SentFiles'
  BY <1>17, <1>0
     DEF GetCode, Goes, InListing, Domains, SentFiles, clients, logVars,
         loopVars, lockVars, pipeVars
<1>18. ASSUME NEW r \in Requests, ServeNothing(r)  PROVE  SentFiles'
  BY <1>18, <1>0
     DEF ServeNothing, Goes, Domains, SentFiles, clients, logVars,
         loopVars, lockVars, pipeVars
<1>19. ASSUME NEW r \in Requests, OpenDirectory(r)  PROVE  SentFiles'
  BY <1>19, <1>0
     DEF OpenDirectory, Goes, OpenFd, LowestFree, Free, AfterEntries,
         Domains, SentFiles, clients, logVars, loopVars, lockVars,
         pipeVars
<1>20. ASSUME NEW r \in Requests, OpenDirectoryFails(r)  PROVE  SentFiles'
  BY <1>20, <1>0
     DEF OpenDirectoryFails, Goes, Domains, SentFiles, clients, logVars,
         loopVars, lockVars, pipeVars
<1>21. ASSUME NEW r \in Requests, SendLine(r)  PROVE  SentFiles'
  BY <1>21, <1>0
     DEF SendLine, Goes, AfterEntries, Domains, SentFiles, clients,
         logVars, loopVars, lockVars, pipeVars
<1>22. ASSUME NEW r \in Requests, SendLineFails(r)  PROVE  SentFiles'
  BY <1>22, <1>0
     DEF SendLineFails, Goes, SendFails, Domains, SentFiles, clients,
         logVars, loopVars, lockVars, pipeVars
<1>23. ASSUME NEW r \in Requests, CloseDirectory(r)  PROVE  SentFiles'
  BY <1>23, <1>0
     DEF CloseDirectory, Goes, CloseFd, Domains, SentFiles, clients,
         logVars, loopVars, lockVars, pipeVars
<1>24. ASSUME NEW r \in Requests, ServeFile(r)  PROVE  SentFiles'
  BY <1>24, <1>0
     DEF ServeFile, Goes, Domains, SentFiles, clients, logVars,
         loopVars, lockVars, pipeVars
<1>25. ASSUME NEW r \in Requests, OpenFile(r)  PROVE  SentFiles'
  BY <1>25, <1>0
     DEF OpenFile, Goes, OpenFd, LowestFree, Free, Domains, SentFiles,
         clients, logVars, loopVars, lockVars, pipeVars
<1>26. ASSUME NEW r \in Requests, OpenFileFails(r)  PROVE  SentFiles'
  BY <1>26, <1>0
     DEF OpenFileFails, Goes, Domains, SentFiles, clients, logVars,
         loopVars, lockVars, pipeVars
<1>27. ASSUME NEW r \in Requests, LockFile(r)  PROVE  SentFiles'
  BY <1>27, <1>0
     DEF LockFile, Goes, Thread, Domains, SentFiles, clients, logVars,
         loopVars, lockVars, pipeVars
<1>28. ASSUME NEW r \in Requests, LockFileFails(r)  PROVE  SentFiles'
  BY <1>28, <1>0
     DEF LockFileFails, Goes, Domains, SentFiles, clients, logVars,
         loopVars, lockVars, pipeVars
<1>29. ASSUME NEW r \in Requests, MapEmptyFile(r)  PROVE  SentFiles'
  BY <1>29, <1>0
     DEF MapEmptyFile, Goes, Domains, SentFiles, clients, logVars,
         loopVars, lockVars, pipeVars
<1>30. ASSUME NEW r \in Requests, MapFails(r)  PROVE  SentFiles'
  BY <1>30, <1>0
     DEF MapFails, Goes, ReleaseLockf, CloseFd, Domains, SentFiles,
         clients, logVars, loopVars, lockVars, pipeVars
<1>31. ASSUME NEW r \in Requests, MapFile(r)  PROVE  SentFiles'
  BY <1>31, <1>0
     DEF MapFile, Goes, Domains, SentFiles, clients, logVars, loopVars,
         lockVars, pipeVars
<1>32. ASSUME NEW r \in Requests, SendFile(r)  PROVE  SentFiles'
  BY <1>32, <1>0
     DEF SendFile, Goes, SendMapped, SendFails, Domains, SentFiles,
         clients, logVars, loopVars, lockVars, pipeVars
<1>33. ASSUME NEW r \in Requests, SendInline(r)  PROVE  SentFiles'
  BY <1>33, <1>0
     DEF SendInline, Goes, SendMapped, SendFails, Domains, SentFiles,
         clients, logVars, loopVars, lockVars, pipeVars
<1>34. ASSUME NEW r \in Requests, JoinNothing(r)  PROVE  SentFiles'
  BY <1>34, <1>0
     DEF JoinNothing, Goes, Domains, SentFiles, clients, logVars,
         loopVars, lockVars, pipeVars
<1>35. ASSUME NEW r \in Requests, UnlockFile(r)  PROVE  SentFiles'
  BY <1>35, <1>0
     DEF UnlockFile, Goes, Thread, ReleaseLockf, Domains, SentFiles,
         clients, logVars, loopVars, lockVars, pipeVars
<1>36. ASSUME NEW r \in Requests, CloseFile(r)  PROVE  SentFiles'
  BY <1>36, <1>0
     DEF CloseFile, Goes, CloseFd, Domains, SentFiles, clients, logVars,
         loopVars, lockVars, pipeVars
<1>37. ASSUME NEW r \in Requests, CloseServedClient(r)  PROVE  SentFiles'
  BY <1>37, <1>0
     DEF CloseServedClient, Goes, CloseClient, Domains, SentFiles,
         Progress, clients, logVars, loopVars, lockVars, pipeVars
<1>38. ASSUME NEW r \in Requests, LogRequest(r)  PROVE  SentFiles'
  <2>1. /\ pc[r] = "log" /\ pc' = [pc EXCEPT ![r] = "clean"]
        /\ accepted' = Append(accepted, r)
        /\ reply' = reply
    BY <1>38 DEF LogRequest, Goes, AL!Accept
  <2>2. accepted \in Seq(Requests) /\ Len(accepted) \in Nat
    BY DEF TypeOK
  <2>3. /\ Len(accepted') = Len(accepted) + 1
        /\ accepted'[Len(accepted')] = r
        /\ \A i \in 1..Len(accepted) : accepted'[i] = accepted[i]
    BY <2>1, <2>2
  <2>4. ASSUME NEW q \in Requests, reply'[q] = "file"
        PROVE  \/ pc'[q] \in {"join", "unlock", "closefile", "closeclient",
                              "log", "killed"}
               \/ \E i \in 1..Len(accepted') : accepted'[i] = q
    <3>1. CASE q = r
      <4>1. Len(accepted') \in 1..Len(accepted')
        BY <2>2, <2>3
      <4> QED
        BY <2>3, <3>1, <4>1
    <3>2. CASE q # r
      <4>1. pc'[q] = pc[q]
        BY <2>1, <3>2 DEF TypeOK
      <4>2. CASE \E i \in 1..Len(accepted) : accepted[i] = q
        BY <2>2, <2>3, <4>2
      <4> QED
        BY <2>1, <2>4, <4>1, <4>2 DEF SentFiles
    <3> QED
      BY <3>1, <3>2
  <2> QED
    BY <2>4 DEF SentFiles
<1>39. ASSUME NEW r \in Requests, CleanRequest(r)  PROVE  SentFiles'
  BY <1>39, <1>0
     DEF CleanRequest, Goes, CloseClient, ReleaseLockf, Domains,
         SentFiles, clients, logVars, loopVars, lockVars, pipeVars
<1>40. ASSUME NEW r \in Requests, ThreadDies(r)  PROVE  SentFiles'
  BY <1>40, <1>0
     DEF ThreadDies, ServerEnds, SendFails, Sends, Dies, Thread,
         Domains, SentFiles, clients, logVars, loopVars, lockVars,
         pipeVars
<1>41. ASSUME NEW r \in Requests, ChildDies(r)  PROVE  SentFiles'
  BY <1>41, <1>0
     DEF ChildDies, SendFails, Sends, Dies, Thread, CloseClient,
         ReleaseLockf, Domains, SentFiles, clients, logVars, loopVars,
         lockVars, pipeVars
<1>42. CASE UNCHANGED vars
  BY <1>42
     DEF vars, Domains, SentFiles, clients, logVars, loopVars, lockVars,
         pipeVars
<1> QED
  BY <1>1, <1>2, <1>3, <1>4, <1>5, <1>6, <1>7, <1>8, <1>9, <1>10, <1>11,
     <1>12, <1>13, <1>14, <1>15, <1>16, <1>17, <1>18, <1>19, <1>20, <1>21,
     <1>22, <1>23, <1>24, <1>25, <1>26, <1>27, <1>28, <1>29, <1>30, <1>31,
     <1>32, <1>33, <1>34, <1>35, <1>36, <1>37, <1>38, <1>39, <1>40, <1>41,
     <1>42
     DEF Next, MainStep, HandlerStep

-----------------------------------------------------------------------------
(* Theorems *)

LEMMA InitInv == Init => Inv
  BY ServerAssumption, ObjectsType
     DEF Init, AL!Init, Inv, TypeOK, Descriptors, TypeRequest, Locks,
         Progress, Logged, SentFiles, OwnsConn, OwnsFile, HandlerPC, Modes, Fd

\* The invariant that carries every result below.
THEOREM Invariance == Spec => []Inv
<1>1. Inv /\ [Next]_vars => Inv'
  BY TypeStep, TypeRequestStep, LocksStep, DescriptorsStep, ProgressStep,
     LoggedStep, SentStep
     DEF Inv
<1> QED
  BY InitInv, <1>1, PTL DEF Spec

\* Every variable keeps its type; no handler works with a number that is not a
\* descriptor.
THEOREM TypeCorrect == Spec => []TypeOK
<1>1. Inv => TypeOK
  BY DEF Inv
<1> QED
  BY <1>1, Invariance, PTL

\* No close(), shutdown() or send() of a thread hits what another opened,
\* however numbers are given out again.
THEOREM OwnDescriptors == Spec => []HandlersUseTheirOwn
<1>1. Inv => HandlersUseTheirOwn
  BY DEF Inv, TypeOK, HandlerPC, Descriptors, OwnsConn, OwnsFile,
         HandlersUseTheirOwn, InListing
<1> QED
  BY <1>1, Invariance, PTL

\* Two threads never send a mapped file at once, two children never the same.
THEOREM OneSenderPerLock == Spec => []OneSender
<1>1. Inv => OneSender
  BY DEF Inv, Locks, OneSender, Thread, TypeOK, Modes
<1> QED
  BY <1>1, Invariance, PTL

\* The log tells of files that have been sent, on connections that are closed.
THEOREM LogTellsTheTruth == Spec => []LoggedAfterService
<1>1. Inv => LoggedAfterService
  BY DEF Inv, TypeOK, Logged, Served, LoggedAfterService
<1> QED
  BY <1>1, Invariance, PTL

\* No file is sent whole and left out of the log.
THEOREM LogIsComplete == Spec => []ServedIsLogged
<1>1. Inv => ServedIsLogged
  BY DEF Inv, SentFiles, ServedIsLogged
<1> QED
  BY <1>1, Invariance, PTL

\* A step that ends a connection is a step of its handler, or ends the server.
LEMMA ClosingStep ==
  ASSUME Inv, [Next]_vars
  PROVE  \A q \in Requests :
           conn[q] = "open" /\ conn'[q] = "closed"
             => pc'[q] # pc[q] \/ main' = "dead"
<1> DEFINE Goal == \A q \in Requests :
                     conn[q] = "open" /\ conn'[q] = "closed"
                       => pc'[q] # pc[q] \/ main' = "dead"
<1> USE Distinct
<1>0. Domains
  BY DEF Inv, TypeOK, Domains
<1>1. CASE Reopen
  BY <1>1, <1>0
     DEF Reopen, LowestFree, Free, Domains, clients, logVars, loopVars,
         lockVars, pipeVars
<1>2. CASE ReopenFails
  BY <1>2, <1>0
     DEF ReopenFails, ServerEnds, Thread, Domains, clients, logVars,
         loopVars, lockVars, pipeVars
<1>3. CASE BeginReload
  BY <1>3, <1>0
     DEF BeginReload, Domains, clients, logVars, loopVars, lockVars,
         pipeVars
<1>4. CASE LoggerWrites
  BY <1>4, <1>0
     DEF LoggerWrites, AL!Record, Domains, clients, logVars, loopVars,
         lockVars, pipeVars
<1>5. ASSUME NEW r \in Requests, Connect(r)  PROVE  Goal
  BY <1>5, <1>0
     DEF Connect, Domains, clients, logVars, loopVars, lockVars,
         pipeVars
<1>6. ASSUME NEW r \in Requests, ClientLeaves(r)  PROVE  Goal
  BY <1>6, <1>0
     DEF ClientLeaves, Domains, clients, logVars, loopVars, lockVars,
         pipeVars
<1>7. ASSUME NEW r \in Requests, Accept(r)  PROVE  Goal
  BY <1>7, <1>0
     DEF Accept, Goes, LowestFree, Free, Domains, clients, logVars,
         loopVars, lockVars, pipeVars
<1>8. ASSUME NEW r \in Requests, Spawn(r)  PROVE  Goal
  BY <1>8, <1>0
     DEF Spawn, Goes, Thread, Domains, clients, logVars, loopVars,
         lockVars, pipeVars
<1>9. ASSUME NEW r \in Requests, SpawnFails(r)  PROVE  Goal
  BY <1>9, <1>0
     DEF SpawnFails, Goes, Domains, clients, logVars, loopVars,
         lockVars, pipeVars
<1>10. ASSUME NEW r \in Requests, ReadRequest(r)  PROVE  Goal
  BY <1>10, <1>0
     DEF ReadRequest, SendFails, Domains, clients, logVars, loopVars,
         lockVars, pipeVars
<1>11. ASSUME NEW r \in Requests, ReadNothing(r)  PROVE  Goal
  BY <1>11, <1>0
     DEF ReadNothing, Goes, Domains, clients, logVars, loopVars,
         lockVars, pipeVars
<1>12. ASSUME NEW r \in Requests, FileFound(r)  PROVE  Goal
  BY <1>12, <1>0
     DEF FileFound, Goes, Domains, clients, logVars, loopVars, lockVars,
         pipeVars
<1>13. ASSUME NEW r \in Requests, FileMissing(r)  PROVE  Goal
  BY <1>13, <1>0
     DEF FileMissing, Goes, SendFails, Domains, clients, logVars,
         loopVars, lockVars, pipeVars
<1>14. ASSUME NEW r \in Requests, OpenCommand(r)  PROVE  Goal
  BY <1>14, <1>0
     DEF OpenCommand, Goes, OpenPipe, LowestFree, Free, Domains,
         clients, logVars, loopVars, lockVars, pipeVars
<1>15. ASSUME NEW r \in Requests, OpenCommandFails(r)  PROVE  Goal
  BY <1>15, <1>0
     DEF OpenCommandFails, Goes, Domains, clients, logVars, loopVars,
         lockVars, pipeVars
<1>16. ASSUME NEW r \in Requests, StartCommand(r)  PROVE  Goal
  BY <1>16, <1>0
     DEF StartCommand, Goes, Domains, clients, logVars, loopVars,
         lockVars, pipeVars
<1>17. ASSUME NEW r \in Requests, GetCode(r)  PROVE  Goal
  BY <1>17, <1>0
     DEF GetCode, Goes, InListing, Domains, clients, logVars, loopVars,
         lockVars, pipeVars
<1>18. ASSUME NEW r \in Requests, ServeNothing(r)  PROVE  Goal
  BY <1>18, <1>0
     DEF ServeNothing, Goes, Domains, clients, logVars, loopVars,
         lockVars, pipeVars
<1>19. ASSUME NEW r \in Requests, OpenDirectory(r)  PROVE  Goal
  BY <1>19, <1>0
     DEF OpenDirectory, Goes, OpenFd, LowestFree, Free, AfterEntries,
         Domains, clients, logVars, loopVars, lockVars, pipeVars
<1>20. ASSUME NEW r \in Requests, OpenDirectoryFails(r)  PROVE  Goal
  BY <1>20, <1>0
     DEF OpenDirectoryFails, Goes, Domains, clients, logVars, loopVars,
         lockVars, pipeVars
<1>21. ASSUME NEW r \in Requests, SendLine(r)  PROVE  Goal
  BY <1>21, <1>0
     DEF SendLine, Goes, AfterEntries, Domains, clients, logVars,
         loopVars, lockVars, pipeVars
<1>22. ASSUME NEW r \in Requests, SendLineFails(r)  PROVE  Goal
  BY <1>22, <1>0
     DEF SendLineFails, Goes, SendFails, Domains, clients, logVars,
         loopVars, lockVars, pipeVars
<1>23. ASSUME NEW r \in Requests, CloseDirectory(r)  PROVE  Goal
  BY <1>23, <1>0
     DEF CloseDirectory, Goes, CloseFd, Domains, clients, logVars,
         loopVars, lockVars, pipeVars
<1>24. ASSUME NEW r \in Requests, ServeFile(r)  PROVE  Goal
  BY <1>24, <1>0
     DEF ServeFile, Goes, Domains, clients, logVars, loopVars, lockVars,
         pipeVars
<1>25. ASSUME NEW r \in Requests, OpenFile(r)  PROVE  Goal
  BY <1>25, <1>0
     DEF OpenFile, Goes, OpenFd, LowestFree, Free, Domains, clients,
         logVars, loopVars, lockVars, pipeVars
<1>26. ASSUME NEW r \in Requests, OpenFileFails(r)  PROVE  Goal
  BY <1>26, <1>0
     DEF OpenFileFails, Goes, Domains, clients, logVars, loopVars,
         lockVars, pipeVars
<1>27. ASSUME NEW r \in Requests, LockFile(r)  PROVE  Goal
  BY <1>27, <1>0
     DEF LockFile, Goes, Thread, Domains, clients, logVars, loopVars,
         lockVars, pipeVars
<1>28. ASSUME NEW r \in Requests, LockFileFails(r)  PROVE  Goal
  BY <1>28, <1>0
     DEF LockFileFails, Goes, Domains, clients, logVars, loopVars,
         lockVars, pipeVars
<1>29. ASSUME NEW r \in Requests, MapEmptyFile(r)  PROVE  Goal
  BY <1>29, <1>0
     DEF MapEmptyFile, Goes, Domains, clients, logVars, loopVars,
         lockVars, pipeVars
<1>30. ASSUME NEW r \in Requests, MapFails(r)  PROVE  Goal
  BY <1>30, <1>0
     DEF MapFails, Goes, ReleaseLockf, CloseFd, Domains, clients,
         logVars, loopVars, lockVars, pipeVars
<1>31. ASSUME NEW r \in Requests, MapFile(r)  PROVE  Goal
  BY <1>31, <1>0
     DEF MapFile, Goes, Domains, clients, logVars, loopVars, lockVars,
         pipeVars
<1>32. ASSUME NEW r \in Requests, SendFile(r)  PROVE  Goal
  BY <1>32, <1>0
     DEF SendFile, Goes, SendMapped, SendFails, Domains, clients,
         logVars, loopVars, lockVars, pipeVars
<1>33. ASSUME NEW r \in Requests, SendInline(r)  PROVE  Goal
  BY <1>33, <1>0
     DEF SendInline, Goes, SendMapped, SendFails, Domains, clients,
         logVars, loopVars, lockVars, pipeVars
<1>34. ASSUME NEW r \in Requests, JoinNothing(r)  PROVE  Goal
  BY <1>34, <1>0
     DEF JoinNothing, Goes, Domains, clients, logVars, loopVars,
         lockVars, pipeVars
<1>35. ASSUME NEW r \in Requests, UnlockFile(r)  PROVE  Goal
  BY <1>35, <1>0
     DEF UnlockFile, Goes, Thread, ReleaseLockf, Domains, clients,
         logVars, loopVars, lockVars, pipeVars
<1>36. ASSUME NEW r \in Requests, CloseFile(r)  PROVE  Goal
  BY <1>36, <1>0
     DEF CloseFile, Goes, CloseFd, Domains, clients, logVars, loopVars,
         lockVars, pipeVars
<1>37. ASSUME NEW r \in Requests, CloseServedClient(r)  PROVE  Goal
  BY <1>37, <1>0
     DEF CloseServedClient, Goes, CloseClient, Domains, Inv,
         TypeRequest, Descriptors, OwnsConn, Thread, clients, logVars,
         loopVars, lockVars, pipeVars
<1>38. ASSUME NEW r \in Requests, LogRequest(r)  PROVE  Goal
  BY <1>38, <1>0
     DEF LogRequest, Goes, AL!Accept, Domains, clients, logVars,
         loopVars, lockVars, pipeVars
<1>39. ASSUME NEW r \in Requests, CleanRequest(r)  PROVE  Goal
  BY <1>39, <1>0
     DEF CleanRequest, Goes, CloseClient, ReleaseLockf, Domains, Inv,
         TypeRequest, Descriptors, OwnsConn, Thread, clients, logVars,
         loopVars, lockVars, pipeVars
<1>40. ASSUME NEW r \in Requests, ThreadDies(r)  PROVE  Goal
  BY <1>40, <1>0
     DEF ThreadDies, ServerEnds, SendFails, Sends, Dies, Thread,
         Domains, clients, logVars, loopVars, lockVars, pipeVars
<1>41. ASSUME NEW r \in Requests, ChildDies(r)  PROVE  Goal
  BY <1>41, <1>0
     DEF ChildDies, SendFails, Sends, Dies, Thread, CloseClient,
         ReleaseLockf, Domains, clients, logVars, loopVars, lockVars,
         pipeVars
<1>42. CASE UNCHANGED vars
  BY <1>42
     DEF vars, Domains, clients, logVars, loopVars, lockVars, pipeVars
<1> QED
  BY <1>1, <1>2, <1>3, <1>4, <1>5, <1>6, <1>7, <1>8, <1>9, <1>10, <1>11,
     <1>12, <1>13, <1>14, <1>15, <1>16, <1>17, <1>18, <1>19, <1>20, <1>21,
     <1>22, <1>23, <1>24, <1>25, <1>26, <1>27, <1>28, <1>29, <1>30, <1>31,
     <1>32, <1>33, <1>34, <1>35, <1>36, <1>37, <1>38, <1>39, <1>40, <1>41,
     <1>42
     DEF Next, MainStep, HandlerStep

\* A connection is only ever ended by its own handler, or with the server.
THEOREM NobodyElseCloses == Spec => OnlyTheHandlerCloses
<1>1. Inv /\ [Next]_vars
        => [\A r \in Requests :
              conn[r] = "open" /\ conn'[r] = "closed"
                => pc'[r] # pc[r] \/ main' = "dead"]_vars
  BY ClosingStep
<1> QED
  BY <1>1, Invariance, PTL DEF Spec, OnlyTheHandlerCloses

-----------------------------------------------------------------------------
(* The descriptor table, counted *)

\* What each number of the table refers to: the listening socket, what was left
\* open before, or the connection, the file or the pipe of a handler that kept
\* the number.
Table ==
  /\ \A n \in Fd :
       \/ fdt[n] \in {Unused, Listener}
       \/ fdt[n] = Conn(NoOne) /\ n \in 2..(Leftover + 1)
       \/ \E r \in Requests : fdt[n] \in {Conn(r), File(r), Pipe(r)}
  /\ \A n \in Fd, r \in Requests :
       /\ fdt[n] = Conn(r) => cfd[r] = n /\ pc[r] # "none"
       /\ fdt[n] = File(r) =>
            /\ ffd[r] = n
            /\ pc[r] \notin {"none", "accepted", "read", "stat", "serve",
                             "open"}
            /\ pc[r] \in {"code", "pipe", "type"} => type[r] = 1
       /\ fdt[n] = Pipe(r) =>
            /\ Thread(r)
            /\ \/ pc[r] \in {"pipe", "type", "killed"} /\ rfd[r] = n
               \/ pc[r] \in {"pipe", "killed"} /\ wfd[r] = n
  /\ \A m, n \in Fd : fdt[m] = Listener /\ fdt[n] = Listener => m = n
  /\ main = "reopen" => \A n \in Fd : fdt[n] # Listener

\* As many numbers as are enough for every request at once: the listening
\* socket, what was left open before, and for each request its connection, its
\* file or directory, and both ends of the pipe of popen(), which a handler
\* holds beside those of the others.
EnoughDescriptors ==
  /\ IsFiniteSet(Requests)
  /\ MaxFd >= Leftover + 4 * Cardinality(Requests) + 1

\* Who is about to take descriptors finds them.
RoomForAll ==
  /\ main = "reopen" => Free # {}
  /\ \A r \in Requests : pc[r] \in {"none", "code", "serve", "open"}
                           => Cardinality(Free) >= 2

\* As many numbers as there are requests, at most.
LEMMA ImageOfRequests ==
  ASSUME IsFiniteSet(Requests), NEW S \in SUBSET Requests,
         NEW f, f \in [Requests -> 0..MaxFd]
  PROVE  /\ IsFiniteSet({f[r] : r \in S})
         /\ Cardinality({f[r] : r \in S}) \in Nat
         /\ Cardinality({f[r] : r \in S}) <= Cardinality(S)
<1> DEFINE T == {f[r] : r \in S}
<1>1. [r \in S |-> f[r]] \in Surjection(S, T)
  BY DEF Surjection
<1>2. IsFiniteSet(S)
  BY FS_Subset
<1>3. IsFiniteSet(T) /\ Cardinality(T) <= Cardinality(S)
  BY <1>1, <1>2, FS_Surjection
<1> QED
  BY <1>3, FS_CardinalityType

\* The elements of a union, at most.
LEMMA UnionBound ==
  ASSUME NEW S, NEW T, IsFiniteSet(S), IsFiniteSet(T)
  PROVE  /\ IsFiniteSet(S \cup T)
         /\ Cardinality(S \cup T) \in Nat
         /\ Cardinality(S \cup T) <= Cardinality(S) + Cardinality(T)
<1>1. IsFiniteSet(S \cap T)
  BY FS_Subset, S \cap T \in SUBSET S
<1>2. /\ Cardinality(S) \in Nat
      /\ Cardinality(T) \in Nat
      /\ Cardinality(S \cap T) \in Nat
  BY <1>1, FS_CardinalityType
<1>3. /\ IsFiniteSet(S \cup T)
      /\ Cardinality(S \cup T)
           = Cardinality(S) + Cardinality(T) - Cardinality(S \cap T)
  BY FS_Union
<1>4. Cardinality(S \cup T) \in Nat
  BY <1>3, FS_CardinalityType
<1> QED
  BY <1>2, <1>3, <1>4

\* As many numbers as the table has, and as many as were left open before.
LEMMA TableSize ==
  /\ IsFiniteSet(Fd) /\ Cardinality(Fd) = MaxFd
  /\ IsFiniteSet(2..(Leftover + 1))
  /\ Cardinality(2..(Leftover + 1)) = Leftover
<1>1. MaxFd \in Nat \ {0} /\ Leftover \in Nat
  BY ServerAssumption
<1>2. IsFiniteSet(1..MaxFd) /\ Cardinality(1..MaxFd) = MaxFd
  BY <1>1, FS_Interval
<1> QED
  BY <1>1, <1>2, FS_Interval DEF Fd

\* What is free, if only the requests of P have pipes and at most L numbers
\* refer to the listening socket.
LEMMA CountFree ==
  ASSUME IsFiniteSet(Requests), TypeOK, Table, NEW L \in Nat,
         NEW P \in SUBSET Requests,
         \A n \in Fd, r \in Requests : fdt[n] = Pipe(r) => r \in P,
         IsFiniteSet({n \in Fd : fdt[n] = Listener}),
         Cardinality({n \in Fd : fdt[n] = Listener}) <= L
  PROVE  /\ Cardinality(Free) \in Nat
         /\ Cardinality(Free) + Leftover + L + 2 * Cardinality(Requests)
              + 2 * Cardinality(P) >= MaxFd
<1> DEFINE Conns == {cfd[r] : r \in Requests}
           Opened == {ffd[r] : r \in Requests}
           Reads == {rfd[r] : r \in P}
           Writes == {wfd[r] : r \in P}
           Old == 2..(Leftover + 1)
           Listening == {n \in Fd : fdt[n] = Listener}
           Used == ((((Listening \cup Old) \cup Conns) \cup Opened)
                       \cup Reads) \cup Writes
           K == Cardinality(Requests)
           J == Cardinality(P)
<1>0. \A f \in {cfd, ffd, rfd, wfd} : f \in [Requests -> 0..MaxFd]
  BY DEF TypeOK
<1>1. /\ IsFiniteSet(Requests) /\ K \in Nat /\ J \in Nat
      /\ MaxFd \in Nat /\ Leftover \in Nat
  BY ServerAssumption, FS_CardinalityType, FS_Subset
<1>2. IsFiniteSet(Fd) /\ Cardinality(Fd) = MaxFd
  BY TableSize
<1>3. IsFiniteSet(Old) /\ Cardinality(Old) = Leftover
  BY TableSize
<1>4. /\ IsFiniteSet(Conns) /\ IsFiniteSet(Opened)
      /\ Cardinality(Conns) \in Nat /\ Cardinality(Conns) <= K
      /\ Cardinality(Opened) \in Nat /\ Cardinality(Opened) <= K
  BY <1>0, Requests \in SUBSET Requests, ImageOfRequests
<1>5. /\ IsFiniteSet(Reads) /\ IsFiniteSet(Writes)
      /\ Cardinality(Reads) \in Nat /\ Cardinality(Reads) <= J
      /\ Cardinality(Writes) \in Nat /\ Cardinality(Writes) <= J
  BY <1>0, ImageOfRequests
<1>6. /\ IsFiniteSet(Listening) /\ Cardinality(Listening) \in Nat
      /\ Cardinality(Listening) <= L
  BY FS_CardinalityType
<1>7. /\ IsFiniteSet(Used) /\ Cardinality(Used) \in Nat
      /\ Cardinality(Used) <= Leftover + L + 2 * K + 2 * J
  <2> HIDE DEF Conns, Opened, Reads, Writes, Old, Listening, K, J
  <2>1. /\ IsFiniteSet(Listening \cup Old)
        /\ Cardinality(Listening \cup Old) \in Nat
        /\ Cardinality(Listening \cup Old) <= Leftover + L
    BY <1>1, <1>3, <1>6, UnionBound
  <2>2. /\ IsFiniteSet((Listening \cup Old) \cup Conns)
        /\ Cardinality((Listening \cup Old) \cup Conns) \in Nat
        /\ Cardinality((Listening \cup Old) \cup Conns) <= Leftover + L + K
    BY <1>1, <1>4, <2>1, UnionBound
  <2> DEFINE U == ((Listening \cup Old) \cup Conns) \cup Opened
  <2>3. /\ IsFiniteSet(U)
        /\ Cardinality(U) \in Nat
        /\ Cardinality(U) <= Leftover + L + 2 * K
    BY <1>1, <1>4, <2>2, UnionBound
  <2> HIDE DEF U
  <2>4. /\ IsFiniteSet(U \cup Reads)
        /\ Cardinality(U \cup Reads) \in Nat
        /\ Cardinality(U \cup Reads) <= Leftover + L + 2 * K + J
    BY <1>1, <1>5, <2>3, UnionBound
  <2>5. /\ IsFiniteSet((U \cup Reads) \cup Writes)
        /\ Cardinality((U \cup Reads) \cup Writes) \in Nat
        /\ Cardinality((U \cup Reads) \cup Writes)
             <= Leftover + L + 2 * K + 2 * J
    BY <1>1, <1>5, <2>4, UnionBound
  <2> QED
    BY <2>5 DEF U
<1>8. Fd \ Used \subseteq Free
  BY DEF Table, Free
<1>9. Cardinality(Fd \ Used) >= MaxFd - Cardinality(Used)
  <2> HIDE DEF Used
  <2>1. Cardinality(Fd \ Used) = Cardinality(Fd) - Cardinality(Fd \cap Used)
    BY <1>2, FS_Difference
  <2>2. /\ Cardinality(Fd \cap Used) \in Nat
        /\ Cardinality(Fd \cap Used) <= Cardinality(Used)
    BY <1>7, FS_Subset, FS_CardinalityType, Fd \cap Used \in SUBSET Used
  <2> QED
    BY <1>1, <1>2, <1>7, <2>1, <2>2
<1>10. /\ Cardinality(Free) >= Cardinality(Fd \ Used)
       /\ Cardinality(Free) \in Nat
       /\ Cardinality(Fd \ Used) \in Nat
  <2>1. IsFiniteSet(Free)
    BY <1>2, FS_Subset, Free \in SUBSET Fd DEF Free
  <2>2. /\ IsFiniteSet(Fd \ Used)
        /\ Cardinality(Fd \ Used) <= Cardinality(Free)
    BY <1>8, <2>1, FS_Subset
  <2> QED
    BY <2>1, <2>2, FS_CardinalityType
<1> HIDE DEF Used, K, J
<1>11. Cardinality(Free) + Leftover + L + 2 * K + 2 * J >= MaxFd
  BY <1>1, <1>7, <1>9, <1>10
<1> QED
  BY <1>10, <1>11 DEF K, J

\* The handler that is about to open has no pipe yet, and the server that opens
\* its socket again has none.
LEMMA AlwaysRoom ==
  ASSUME EnoughDescriptors, TypeOK, Table
  PROVE  RoomForAll
<1> DEFINE Listening == {n \in Fd : fdt[n] = Listener}
<1>1. /\ IsFiniteSet(Requests) /\ Cardinality(Requests) \in Nat
      /\ MaxFd \in Nat /\ Leftover \in Nat
  BY ServerAssumption, FS_CardinalityType DEF EnoughDescriptors
<1>2. MaxFd >= Leftover + 4 * Cardinality(Requests) + 1
  BY DEF EnoughDescriptors
<1>3. ASSUME NEW r \in Requests, pc[r] \in {"none", "code", "serve", "open"}
      PROVE  Cardinality(Free) >= 2
  <2>1. IsFiniteSet(Listening) /\ Cardinality(Listening) <= 1
    <3>1. CASE Listening = {}
      BY <3>1, FS_EmptySet
    <3>2. CASE Listening # {}
      <4>1. PICK n \in Fd : Listening = {n}
        BY <3>2 DEF Table
      <4>2. IsFiniteSet({n}) /\ Cardinality({n}) = 1
        BY FS_Singleton
      <4> QED
        BY <4>1, <4>2
    <3> QED
      BY <3>1, <3>2
  <2>2. \A n \in Fd, q \in Requests : fdt[n] = Pipe(q) => q \in Requests \ {r}
    BY <1>3 DEF Table
  <2>3. Cardinality(Requests \ {r}) = Cardinality(Requests) - 1
    BY <1>1, FS_RemoveElement
  <2>4. /\ Cardinality(Free) \in Nat
        /\ Cardinality(Free) + Leftover + 1 + 2 * Cardinality(Requests)
             + 2 * Cardinality(Requests \ {r}) >= MaxFd
    <3>1. Requests \ {r} \in SUBSET Requests /\ 1 \in Nat
      OBVIOUS
    <3> QED
      BY <1>1, <2>1, <2>2, <3>1, CountFree
  <2> QED
    BY <1>1, <1>2, <2>3, <2>4
<1>4. ASSUME main = "reopen"
      PROVE  Free # {}
  <2>1. Listening = {}
    BY <1>4 DEF Table
  <2>2. IsFiniteSet(Listening) /\ Cardinality(Listening) <= 0
    BY <2>1, FS_EmptySet
  <2>3. /\ Cardinality(Free) \in Nat
        /\ Cardinality(Free) + Leftover + 0 + 2 * Cardinality(Requests)
             + 2 * Cardinality(Requests) >= MaxFd
    <3>1. Requests \in SUBSET Requests /\ 0 \in Nat
      OBVIOUS
    <3> QED
      BY <1>1, <2>2, <3>1, CountFree
  <2>4. Cardinality(Free) # 0
    BY <1>1, <1>2, <2>3
  <2> QED
    BY <2>4, FS_EmptySet
<1> QED
  BY <1>3, <1>4 DEF RoomForAll

-----------------------------------------------------------------------------
(* Answers, and what handlers keep *)

\* The files that are opened for reading and writing, and all of them.
Mapped == {"file", "empty", "huge", "unmappable"}
Files == Mapped \cup {"unwritable"}

\* What was asked for, at each point of the way through handle_request.
Ways ==
  \A r \in Requests :
    /\ pc[r] = "stat" => target[r] \notin {"hangup", "toolong"}
    /\ pc[r] \in {"code", "pipe", "type"}
         => target[r] \in Files \cup {"directory", "device", "untyped"}
    /\ pc[r] = "serve" => target[r] \in Files \cup {"directory", "device"}
    /\ pc[r] \in {"line", "closedir"} => target[r] = "directory"
    /\ pc[r] = "open" => target[r] \in Files
    /\ pc[r] \in {"lock", "map"} => target[r] \in Mapped
    /\ pc[r] \in {"send", "join", "unlock", "closefile", "closeclient"}
         => target[r] \in {"file", "huge"}
    /\ pc[r] = "log" => target[r] \in {"file", "huge", "empty"}
    /\ pc[r] = "join" => CallsMayFail

\* A client that stays has its answer before the handler lets go of it.
Answered ==
  \A r \in Requests \ left : main # "dead" =>
    /\ pc[r] \in {"unlock", "closefile", "closeclient", "log", "clean", "done"}
         => reply[r] = Expected(r)
    /\ conn[r] = "closed" => pc[r] \in {"log", "clean", "done"}

\* What is asked for at a site where every file can be locked and mapped.
HealthySite ==
  Targets \subseteq {"missing", "toolong", "directory", "file", "huge"}

\* Only handlers on their way, or killed there, keep anything.
Kept ==
  /\ \A n \in Fd, r \in Requests \ left :
       /\ fdt[n] = Conn(r) => OwnsConn(r) \/ pc[r] \in {"abandoned", "killed"}
       /\ fdt[n] = File(r) => OwnsFile(r) \/ pc[r] = "killed"
  /\ \A r \in Requests :
       pmutex = r => Thread(r) /\ pc[r] \in {"map", "send", "unlock", "killed"}

\* What was left open before is nobody's.
LEMMA DistinctOld ==
  /\ Conn(NoOne) \notin {Unused, Listener}
  /\ \A r \in Requests : Conn(NoOne) \notin {Conn(r), File(r), Pipe(r)}
  BY ServerAssumption DEF Unused, Listener, Conn, File, Pipe

\* With enough descriptors no call of a handler fails for want of one.
LEMMA NoCallFails ==
  ASSUME EnoughDescriptors, TypeOK, Table, NEW r \in Requests,
         pc[r] \in {"code", "serve", "open"}
  PROVE  Room(r, 1) /\ Room(r, 2)
<1>1. IsFiniteSet(Free)
  BY TableSize, FS_Subset, Free \in SUBSET Fd DEF Free
<1>2. Cardinality(Free) >= 2 /\ Cardinality(Free) \in Nat
  BY <1>1, FS_CardinalityType, AlwaysRoom DEF RoomForAll
<1> QED
  BY <1>2 DEF Room

LEMMA InitMore == Init => Table /\ Ways /\ Answered /\ Kept
<1> SUFFICES ASSUME Init PROVE Table /\ Ways /\ Answered /\ Kept
  OBVIOUS
<1> USE ServerAssumption
<1>1. Table
  <2>1. PICK k \in 0..Leftover :
          fdt = [n \in Fd |-> IF n = 1 THEN Listener
                              ELSE IF n <= k + 1 THEN Conn(NoOne) ELSE Unused]
    BY DEF Init
  <2>2. \A n \in Fd : \/ fdt[n] = Unused
                      \/ fdt[n] = Listener /\ n = 1
                      \/ fdt[n] = Conn(NoOne) /\ n \in 2..(Leftover + 1)
    BY <2>1 DEF Fd
  <2>3. main # "reopen"
    BY DEF Init
  <2> QED
    BY <2>2, <2>3, Distinct, DistinctOld DEF Table
<1>2. Kept
  <2>1. \A n \in Fd : fdt[n] \in {Unused, Listener, Conn(NoOne)}
    BY DEF Init
  <2> QED
    BY <2>1, Distinct, DistinctOld DEF Kept, Init
<1> QED
  BY <1>1, <1>2 DEF Init, Ways, Answered

\* Where a handler has no file or directory.
NoFile == {"none", "accepted", "read", "stat", "serve", "open"}

\* The table of a handler that closes what is its own, or nothing.
LEMMA TableClosing ==
  ASSUME Table, NEW r \in Requests,
         \A n \in Fd : fdt'[n] = Unused \/ fdt'[n] = fdt[n],
         UNCHANGED <<cfd, ffd, rfd, wfd, hmode>>,
         main' = "reopen" => main = "reopen",
         \A q \in Requests \ {r} : pc'[q] = pc[q] /\ type'[q] = type[q],
         pc[r] \notin {"pipe", "type", "killed"},
         pc'[r] \notin {"none", "pipe", "type"},
         \/ pc[r] \in NoFile
         \/ pc'[r] \notin NoFile /\ (pc'[r] = "code" => type'[r] = 1)
  PROVE  Table'
<1>1. \A n \in Fd : /\ fdt[n] # Pipe(r)
                    /\ pc[r] \in NoFile => fdt[n] # File(r)
  BY DEF Table, NoFile
<1>2. \A n \in Fd, q \in Requests :
        /\ fdt'[n] = Conn(q) => cfd'[q] = n /\ pc'[q] # "none"
        /\ fdt'[n] = File(q) =>
             /\ ffd'[q] = n
             /\ pc'[q] \notin NoFile
             /\ pc'[q] \in {"code", "pipe", "type"} => type'[q] = 1
  BY <1>1, Distinct DEF Table, NoFile
<1>3. \A n \in Fd, q \in Requests : fdt'[n] = Pipe(q) =>
        /\ Thread(q)'
        /\ \/ pc'[q] \in {"pipe", "type", "killed"} /\ rfd'[q] = n
           \/ pc'[q] \in {"pipe", "killed"} /\ wfd'[q] = n
  BY <1>1, Distinct DEF Table, Thread
<1>4. /\ \A n \in Fd :
           \/ fdt'[n] \in {Unused, Listener}
           \/ fdt'[n] = Conn(NoOne) /\ n \in 2..(Leftover + 1)
           \/ \E q \in Requests : fdt'[n] \in {Conn(q), File(q), Pipe(q)}
      /\ \A m, n \in Fd : fdt'[m] = Listener /\ fdt'[n] = Listener => m = n
      /\ main' = "reopen" => \A n \in Fd : fdt'[n] # Listener
  BY Distinct DEF Table
<1> QED
  BY <1>2, <1>3, <1>4 DEF Table, NoFile

\* The table of a server that ends.
LEMMA TableEnds ==
  ASSUME Table, TypeOK, ServerEnds,
         UNCHANGED <<fdt, cfd, ffd, rfd, wfd, hmode, type>>
  PROVE  Table'
<1>1. main' = "dead"
  BY DEF ServerEnds
<1>2. \A q \in Requests : \/ pc'[q] = pc[q]
                          \/ pc'[q] = "killed" /\ pc[q] # "none"
  BY DEF ServerEnds, TypeOK
<1>3. \A n \in Fd, q \in Requests :
        /\ fdt[n] = Conn(q) => cfd[q] = n /\ pc'[q] # "none"
        /\ fdt[n] = File(q) =>
             /\ ffd[q] = n
             /\ pc'[q] \notin NoFile
             /\ pc'[q] \in {"code", "pipe", "type"} => type[q] = 1
  BY <1>2 DEF Table, NoFile
<1>4. \A n \in Fd, q \in Requests : fdt[n] = Pipe(q) =>
        /\ Thread(q)
        /\ \/ pc'[q] \in {"pipe", "type", "killed"} /\ rfd[q] = n
           \/ pc'[q] \in {"pipe", "killed"} /\ wfd[q] = n
  BY <1>2 DEF Table
<1> QED
  BY <1>1, <1>3, <1>4 DEF Table, NoFile, Thread

\* The table of a thread that opens a file or a directory.
LEMMA TableOpening ==
  ASSUME Table, TypeOK, NEW r \in Requests, OpenFd(r),
         UNCHANGED <<cfd, rfd, wfd, main, hmode>>,
         pc[r] \in {"serve", "open"},
         \/ /\ \E to \in {"code", "closedir"} : pc' = [pc EXCEPT ![r] = to]
            /\ type' = [type EXCEPT ![r] = 1]
         \/ pc' = [pc EXCEPT ![r] = "lock"] /\ type' = type
  PROVE  Table'
<1>1. /\ \A q \in Requests \ {r} : pc'[q] = pc[q] /\ type'[q] = type[q]
      /\ pc'[r] \in {"code", "closedir", "lock"}
      /\ pc'[r] = "code" => type'[r] = 1
  BY DEF TypeOK
<1>2. CASE ~Thread(r)
  <2>1. UNCHANGED <<fdt, ffd>>
    BY <1>2 DEF OpenFd
  <2>2. \A n \in Fd : fdt[n] # Pipe(r) /\ fdt[n] # File(r)
    BY <1>2 DEF Table
  <2> QED
    BY <1>1, <2>1, <2>2 DEF Table, Thread
<1>3. CASE Thread(r)
  <2>1. PICK n \in Fd : /\ fdt' = [fdt EXCEPT ![n] = File(r)]
                        /\ ffd' = [ffd EXCEPT ![r] = n]
    BY <1>3 DEF OpenFd
  <2>2. /\ fdt'[n] = File(r) /\ ffd'[r] = n
        /\ \A m \in Fd \ {n} : fdt'[m] = fdt[m]
        /\ \A q \in Requests \ {r} : ffd'[q] = ffd[q]
    BY <2>1 DEF TypeOK
  <2>3. \A m \in Fd : fdt[m] # File(r) /\ fdt[m] # Pipe(r)
    BY DEF Table
  <2> QED
    BY <1>1, <2>2, <2>3, Distinct, DistinctOld DEF Table, Thread
<1> QED
  BY <1>2, <1>3

\* Who closes its own connection, or is a child, ends no other.
LEMMA ClosesItsOwn ==
  ASSUME TypeOK, Descriptors, NEW r \in Requests, CloseClient(r),
         ~Thread(r) \/ OwnsConn(r)
  PROVE  /\ conn'[r] = "closed"
         /\ \A q \in Requests \ {r} : conn'[q] = conn[q]
<1>1. CASE ~Thread(r)
  BY <1>1 DEF CloseClient, TypeOK
<1>2. CASE Thread(r)
  <2>1. fdt[cfd[r]] = Conn(r)
    BY <1>2 DEF Descriptors
  <2> QED
    BY <1>2, <2>1, Distinct DEF CloseClient
<1> QED
  BY <1>1, <1>2

\* A step of a handler that keeps nothing it lets go of.
LEMMA KeptClosing ==
  ASSUME Kept, NEW r \in Requests,
         UNCHANGED <<hmode, left>>,
         \A q \in Requests \ {r} : pc'[q] = pc[q] /\ type'[q] = type[q],
         pc[r] \notin {"abandoned", "killed"},
         \A n \in Fd : \/ fdt'[n] \in {fdt[n], Unused, Pipe(r)}
                       \/ fdt'[n] = File(r) /\ OwnsFile(r)',
         \/ ~OwnsConn(r) \/ OwnsConn(r)'
         \/ \A n \in Fd : fdt'[n] # Conn(r),
         \/ ~OwnsFile(r) \/ OwnsFile(r)'
         \/ \A n \in Fd : fdt'[n] # File(r),
         \A q \in Requests \ {r} : pmutex' = q => pmutex = q,
         pmutex' = r =>
           Thread(r) /\ pc'[r] \in {"map", "send", "unlock", "killed"}
  PROVE  Kept'
<1>1. \A q \in Requests \ {r} : /\ OwnsConn(q)' <=> OwnsConn(q)
                                /\ OwnsFile(q)' <=> OwnsFile(q)
                                /\ Thread(q)' <=> Thread(q)
  BY DEF OwnsConn, OwnsFile, Thread
<1>2. \A n \in Fd, q \in Requests \ left :
        fdt'[n] = Conn(q)
          => OwnsConn(q)' \/ pc'[q] \in {"abandoned", "killed"}
  BY <1>1, Distinct DEF Kept
<1>3. \A n \in Fd, q \in Requests \ left :
        fdt'[n] = File(q) => OwnsFile(q)' \/ pc'[q] = "killed"
  BY <1>1, Distinct DEF Kept
<1>4. \A q \in Requests :
        pmutex' = q
          => Thread(q)' /\ pc'[q] \in {"map", "send", "unlock", "killed"}
  BY <1>1 DEF Kept, Thread
<1> QED
  BY <1>2, <1>3, <1>4 DEF Kept

\* Numbers are given out and taken back by their own handlers.
LEMMA TableStep ==
  ASSUME TypeOK, TypeRequest, Descriptors, Table, [Next]_vars
  PROVE  Table'
<1> USE ServerAssumption, Distinct, DistinctOld
<1>0. Domains
  BY DEF TypeOK, Domains
<1>1. CASE Reopen
  BY <1>1, <1>0
     DEF Reopen, LowestFree, Free, Domains, TypeRequest, Descriptors,
         Table, OwnsConn, OwnsFile, Thread, clients, logVars, loopVars,
         lockVars, pipeVars
<1>2. CASE ReopenFails
  BY <1>2, TableEnds DEF ReopenFails, pipeVars
<1>3. CASE BeginReload
  BY <1>3, <1>0
     DEF BeginReload, Domains, TypeRequest, Descriptors, Table,
         OwnsConn, OwnsFile, Thread, clients, logVars, loopVars,
         lockVars, pipeVars
<1>4. CASE LoggerWrites
  BY <1>4, <1>0
     DEF LoggerWrites, AL!Record, Domains, TypeRequest, Descriptors,
         Table, OwnsConn, OwnsFile, Thread, clients, logVars, loopVars,
         lockVars, pipeVars
<1>5. ASSUME NEW r \in Requests, Connect(r)  PROVE  Table'
  BY <1>5, <1>0
     DEF Connect, Domains, TypeRequest, Descriptors, Table, OwnsConn,
         OwnsFile, Thread, clients, logVars, loopVars, lockVars,
         pipeVars
<1>6. ASSUME NEW r \in Requests, ClientLeaves(r)  PROVE  Table'
  BY <1>6, <1>0
     DEF ClientLeaves, Domains, TypeRequest, Descriptors, Table,
         OwnsConn, OwnsFile, Thread, clients, logVars, loopVars,
         lockVars, pipeVars
<1>7. ASSUME NEW r \in Requests, Accept(r)  PROVE  Table'
  BY <1>7, <1>0
     DEF Accept, Goes, LowestFree, Free, Domains, TypeRequest,
         Descriptors, Table, OwnsConn, OwnsFile, Thread, clients,
         logVars, loopVars, lockVars, pipeVars
<1>8. ASSUME NEW r \in Requests, Spawn(r)  PROVE  Table'
  BY <1>8, <1>0
     DEF Spawn, Goes, Thread, Domains, TypeRequest, Descriptors, Table,
         OwnsConn, OwnsFile, clients, logVars, loopVars, lockVars,
         pipeVars
<1>9. ASSUME NEW r \in Requests, SpawnFails(r)  PROVE  Table'
  BY <1>9, <1>0
     DEF SpawnFails, Goes, Domains, TypeRequest, Descriptors, Table,
         OwnsConn, OwnsFile, Thread, clients, logVars, loopVars,
         lockVars, pipeVars
<1>10. ASSUME NEW r \in Requests, ReadRequest(r)  PROVE  Table'
  BY <1>10, <1>0
     DEF ReadRequest, SendFails, Domains, TypeRequest, Descriptors,
         Table, OwnsConn, OwnsFile, Thread, clients, logVars, loopVars,
         lockVars, pipeVars
<1>11. ASSUME NEW r \in Requests, ReadNothing(r)  PROVE  Table'
  BY <1>11, <1>0
     DEF ReadNothing, Goes, Domains, TypeRequest, Descriptors, Table,
         OwnsConn, OwnsFile, Thread, clients, logVars, loopVars,
         lockVars, pipeVars
<1>12. ASSUME NEW r \in Requests, FileFound(r)  PROVE  Table'
  <2>1. /\ pc[r] = "stat" /\ pc'[r] = "code"
        /\ \A q \in Requests \ {r} : pc'[q] = pc[q]
        /\ UNCHANGED <<cfd, ffd, rfd, wfd, hmode, type, main>>
    BY <1>12
       DEF FileFound, Goes, TypeOK, loopVars, pipeVars, clients
  <2>2. \A n \in Fd : fdt'[n] = Unused \/ fdt'[n] = fdt[n]
    BY <1>12
       DEF FileFound, TypeOK
  <2> QED
    BY <2>1, <2>2, TableClosing DEF NoFile
<1>13. ASSUME NEW r \in Requests, FileMissing(r)  PROVE  Table'
  BY <1>13, <1>0
     DEF FileMissing, Goes, SendFails, Domains, TypeRequest,
         Descriptors, Table, OwnsConn, OwnsFile, Thread, clients,
         logVars, loopVars, lockVars, pipeVars
<1>14. ASSUME NEW r \in Requests, OpenCommand(r)  PROVE  Table'
  <2>1. /\ pc[r] = "code" /\ pc'[r] = "pipe"
        /\ \A q \in Requests \ {r} : pc'[q] = pc[q]
        /\ UNCHANGED <<cfd, ffd, type, hmode, main>>
    BY <1>14 DEF OpenCommand, Goes, TypeOK, loopVars
  <2>2. \A m \in Fd : fdt[m] # Pipe(r)
    BY <2>1 DEF Table
  <2>3. CASE ~Thread(r)
    <3>1. UNCHANGED <<fdt, rfd, wfd>>
      BY <1>14, <2>3 DEF OpenCommand, OpenPipe
    <3>2. \A q \in Requests : pc[q] # "none" => pc'[q] # "none"
      BY <2>1
    <3> QED
      BY <2>1, <2>2, <3>1, <3>2 DEF Table, Thread
  <2>4. CASE Thread(r)
    <3>1. PICK a, b \in Free :
            /\ fdt' = [fdt EXCEPT ![a] = Pipe(r), ![b] = Pipe(r)]
            /\ rfd' = [rfd EXCEPT ![r] = a]
            /\ wfd' = [wfd EXCEPT ![r] = b]
      BY <1>14, <2>4 DEF OpenCommand, OpenPipe
    <3>2. /\ a \in Fd /\ b \in Fd
          /\ fdt'[a] = Pipe(r) /\ fdt'[b] = Pipe(r)
          /\ rfd'[r] = a /\ wfd'[r] = b
          /\ \A m \in Fd \ {a, b} : fdt'[m] = fdt[m]
          /\ \A q \in Requests \ {r} : rfd'[q] = rfd[q] /\ wfd'[q] = wfd[q]
      BY <3>1 DEF Free, TypeOK
    <3>3. \A n \in Fd :
            \/ n \in {a, b} /\ fdt'[n] = Pipe(r)
            \/ n \notin {a, b} /\ fdt'[n] = fdt[n] /\ fdt[n] # Pipe(r)
      BY <2>2, <3>2
    <3> QED
      BY <2>1, <2>4, <3>2, <3>3 DEF Table, Thread
  <2> QED
    BY <2>3, <2>4
<1>15. ASSUME NEW r \in Requests, OpenCommandFails(r)  PROVE  Table'
  BY <1>15, <1>0
     DEF OpenCommandFails, Goes, Domains, TypeRequest, Descriptors,
         Table, OwnsConn, OwnsFile, Thread, clients, logVars, loopVars,
         lockVars, pipeVars
<1>16. ASSUME NEW r \in Requests, StartCommand(r)  PROVE  Table'
  <2>1. /\ pc[r] = "pipe" /\ pc'[r] = "type"
        /\ \A q \in Requests \ {r} : pc'[q] = pc[q]
        /\ wfd'[r] = 0
        /\ \A q \in Requests \ {r} : wfd'[q] = wfd[q]
        /\ UNCHANGED <<cfd, ffd, rfd, hmode, type, main>>
    BY <1>16 DEF StartCommand, Goes, TypeOK, loopVars
  <2>2. \A n \in Fd : \/ fdt'[n] = fdt[n] /\ (Thread(r) => n # wfd[r])
                      \/ fdt'[n] = Unused
    BY <1>16 DEF StartCommand, TypeOK
  <2>3. \A n \in Fd : fdt'[n] = Pipe(r) => rfd[r] = n /\ Thread(r)
    BY <2>1, <2>2 DEF Table
  <2> QED
    BY <2>1, <2>2, <2>3 DEF Table, Thread
<1>17. ASSUME NEW r \in Requests, GetCode(r)  PROVE  Table'
  <2>1. /\ pc[r] = "type"
        /\ \/ pc'[r] \in {"serve", "clean"} /\ type[r] = 0
           \/ pc'[r] = "line" /\ type[r] = 1
        /\ \A q \in Requests \ {r} : pc'[q] = pc[q]
        /\ \A q \in Requests \ {r} : rfd'[q] = rfd[q]
        /\ UNCHANGED <<cfd, ffd, wfd, hmode, type, main>>
    BY <1>17 DEF GetCode, Goes, InListing, TypeOK, loopVars
  <2>2. \A n \in Fd : \/ fdt'[n] = fdt[n] /\ (Thread(r) => n # rfd[r])
                      \/ fdt'[n] = Unused
    BY <1>17 DEF GetCode, TypeOK
  <2>3. \A n \in Fd : /\ fdt'[n] # Pipe(r)
                      /\ type[r] = 0 => fdt'[n] # File(r)
    BY <2>1, <2>2 DEF Table
  <2> QED
    BY <2>1, <2>2, <2>3 DEF Table, Thread
<1>18. ASSUME NEW r \in Requests, ServeNothing(r)  PROVE  Table'
  BY <1>18, <1>0
     DEF ServeNothing, Goes, Domains, TypeRequest, Descriptors, Table,
         OwnsConn, OwnsFile, Thread, clients, logVars, loopVars,
         lockVars, pipeVars
<1>19. ASSUME NEW r \in Requests, OpenDirectory(r)  PROVE  Table'
  <2>1. PICK n \in 0..Entries : pc' = [pc EXCEPT ![r] = AfterEntries(n)]
    BY <1>19 DEF OpenDirectory, Goes
  <2>2. \E to \in {"code", "closedir"} : pc' = [pc EXCEPT ![r] = to]
    BY <2>1 DEF AfterEntries
  <2> QED
    BY <1>19, <2>2, TableOpening DEF OpenDirectory, Goes, loopVars, pipeVars
<1>20. ASSUME NEW r \in Requests, OpenDirectoryFails(r)  PROVE  Table'
  BY <1>20, <1>0
     DEF OpenDirectoryFails, Goes, Domains, TypeRequest, Descriptors,
         Table, OwnsConn, OwnsFile, Thread, clients, logVars, loopVars,
         lockVars, pipeVars
<1>21. ASSUME NEW r \in Requests, SendLine(r)  PROVE  Table'
  <2>1. /\ pc[r] = "line" /\ pc'[r] \in {"code", "closedir"}
        /\ \A q \in Requests \ {r} : pc'[q] = pc[q]
        /\ type[r] = 1
        /\ UNCHANGED <<cfd, ffd, rfd, wfd, hmode, type, main>>
    BY <1>21
       DEF SendLine, Goes, AfterEntries, TypeRequest, TypeOK, loopVars,
           pipeVars, clients
  <2>2. \A n \in Fd : fdt'[n] = Unused \/ fdt'[n] = fdt[n]
    BY <1>21
       DEF SendLine, TypeOK
  <2> QED
    BY <2>1, <2>2, TableClosing DEF NoFile
<1>22. ASSUME NEW r \in Requests, SendLineFails(r)  PROVE  Table'
  BY <1>22, <1>0
     DEF SendLineFails, Goes, SendFails, Domains, TypeRequest,
         Descriptors, Table, OwnsConn, OwnsFile, Thread, clients,
         logVars, loopVars, lockVars, pipeVars
<1>23. ASSUME NEW r \in Requests, CloseDirectory(r)  PROVE  Table'
  <2>1. /\ pc[r] = "closedir" /\ pc'[r] = "clean"
        /\ \A q \in Requests \ {r} : pc'[q] = pc[q]
        /\ UNCHANGED <<cfd, ffd, rfd, wfd, hmode, type, main>>
    BY <1>23
       DEF CloseDirectory, Goes, CloseFd, TypeOK, loopVars, pipeVars,
           clients
  <2>2. \A n \in Fd : fdt'[n] = Unused \/ fdt'[n] = fdt[n]
    BY <1>23
       DEF CloseDirectory, CloseFd, TypeOK
  <2> QED
    BY <2>1, <2>2, TableClosing DEF NoFile
<1>24. ASSUME NEW r \in Requests, ServeFile(r)  PROVE  Table'
  BY <1>24, <1>0
     DEF ServeFile, Goes, Domains, TypeRequest, Descriptors, Table,
         OwnsConn, OwnsFile, Thread, clients, logVars, loopVars,
         lockVars, pipeVars
<1>25. ASSUME NEW r \in Requests, OpenFile(r)  PROVE  Table'
  BY <1>25, TableOpening DEF OpenFile, Goes, loopVars, pipeVars
<1>26. ASSUME NEW r \in Requests, OpenFileFails(r)  PROVE  Table'
  BY <1>26, <1>0
     DEF OpenFileFails, Goes, Domains, TypeRequest, Descriptors, Table,
         OwnsConn, OwnsFile, Thread, clients, logVars, loopVars,
         lockVars, pipeVars
<1>27. ASSUME NEW r \in Requests, LockFile(r)  PROVE  Table'
  <2>1. /\ pc[r] = "lock" /\ pc'[r] = "map"
        /\ \A q \in Requests \ {r} : pc'[q] = pc[q]
        /\ UNCHANGED <<cfd, ffd, rfd, wfd, hmode, type, main>>
    BY <1>27
       DEF LockFile, Goes, TypeOK, loopVars, pipeVars, clients
  <2>2. \A n \in Fd : fdt'[n] = Unused \/ fdt'[n] = fdt[n]
    BY <1>27
       DEF LockFile, TypeOK
  <2> QED
    BY <2>1, <2>2, TableClosing DEF NoFile
<1>28. ASSUME NEW r \in Requests, LockFileFails(r)  PROVE  Table'
  <2>1. /\ pc[r] = "lock" /\ pc'[r] = "map"
        /\ \A q \in Requests \ {r} : pc'[q] = pc[q]
        /\ UNCHANGED <<cfd, ffd, rfd, wfd, hmode, type, main>>
    BY <1>28
       DEF LockFileFails, Goes, TypeOK, loopVars, pipeVars, clients
  <2>2. \A n \in Fd : fdt'[n] = Unused \/ fdt'[n] = fdt[n]
    BY <1>28
       DEF LockFileFails, TypeOK
  <2> QED
    BY <2>1, <2>2, TableClosing DEF NoFile
<1>29. ASSUME NEW r \in Requests, MapEmptyFile(r)  PROVE  Table'
  BY <1>29, <1>0
     DEF MapEmptyFile, Goes, Domains, TypeRequest, Descriptors, Table,
         OwnsConn, OwnsFile, Thread, clients, logVars, loopVars,
         lockVars, pipeVars
<1>30. ASSUME NEW r \in Requests, MapFails(r)  PROVE  Table'
  <2>1. /\ pc[r] = "map" /\ pc'[r] = "clean"
        /\ \A q \in Requests \ {r} : pc'[q] = pc[q]
        /\ UNCHANGED <<cfd, ffd, rfd, wfd, hmode, type, main>>
    BY <1>30
       DEF MapFails, Goes, CloseFd, TypeOK, loopVars, pipeVars, clients
  <2>2. \A n \in Fd : fdt'[n] = Unused \/ fdt'[n] = fdt[n]
    BY <1>30
       DEF MapFails, CloseFd, TypeOK
  <2> QED
    BY <2>1, <2>2, TableClosing DEF NoFile
<1>31. ASSUME NEW r \in Requests, MapFile(r)  PROVE  Table'
  BY <1>31, <1>0
     DEF MapFile, Goes, Domains, TypeRequest, Descriptors, Table,
         OwnsConn, OwnsFile, Thread, clients, logVars, loopVars,
         lockVars, pipeVars
<1>32. ASSUME NEW r \in Requests, SendFile(r)  PROVE  Table'
  <2>1. /\ pc[r] = "send" /\ pc'[r] = "unlock"
        /\ \A q \in Requests \ {r} : pc'[q] = pc[q]
        /\ UNCHANGED <<cfd, ffd, rfd, wfd, hmode, type, main>>
    BY <1>32
       DEF SendFile, Goes, SendMapped, TypeOK, loopVars, pipeVars, clients
  <2>2. \A n \in Fd : fdt'[n] = Unused \/ fdt'[n] = fdt[n]
    BY <1>32
       DEF SendFile, SendMapped, TypeOK
  <2> QED
    BY <2>1, <2>2, TableClosing DEF NoFile
<1>33. ASSUME NEW r \in Requests, SendInline(r)  PROVE  Table'
  <2>1. /\ pc[r] = "send" /\ pc'[r] = "join"
        /\ \A q \in Requests \ {r} : pc'[q] = pc[q]
        /\ UNCHANGED <<cfd, ffd, rfd, wfd, hmode, type, main>>
    BY <1>33
       DEF SendInline, Goes, SendMapped, TypeOK, loopVars, pipeVars,
           clients
  <2>2. \A n \in Fd : fdt'[n] = Unused \/ fdt'[n] = fdt[n]
    BY <1>33
       DEF SendInline, SendMapped, TypeOK
  <2> QED
    BY <2>1, <2>2, TableClosing DEF NoFile
<1>34. ASSUME NEW r \in Requests, JoinNothing(r)  PROVE  Table'
  <2>1. /\ pc[r] = "join" /\ pc'[r] = "unlock"
        /\ \A q \in Requests \ {r} : pc'[q] = pc[q]
        /\ UNCHANGED <<cfd, ffd, rfd, wfd, hmode, type, main>>
    BY <1>34
       DEF JoinNothing, Goes, TypeOK, loopVars, pipeVars, clients
  <2>2. \A n \in Fd : fdt'[n] = Unused \/ fdt'[n] = fdt[n]
    BY <1>34
       DEF JoinNothing, TypeOK
  <2> QED
    BY <2>1, <2>2, TableClosing DEF NoFile
<1>35. ASSUME NEW r \in Requests, UnlockFile(r)  PROVE  Table'
  <2>1. /\ pc[r] = "unlock" /\ pc'[r] = "closefile"
        /\ \A q \in Requests \ {r} : pc'[q] = pc[q]
        /\ UNCHANGED <<cfd, ffd, rfd, wfd, hmode, type, main>>
    BY <1>35
       DEF UnlockFile, Goes, TypeOK, loopVars, pipeVars, clients
  <2>2. \A n \in Fd : fdt'[n] = Unused \/ fdt'[n] = fdt[n]
    BY <1>35
       DEF UnlockFile, TypeOK
  <2> QED
    BY <2>1, <2>2, TableClosing DEF NoFile
<1>36. ASSUME NEW r \in Requests, CloseFile(r)  PROVE  Table'
  <2>1. /\ pc[r] = "closefile" /\ pc'[r] = "closeclient"
        /\ \A q \in Requests \ {r} : pc'[q] = pc[q]
        /\ UNCHANGED <<cfd, ffd, rfd, wfd, hmode, type, main>>
    BY <1>36
       DEF CloseFile, Goes, CloseFd, TypeOK, loopVars, pipeVars, clients
  <2>2. \A n \in Fd : fdt'[n] = Unused \/ fdt'[n] = fdt[n]
    BY <1>36
       DEF CloseFile, CloseFd, TypeOK
  <2> QED
    BY <2>1, <2>2, TableClosing DEF NoFile
<1>37. ASSUME NEW r \in Requests, CloseServedClient(r)  PROVE  Table'
  <2>1. /\ pc[r] = "closeclient" /\ pc'[r] \in {"log", "clean"}
        /\ \A q \in Requests \ {r} : pc'[q] = pc[q]
        /\ UNCHANGED <<cfd, ffd, rfd, wfd, hmode, type, main>>
    BY <1>37
       DEF CloseServedClient, Goes, TypeOK, loopVars, pipeVars, clients
  <2>2. \A n \in Fd : fdt'[n] = Unused \/ fdt'[n] = fdt[n]
    BY <1>37
       DEF CloseServedClient, CloseClient, TypeOK
  <2> QED
    BY <2>1, <2>2, TableClosing DEF NoFile
<1>38. ASSUME NEW r \in Requests, LogRequest(r)  PROVE  Table'
  <2>1. /\ pc[r] = "log" /\ pc'[r] = "clean"
        /\ \A q \in Requests \ {r} : pc'[q] = pc[q]
        /\ UNCHANGED <<cfd, ffd, rfd, wfd, hmode, type, main>>
    BY <1>38
       DEF LogRequest, Goes, TypeOK, loopVars, pipeVars, clients
  <2>2. \A n \in Fd : fdt'[n] = Unused \/ fdt'[n] = fdt[n]
    BY <1>38
       DEF LogRequest, TypeOK
  <2> QED
    BY <2>1, <2>2, TableClosing DEF NoFile
<1>39. ASSUME NEW r \in Requests, CleanRequest(r)  PROVE  Table'
  <2>1. /\ pc[r] = "clean" /\ pc'[r] = "done"
        /\ \A q \in Requests \ {r} : pc'[q] = pc[q]
        /\ UNCHANGED <<cfd, ffd, rfd, wfd, hmode, type, main>>
    BY <1>39
       DEF CleanRequest, Goes, TypeOK, loopVars, pipeVars, clients
  <2>2. \A n \in Fd : fdt'[n] = Unused \/ fdt'[n] = fdt[n]
    BY <1>39
       DEF CleanRequest, CloseClient, TypeOK
  <2> QED
    BY <2>1, <2>2, TableClosing DEF NoFile
<1>40. ASSUME NEW r \in Requests, ThreadDies(r)  PROVE  Table'
  BY <1>40, TableEnds DEF ThreadDies, pipeVars
<1>41. ASSUME NEW r \in Requests, ChildDies(r)  PROVE  Table'
  <2>1. /\ pc'[r] = "killed" /\ ~Thread(r)
        /\ pc[r] \notin {"pipe", "type", "killed"}
        /\ \A q \in Requests \ {r} : pc'[q] = pc[q]
        /\ UNCHANGED <<fdt, cfd, ffd, rfd, wfd, hmode, type, main>>
    BY <1>41
       DEF ChildDies, Dies, Sends, CloseClient, TypeOK, loopVars, pipeVars
  <2> QED
    BY <2>1, TableClosing DEF NoFile
<1>42. CASE UNCHANGED vars
  BY <1>42
     DEF vars, Domains, TypeRequest, Descriptors, Table, OwnsConn,
         OwnsFile, Thread, clients, logVars, loopVars, lockVars,
         pipeVars
<1> QED
  BY <1>1, <1>2, <1>3, <1>4, <1>5, <1>6, <1>7, <1>8, <1>9, <1>10, <1>11,
     <1>12, <1>13, <1>14, <1>15, <1>16, <1>17, <1>18, <1>19, <1>20, <1>21,
     <1>22, <1>23, <1>24, <1>25, <1>26, <1>27, <1>28, <1>29, <1>30, <1>31,
     <1>32, <1>33, <1>34, <1>35, <1>36, <1>37, <1>38, <1>39, <1>40, <1>41,
     <1>42
     DEF Next, MainStep, HandlerStep

\* Where a handler gets depends on what it is asked for.
LEMMA WaysStep ==
  ASSUME TypeOK, TypeRequest, Ways, [Next]_vars
  PROVE  Ways'
<1> USE ServerAssumption DEF Mapped, Files, AllTargets
<1>0. Domains
  BY DEF TypeOK, Domains
<1>1. CASE Reopen
  BY <1>1, <1>0
     DEF Reopen, LowestFree, Free, Domains, TypeRequest, Ways, clients,
         logVars, loopVars, lockVars, pipeVars
<1>2. CASE ReopenFails
  BY <1>2, <1>0
     DEF ReopenFails, ServerEnds, Thread, Domains, TypeRequest, Ways,
         clients, logVars, loopVars, lockVars, pipeVars
<1>3. CASE BeginReload
  BY <1>3, <1>0
     DEF BeginReload, Domains, TypeRequest, Ways, clients, logVars,
         loopVars, lockVars, pipeVars
<1>4. CASE LoggerWrites
  BY <1>4, <1>0
     DEF LoggerWrites, AL!Record, Domains, TypeRequest, Ways, clients,
         logVars, loopVars, lockVars, pipeVars
<1>5. ASSUME NEW r \in Requests, Connect(r)  PROVE  Ways'
  BY <1>5, <1>0
     DEF Connect, Domains, TypeRequest, Ways, clients, logVars,
         loopVars, lockVars, pipeVars
<1>6. ASSUME NEW r \in Requests, ClientLeaves(r)  PROVE  Ways'
  BY <1>6, <1>0
     DEF ClientLeaves, Domains, TypeRequest, Ways, clients, logVars,
         loopVars, lockVars, pipeVars
<1>7. ASSUME NEW r \in Requests, Accept(r)  PROVE  Ways'
  BY <1>7, <1>0
     DEF Accept, Goes, LowestFree, Free, Domains, TypeRequest, Ways,
         clients, logVars, loopVars, lockVars, pipeVars
<1>8. ASSUME NEW r \in Requests, Spawn(r)  PROVE  Ways'
  BY <1>8, <1>0
     DEF Spawn, Goes, Thread, Domains, TypeRequest, Ways, clients,
         logVars, loopVars, lockVars, pipeVars
<1>9. ASSUME NEW r \in Requests, SpawnFails(r)  PROVE  Ways'
  BY <1>9, <1>0
     DEF SpawnFails, Goes, Domains, TypeRequest, Ways, clients, logVars,
         loopVars, lockVars, pipeVars
<1>10. ASSUME NEW r \in Requests, ReadRequest(r)  PROVE  Ways'
  <2>1. /\ pc[r] = "read"
        /\ \/ pc'[r] = "clean"
           \/ pc'[r] = "stat" /\ target[r] \notin {"hangup", "toolong"}
        /\ \A q \in Requests \ {r} : pc'[q] = pc[q]
        /\ UNCHANGED target
    BY <1>10, <1>0 DEF ReadRequest, Domains, clients
  <2> QED
    BY <2>1 DEF Ways
<1>11. ASSUME NEW r \in Requests, ReadNothing(r)  PROVE  Ways'
  BY <1>11, <1>0
     DEF ReadNothing, Goes, Domains, TypeRequest, Ways, clients,
         logVars, loopVars, lockVars, pipeVars
<1>12. ASSUME NEW r \in Requests, FileFound(r)  PROVE  Ways'
  BY <1>12, <1>0
     DEF FileFound, Goes, Domains, TypeRequest, Ways, clients, logVars,
         loopVars, lockVars, pipeVars
<1>13. ASSUME NEW r \in Requests, FileMissing(r)  PROVE  Ways'
  BY <1>13, <1>0
     DEF FileMissing, Goes, SendFails, Domains, TypeRequest, Ways,
         clients, logVars, loopVars, lockVars, pipeVars
<1>14. ASSUME NEW r \in Requests, OpenCommand(r)  PROVE  Ways'
  BY <1>14, <1>0
     DEF OpenCommand, Goes, OpenPipe, LowestFree, Free, Domains,
         TypeRequest, Ways, clients, logVars, loopVars, lockVars,
         pipeVars
<1>15. ASSUME NEW r \in Requests, OpenCommandFails(r)  PROVE  Ways'
  BY <1>15, <1>0
     DEF OpenCommandFails, Goes, Domains, TypeRequest, Ways, clients,
         logVars, loopVars, lockVars, pipeVars
<1>16. ASSUME NEW r \in Requests, StartCommand(r)  PROVE  Ways'
  BY <1>16, <1>0
     DEF StartCommand, Goes, Domains, TypeRequest, Ways, clients,
         logVars, loopVars, lockVars, pipeVars
<1>17. ASSUME NEW r \in Requests, GetCode(r)  PROVE  Ways'
  BY <1>17, <1>0
     DEF GetCode, Goes, InListing, Domains, TypeRequest, Ways, clients,
         logVars, loopVars, lockVars, pipeVars
<1>18. ASSUME NEW r \in Requests, ServeNothing(r)  PROVE  Ways'
  BY <1>18, <1>0
     DEF ServeNothing, Goes, Domains, TypeRequest, Ways, clients,
         logVars, loopVars, lockVars, pipeVars
<1>19. ASSUME NEW r \in Requests, OpenDirectory(r)  PROVE  Ways'
  BY <1>19, <1>0
     DEF OpenDirectory, Goes, OpenFd, LowestFree, Free, AfterEntries,
         Domains, TypeRequest, Ways, clients, logVars, loopVars,
         lockVars, pipeVars
<1>20. ASSUME NEW r \in Requests, OpenDirectoryFails(r)  PROVE  Ways'
  BY <1>20, <1>0
     DEF OpenDirectoryFails, Goes, Domains, TypeRequest, Ways, clients,
         logVars, loopVars, lockVars, pipeVars
<1>21. ASSUME NEW r \in Requests, SendLine(r)  PROVE  Ways'
  BY <1>21, <1>0
     DEF SendLine, Goes, AfterEntries, Domains, TypeRequest, Ways,
         clients, logVars, loopVars, lockVars, pipeVars
<1>22. ASSUME NEW r \in Requests, SendLineFails(r)  PROVE  Ways'
  BY <1>22, <1>0
     DEF SendLineFails, Goes, SendFails, Domains, TypeRequest, Ways,
         clients, logVars, loopVars, lockVars, pipeVars
<1>23. ASSUME NEW r \in Requests, CloseDirectory(r)  PROVE  Ways'
  BY <1>23, <1>0
     DEF CloseDirectory, Goes, CloseFd, Domains, TypeRequest, Ways,
         clients, logVars, loopVars, lockVars, pipeVars
<1>24. ASSUME NEW r \in Requests, ServeFile(r)  PROVE  Ways'
  BY <1>24, <1>0
     DEF ServeFile, Goes, Domains, TypeRequest, Ways, clients, logVars,
         loopVars, lockVars, pipeVars
<1>25. ASSUME NEW r \in Requests, OpenFile(r)  PROVE  Ways'
  BY <1>25, <1>0
     DEF OpenFile, Goes, OpenFd, LowestFree, Free, Domains, TypeRequest,
         Ways, clients, logVars, loopVars, lockVars, pipeVars
<1>26. ASSUME NEW r \in Requests, OpenFileFails(r)  PROVE  Ways'
  BY <1>26, <1>0
     DEF OpenFileFails, Goes, Domains, TypeRequest, Ways, clients,
         logVars, loopVars, lockVars, pipeVars
<1>27. ASSUME NEW r \in Requests, LockFile(r)  PROVE  Ways'
  BY <1>27, <1>0
     DEF LockFile, Goes, Thread, Domains, TypeRequest, Ways, clients,
         logVars, loopVars, lockVars, pipeVars
<1>28. ASSUME NEW r \in Requests, LockFileFails(r)  PROVE  Ways'
  BY <1>28, <1>0
     DEF LockFileFails, Goes, Domains, TypeRequest, Ways, clients,
         logVars, loopVars, lockVars, pipeVars
<1>29. ASSUME NEW r \in Requests, MapEmptyFile(r)  PROVE  Ways'
  BY <1>29, <1>0
     DEF MapEmptyFile, Goes, Domains, TypeRequest, Ways, clients,
         logVars, loopVars, lockVars, pipeVars
<1>30. ASSUME NEW r \in Requests, MapFails(r)  PROVE  Ways'
  BY <1>30, <1>0
     DEF MapFails, Goes, ReleaseLockf, CloseFd, Domains, TypeRequest,
         Ways, clients, logVars, loopVars, lockVars, pipeVars
<1>31. ASSUME NEW r \in Requests, MapFile(r)  PROVE  Ways'
  BY <1>31, <1>0
     DEF MapFile, Goes, Domains, TypeRequest, Ways, clients, logVars,
         loopVars, lockVars, pipeVars
<1>32. ASSUME NEW r \in Requests, SendFile(r)  PROVE  Ways'
  BY <1>32, <1>0
     DEF SendFile, Goes, SendMapped, SendFails, Domains, TypeRequest,
         Ways, clients, logVars, loopVars, lockVars, pipeVars
<1>33. ASSUME NEW r \in Requests, SendInline(r)  PROVE  Ways'
  BY <1>33, <1>0
     DEF SendInline, Goes, SendMapped, SendFails, Domains, TypeRequest,
         Ways, clients, logVars, loopVars, lockVars, pipeVars
<1>34. ASSUME NEW r \in Requests, JoinNothing(r)  PROVE  Ways'
  BY <1>34, <1>0
     DEF JoinNothing, Goes, Domains, TypeRequest, Ways, clients,
         logVars, loopVars, lockVars, pipeVars
<1>35. ASSUME NEW r \in Requests, UnlockFile(r)  PROVE  Ways'
  BY <1>35, <1>0
     DEF UnlockFile, Goes, Thread, ReleaseLockf, Domains, TypeRequest,
         Ways, clients, logVars, loopVars, lockVars, pipeVars
<1>36. ASSUME NEW r \in Requests, CloseFile(r)  PROVE  Ways'
  BY <1>36, <1>0
     DEF CloseFile, Goes, CloseFd, Domains, TypeRequest, Ways, clients,
         logVars, loopVars, lockVars, pipeVars
<1>37. ASSUME NEW r \in Requests, CloseServedClient(r)  PROVE  Ways'
  <2>1. /\ pc[r] = "closeclient" /\ pc'[r] \in {"log", "clean"}
        /\ \A q \in Requests \ {r} : pc'[q] = pc[q]
        /\ UNCHANGED <<target, type>>
    BY <1>37 DEF CloseServedClient, Goes, TypeOK, clients
  <2> QED
    BY <2>1 DEF Ways
<1>38. ASSUME NEW r \in Requests, LogRequest(r)  PROVE  Ways'
  BY <1>38, <1>0
     DEF LogRequest, Goes, AL!Accept, Domains, TypeRequest, Ways,
         clients, logVars, loopVars, lockVars, pipeVars
<1>39. ASSUME NEW r \in Requests, CleanRequest(r)  PROVE  Ways'
  BY <1>39, <1>0
     DEF CleanRequest, Goes, CloseClient, ReleaseLockf, Domains,
         TypeRequest, Ways, clients, logVars, loopVars, lockVars,
         pipeVars
<1>40. ASSUME NEW r \in Requests, ThreadDies(r)  PROVE  Ways'
  BY <1>40, <1>0
     DEF ThreadDies, ServerEnds, SendFails, Sends, Dies, Thread,
         Domains, TypeRequest, Ways, clients, logVars, loopVars,
         lockVars, pipeVars
<1>41. ASSUME NEW r \in Requests, ChildDies(r)  PROVE  Ways'
  BY <1>41, <1>0
     DEF ChildDies, SendFails, Sends, Dies, Thread, CloseClient,
         ReleaseLockf, Domains, TypeRequest, Ways, clients, logVars,
         loopVars, lockVars, pipeVars
<1>42. CASE UNCHANGED vars
  BY <1>42
     DEF vars, Domains, TypeRequest, Ways, clients, logVars, loopVars,
         lockVars, pipeVars
<1> QED
  BY <1>1, <1>2, <1>3, <1>4, <1>5, <1>6, <1>7, <1>8, <1>9, <1>10, <1>11,
     <1>12, <1>13, <1>14, <1>15, <1>16, <1>17, <1>18, <1>19, <1>20, <1>21,
     <1>22, <1>23, <1>24, <1>25, <1>26, <1>27, <1>28, <1>29, <1>30, <1>31,
     <1>32, <1>33, <1>34, <1>35, <1>36, <1>37, <1>38, <1>39, <1>40, <1>41,
     <1>42
     DEF Next, MainStep, HandlerStep

\* With room in the table nothing but the client keeps an answer from it.
LEMMA AnsweredStep ==
  ASSUME EnoughDescriptors, ~CallsMayFail, "huge" \notin Targets, Inv, Table,
         Ways, Answered, [Next]_vars
  PROVE  Answered'
<1> USE ServerAssumption, Distinct DEF Inv
<1>0. Domains
  BY DEF TypeOK, Domains
<1>1. CASE Reopen
  BY <1>1, <1>0
     DEF Reopen, LowestFree, Free, Domains, TypeRequest, Descriptors,
         Progress, Ways, Answered, Expected, Mapped, Files, OwnsConn,
         Thread, SendFails, clients, logVars, loopVars, lockVars,
         pipeVars
<1>2. CASE ReopenFails
  BY <1>2, <1>0
     DEF ReopenFails, ServerEnds, Thread, Domains, TypeRequest,
         Descriptors, Progress, Ways, Answered, Expected, Mapped, Files,
         OwnsConn, SendFails, clients, logVars, loopVars, lockVars,
         pipeVars
<1>3. CASE BeginReload
  BY <1>3, <1>0
     DEF BeginReload, Domains, TypeRequest, Descriptors, Progress, Ways,
         Answered, Expected, Mapped, Files, OwnsConn, Thread, SendFails,
         clients, logVars, loopVars, lockVars, pipeVars
<1>4. CASE LoggerWrites
  BY <1>4, <1>0
     DEF LoggerWrites, AL!Record, Domains, TypeRequest, Descriptors,
         Progress, Ways, Answered, Expected, Mapped, Files, OwnsConn,
         Thread, SendFails, clients, logVars, loopVars, lockVars,
         pipeVars
<1>5. ASSUME NEW r \in Requests, Connect(r)  PROVE  Answered'
  BY <1>5, <1>0
     DEF Connect, Domains, TypeRequest, Descriptors, Progress, Ways,
         Answered, Expected, Mapped, Files, OwnsConn, Thread, SendFails,
         clients, logVars, loopVars, lockVars, pipeVars
<1>6. ASSUME NEW r \in Requests, ClientLeaves(r)  PROVE  Answered'
  BY <1>6, <1>0
     DEF ClientLeaves, Domains, TypeRequest, Descriptors, Progress,
         Ways, Answered, Expected, Mapped, Files, OwnsConn, Thread,
         SendFails, clients, logVars, loopVars, lockVars, pipeVars
<1>7. ASSUME NEW r \in Requests, Accept(r)  PROVE  Answered'
  BY <1>7, <1>0
     DEF Accept, Goes, LowestFree, Free, Domains, TypeRequest,
         Descriptors, Progress, Ways, Answered, Expected, Mapped, Files,
         OwnsConn, Thread, SendFails, clients, logVars, loopVars,
         lockVars, pipeVars
<1>8. ASSUME NEW r \in Requests, Spawn(r)  PROVE  Answered'
  BY <1>8, <1>0
     DEF Spawn, Goes, Thread, Domains, TypeRequest, Descriptors,
         Progress, Ways, Answered, Expected, Mapped, Files, OwnsConn,
         SendFails, clients, logVars, loopVars, lockVars, pipeVars
<1>9. ASSUME NEW r \in Requests, SpawnFails(r)  PROVE  Answered'
  BY <1>9, <1>0
     DEF SpawnFails, Goes, Domains, TypeRequest, Descriptors, Progress,
         Ways, Answered, Expected, Mapped, Files, OwnsConn, Thread,
         SendFails, clients, logVars, loopVars, lockVars, pipeVars
<1>10. ASSUME NEW r \in Requests, ReadRequest(r)  PROVE  Answered'
  <2>1. /\ pc[r] = "read" /\ reply[r] = "nothing"
        /\ \A q \in Requests \ {r} : pc'[q] = pc[q] /\ reply'[q] = reply[q]
        /\ UNCHANGED <<target, left, conn, main>>
    BY <1>10 DEF ReadRequest, Progress, TypeOK, clients, loopVars
  <2>2. \/ pc'[r] = "stat"
        \/ /\ pc'[r] = "clean"
           /\ target[r] = "toolong"
           /\ r \in left \/ reply'[r] = "error"
        \/ /\ pc'[r] = "clean"
           /\ target[r] = "hangup"
           /\ reply'[r] = "nothing"
    BY <1>10, <2>1 DEF ReadRequest, SendFails, TypeOK
  <2>3. pc'[r] = "clean" => r \in left \/ reply'[r] = Expected(r)
    BY <2>2 DEF Expected
  <2> QED
    BY <2>1, <2>2, <2>3 DEF Answered, Expected
<1>11. ASSUME NEW r \in Requests, ReadNothing(r)  PROVE  Answered'
  BY <1>11, <1>0
     DEF ReadNothing, Goes, Domains, TypeRequest, Descriptors, Progress,
         Ways, Answered, Expected, Mapped, Files, OwnsConn, Thread,
         SendFails, clients, logVars, loopVars, lockVars, pipeVars
<1>12. ASSUME NEW r \in Requests, FileFound(r)  PROVE  Answered'
  BY <1>12, <1>0
     DEF FileFound, Goes, Domains, TypeRequest, Descriptors, Progress,
         Ways, Answered, Expected, Mapped, Files, OwnsConn, Thread,
         SendFails, clients, logVars, loopVars, lockVars, pipeVars
<1>13. ASSUME NEW r \in Requests, FileMissing(r)  PROVE  Answered'
  BY <1>13, <1>0
     DEF FileMissing, Goes, SendFails, Domains, TypeRequest,
         Descriptors, Progress, Ways, Answered, Expected, Mapped, Files,
         OwnsConn, Thread, clients, logVars, loopVars, lockVars,
         pipeVars
<1>14. ASSUME NEW r \in Requests, OpenCommand(r)  PROVE  Answered'
  BY <1>14, <1>0
     DEF OpenCommand, Goes, OpenPipe, LowestFree, Free, Domains,
         TypeRequest, Descriptors, Progress, Ways, Answered, Expected,
         Mapped, Files, OwnsConn, Thread, SendFails, clients, logVars,
         loopVars, lockVars, pipeVars
<1>15. ASSUME NEW r \in Requests, OpenCommandFails(r)  PROVE  Answered'
  BY <1>15, NoCallFails DEF OpenCommandFails, Goes
<1>16. ASSUME NEW r \in Requests, StartCommand(r)  PROVE  Answered'
  BY <1>16, <1>0
     DEF StartCommand, Goes, Domains, TypeRequest, Descriptors,
         Progress, Ways, Answered, Expected, Mapped, Files, OwnsConn,
         Thread, SendFails, clients, logVars, loopVars, lockVars,
         pipeVars
<1>17. ASSUME NEW r \in Requests, GetCode(r)  PROVE  Answered'
  BY <1>17, <1>0
     DEF GetCode, Goes, InListing, Domains, TypeRequest, Descriptors,
         Progress, Ways, Answered, Expected, Mapped, Files, OwnsConn,
         Thread, SendFails, clients, logVars, loopVars, lockVars,
         pipeVars
<1>18. ASSUME NEW r \in Requests, ServeNothing(r)  PROVE  Answered'
  BY <1>18, <1>0
     DEF ServeNothing, Goes, Domains, TypeRequest, Descriptors,
         Progress, Ways, Answered, Expected, Mapped, Files, OwnsConn,
         Thread, SendFails, clients, logVars, loopVars, lockVars,
         pipeVars
<1>19. ASSUME NEW r \in Requests, OpenDirectory(r)  PROVE  Answered'
  BY <1>19, <1>0
     DEF OpenDirectory, Goes, OpenFd, LowestFree, Free, AfterEntries,
         Domains, TypeRequest, Descriptors, Progress, Ways, Answered,
         Expected, Mapped, Files, OwnsConn, Thread, SendFails, clients,
         logVars, loopVars, lockVars, pipeVars
<1>20. ASSUME NEW r \in Requests, OpenDirectoryFails(r)  PROVE  Answered'
  BY <1>20, NoCallFails DEF OpenDirectoryFails, Goes
<1>21. ASSUME NEW r \in Requests, SendLine(r)  PROVE  Answered'
  BY <1>21, <1>0
     DEF SendLine, Goes, AfterEntries, Domains, TypeRequest,
         Descriptors, Progress, Ways, Answered, Expected, Mapped, Files,
         OwnsConn, Thread, SendFails, clients, logVars, loopVars,
         lockVars, pipeVars
<1>22. ASSUME NEW r \in Requests, SendLineFails(r)  PROVE  Answered'
  BY <1>22, <1>0
     DEF SendLineFails, Goes, SendFails, Domains, TypeRequest,
         Descriptors, Progress, Ways, Answered, Expected, Mapped, Files,
         OwnsConn, Thread, clients, logVars, loopVars, lockVars,
         pipeVars
<1>23. ASSUME NEW r \in Requests, CloseDirectory(r)  PROVE  Answered'
  BY <1>23, <1>0
     DEF CloseDirectory, Goes, CloseFd, Domains, TypeRequest,
         Descriptors, Progress, Ways, Answered, Expected, Mapped, Files,
         OwnsConn, Thread, SendFails, clients, logVars, loopVars,
         lockVars, pipeVars
<1>24. ASSUME NEW r \in Requests, ServeFile(r)  PROVE  Answered'
  BY <1>24, <1>0
     DEF ServeFile, Goes, Domains, TypeRequest, Descriptors, Progress,
         Ways, Answered, Expected, Mapped, Files, OwnsConn, Thread,
         SendFails, clients, logVars, loopVars, lockVars, pipeVars
<1>25. ASSUME NEW r \in Requests, OpenFile(r)  PROVE  Answered'
  BY <1>25, <1>0
     DEF OpenFile, Goes, OpenFd, LowestFree, Free, Domains, TypeRequest,
         Descriptors, Progress, Ways, Answered, Expected, Mapped, Files,
         OwnsConn, Thread, SendFails, clients, logVars, loopVars,
         lockVars, pipeVars
<1>26. ASSUME NEW r \in Requests, OpenFileFails(r)  PROVE  Answered'
  <2>1. Room(r, 1) /\ Room(r, 2)
    BY <1>26, NoCallFails DEF OpenFileFails, Goes
  <2>2. target[r] # "unwritable" => FALSE
    BY <1>26, <2>1 DEF OpenFileFails
  <2> QED
    BY <1>26, <2>2
       DEF OpenFileFails, Goes, Domains, TypeRequest, Descriptors, Progress,
           Ways, Answered, Expected, Mapped, Files, OwnsConn, Thread,
           SendFails, clients, logVars, loopVars, lockVars, pipeVars
<1>27. ASSUME NEW r \in Requests, LockFile(r)  PROVE  Answered'
  BY <1>27, <1>0
     DEF LockFile, Goes, Thread, Domains, TypeRequest, Descriptors,
         Progress, Ways, Answered, Expected, Mapped, Files, OwnsConn,
         SendFails, clients, logVars, loopVars, lockVars, pipeVars
<1>28. ASSUME NEW r \in Requests, LockFileFails(r)  PROVE  Answered'
  BY <1>28, <1>0
     DEF LockFileFails, Goes, Domains, TypeRequest, Descriptors,
         Progress, Ways, Answered, Expected, Mapped, Files, OwnsConn,
         Thread, SendFails, clients, logVars, loopVars, lockVars,
         pipeVars
<1>29. ASSUME NEW r \in Requests, MapEmptyFile(r)  PROVE  Answered'
  BY <1>29, <1>0
     DEF MapEmptyFile, Goes, Domains, TypeRequest, Descriptors,
         Progress, Ways, Answered, Expected, Mapped, Files, OwnsConn,
         Thread, SendFails, clients, logVars, loopVars, lockVars,
         pipeVars
<1>30. ASSUME NEW r \in Requests, MapFails(r)  PROVE  Answered'
  BY <1>30, <1>0
     DEF MapFails, Goes, ReleaseLockf, CloseFd, Domains, TypeRequest,
         Descriptors, Progress, Ways, Answered, Expected, Mapped, Files,
         OwnsConn, Thread, SendFails, clients, logVars, loopVars,
         lockVars, pipeVars
<1>31. ASSUME NEW r \in Requests, MapFile(r)  PROVE  Answered'
  BY <1>31, <1>0
     DEF MapFile, Goes, Domains, TypeRequest, Descriptors, Progress,
         Ways, Answered, Expected, Mapped, Files, OwnsConn, Thread,
         SendFails, clients, logVars, loopVars, lockVars, pipeVars
<1>32. ASSUME NEW r \in Requests, SendFile(r)  PROVE  Answered'
  BY <1>32, <1>0
     DEF SendFile, Goes, SendMapped, SendFails, Domains, TypeRequest,
         Descriptors, Progress, Ways, Answered, Expected, Mapped, Files,
         OwnsConn, Thread, clients, logVars, loopVars, lockVars,
         pipeVars
<1>33. ASSUME NEW r \in Requests, SendInline(r)  PROVE  Answered'
  BY <1>33, <1>0
     DEF SendInline, Goes, SendMapped, SendFails, Domains, TypeRequest,
         Descriptors, Progress, Ways, Answered, Expected, Mapped, Files,
         OwnsConn, Thread, clients, logVars, loopVars, lockVars,
         pipeVars
<1>34. ASSUME NEW r \in Requests, JoinNothing(r)  PROVE  Answered'
  BY <1>34, <1>0
     DEF JoinNothing, Goes, Domains, TypeRequest, Descriptors, Progress,
         Ways, Answered, Expected, Mapped, Files, OwnsConn, Thread,
         SendFails, clients, logVars, loopVars, lockVars, pipeVars
<1>35. ASSUME NEW r \in Requests, UnlockFile(r)  PROVE  Answered'
  BY <1>35, <1>0
     DEF UnlockFile, Goes, Thread, ReleaseLockf, Domains, TypeRequest,
         Descriptors, Progress, Ways, Answered, Expected, Mapped, Files,
         OwnsConn, SendFails, clients, logVars, loopVars, lockVars,
         pipeVars
<1>36. ASSUME NEW r \in Requests, CloseFile(r)  PROVE  Answered'
  BY <1>36, <1>0
     DEF CloseFile, Goes, CloseFd, Domains, TypeRequest, Descriptors,
         Progress, Ways, Answered, Expected, Mapped, Files, OwnsConn,
         Thread, SendFails, clients, logVars, loopVars, lockVars,
         pipeVars
<1>37. ASSUME NEW r \in Requests, CloseServedClient(r)  PROVE  Answered'
  <2>1. /\ pc[r] = "closeclient" /\ pc'[r] \in {"log", "clean"}
        /\ \A q \in Requests \ {r} : pc'[q] = pc[q]
        /\ UNCHANGED <<target, left, reply, main>>
    BY <1>37 DEF CloseServedClient, Goes, TypeOK, clients, loopVars
  <2>2. \A q \in Requests \ {r} : conn'[q] = conn[q]
    BY <1>37, <2>1, ClosesItsOwn, CloseClient(r), ~Thread(r) \/ OwnsConn(r)
       DEF CloseServedClient, OwnsConn
  <2> QED
    BY <2>1, <2>2 DEF Answered, Expected
<1>38. ASSUME NEW r \in Requests, LogRequest(r)  PROVE  Answered'
  BY <1>38, <1>0
     DEF LogRequest, Goes, AL!Accept, Domains, TypeRequest, Descriptors,
         Progress, Ways, Answered, Expected, Mapped, Files, OwnsConn,
         Thread, SendFails, clients, logVars, loopVars, lockVars,
         pipeVars
<1>39. ASSUME NEW r \in Requests, CleanRequest(r)  PROVE  Answered'
  <2>1. /\ pc[r] = "clean" /\ pc'[r] = "done"
        /\ \A q \in Requests \ {r} : pc'[q] = pc[q]
        /\ UNCHANGED <<target, left, reply, main>>
    BY <1>39 DEF CleanRequest, Goes, TypeOK, clients, loopVars
  <2>2. \A q \in Requests \ {r} : conn'[q] = conn[q]
    <3>1. CASE type[r] = 1 \/ ~Thread(r)
      BY <1>39, <2>1, <3>1, ClosesItsOwn DEF CleanRequest, OwnsConn
    <3>2. CASE ~(type[r] = 1 \/ ~Thread(r))
      BY <1>39, <3>2 DEF CleanRequest
    <3> QED
      BY <3>1, <3>2
  <2> QED
    BY <2>1, <2>2 DEF Answered, Expected
<1>40. ASSUME NEW r \in Requests, ThreadDies(r)  PROVE  Answered'
  BY <1>40, <1>0
     DEF ThreadDies, ServerEnds, SendFails, Sends, Dies, Thread,
         Domains, TypeRequest, Descriptors, Progress, Ways, Answered,
         Expected, Mapped, Files, OwnsConn, clients, logVars, loopVars,
         lockVars, pipeVars
<1>41. ASSUME NEW r \in Requests, ChildDies(r)  PROVE  Answered'
  <2>1. r \in left /\ ~Thread(r)
    BY <1>41 DEF ChildDies, Dies, SendFails, Ways
  <2>2. /\ \A q \in Requests \ {r} : pc'[q] = pc[q]
        /\ UNCHANGED <<target, left, reply, main>>
    BY <1>41 DEF ChildDies, TypeOK, clients, loopVars
  <2>3. \A q \in Requests \ {r} : conn'[q] = conn[q]
    BY <1>41, <2>1, ClosesItsOwn DEF ChildDies
  <2> QED
    BY <2>1, <2>2, <2>3 DEF Answered, Expected
<1>42. CASE UNCHANGED vars
  BY <1>42
     DEF vars, Domains, TypeRequest, Descriptors, Progress, Ways,
         Answered, Expected, Mapped, Files, OwnsConn, Thread, SendFails,
         clients, logVars, loopVars, lockVars, pipeVars
<1> QED
  BY <1>1, <1>2, <1>3, <1>4, <1>5, <1>6, <1>7, <1>8, <1>9, <1>10, <1>11,
     <1>12, <1>13, <1>14, <1>15, <1>16, <1>17, <1>18, <1>19, <1>20, <1>21,
     <1>22, <1>23, <1>24, <1>25, <1>26, <1>27, <1>28, <1>29, <1>30, <1>31,
     <1>32, <1>33, <1>34, <1>35, <1>36, <1>37, <1>38, <1>39, <1>40, <1>41,
     <1>42
     DEF Next, MainStep, HandlerStep

\* With room in the table, and a healthy site, a handler gives back all it has.
LEMMA KeptStep ==
  ASSUME EnoughDescriptors, ~CallsMayFail, HealthySite, Inv, Table, Ways, Kept,
         [Next]_vars
  PROVE  Kept'
<1> USE ServerAssumption, Distinct DEF Inv, HealthySite
<1>0. Domains
  BY DEF TypeOK, Domains
<1>1. CASE Reopen
  BY <1>1, <1>0
     DEF Reopen, LowestFree, Free, Domains, TypeRequest, Descriptors,
         Locks, Table, Ways, Kept, Mapped, Files, OwnsConn, OwnsFile,
         Thread, SendFails, clients, logVars, loopVars, lockVars,
         pipeVars
<1>2. CASE ReopenFails
  BY <1>2, <1>0
     DEF ReopenFails, ServerEnds, Thread, Domains, TypeRequest,
         Descriptors, Locks, Table, Ways, Kept, Mapped, Files, OwnsConn,
         OwnsFile, SendFails, clients, logVars, loopVars, lockVars,
         pipeVars
<1>3. CASE BeginReload
  BY <1>3, <1>0
     DEF BeginReload, Domains, TypeRequest, Descriptors, Locks, Table,
         Ways, Kept, Mapped, Files, OwnsConn, OwnsFile, Thread,
         SendFails, clients, logVars, loopVars, lockVars, pipeVars
<1>4. CASE LoggerWrites
  BY <1>4, <1>0
     DEF LoggerWrites, AL!Record, Domains, TypeRequest, Descriptors,
         Locks, Table, Ways, Kept, Mapped, Files, OwnsConn, OwnsFile,
         Thread, SendFails, clients, logVars, loopVars, lockVars,
         pipeVars
<1>5. ASSUME NEW r \in Requests, Connect(r)  PROVE  Kept'
  BY <1>5, <1>0
     DEF Connect, Domains, TypeRequest, Descriptors, Locks, Table, Ways,
         Kept, Mapped, Files, OwnsConn, OwnsFile, Thread, SendFails,
         clients, logVars, loopVars, lockVars, pipeVars
<1>6. ASSUME NEW r \in Requests, ClientLeaves(r)  PROVE  Kept'
  BY <1>6, <1>0
     DEF ClientLeaves, Domains, TypeRequest, Descriptors, Locks, Table,
         Ways, Kept, Mapped, Files, OwnsConn, OwnsFile, Thread,
         SendFails, clients, logVars, loopVars, lockVars, pipeVars
<1>7. ASSUME NEW r \in Requests, Accept(r)  PROVE  Kept'
  BY <1>7, <1>0
     DEF Accept, Goes, LowestFree, Free, Domains, TypeRequest,
         Descriptors, Locks, Table, Ways, Kept, Mapped, Files, OwnsConn,
         OwnsFile, Thread, SendFails, clients, logVars, loopVars,
         lockVars, pipeVars
<1>8. ASSUME NEW r \in Requests, Spawn(r)  PROVE  Kept'
  BY <1>8, <1>0
     DEF Spawn, Goes, Thread, Domains, TypeRequest, Descriptors, Locks,
         Table, Ways, Kept, Mapped, Files, OwnsConn, OwnsFile,
         SendFails, clients, logVars, loopVars, lockVars, pipeVars
<1>9. ASSUME NEW r \in Requests, SpawnFails(r)  PROVE  Kept'
  BY <1>9, <1>0
     DEF SpawnFails, Goes, Domains, TypeRequest, Descriptors, Locks,
         Table, Ways, Kept, Mapped, Files, OwnsConn, OwnsFile, Thread,
         SendFails, clients, logVars, loopVars, lockVars, pipeVars
<1>10. ASSUME NEW r \in Requests, ReadRequest(r)  PROVE  Kept'
  <2>1. /\ pc[r] = "read" /\ UNCHANGED <<fdt, cfd, ffd, pmutex, left, hmode>>
        /\ \/ /\ pc' = [pc EXCEPT ![r] = "clean"]
              /\ type' = [type EXCEPT ![r] = 1]
           \/ pc' = [pc EXCEPT ![r] = "stat"] /\ type' = type
    BY <1>10 DEF ReadRequest, TypeOK, clients, lockVars
  <2>2. \A q \in Requests \ {r} : pc'[q] = pc[q] /\ type'[q] = type[q]
    BY <2>1 DEF TypeOK
  <2>3. OwnsConn(r) => OwnsConn(r)'
    BY <2>1 DEF OwnsConn, Thread, TypeOK
  <2>4. ~OwnsFile(r) /\ pmutex # r /\ pc[r] \notin {"abandoned", "killed"}
    BY <2>1 DEF OwnsFile, Kept
  <2> QED
    BY <2>1, <2>2, <2>3, <2>4 DEF Kept, OwnsConn, OwnsFile, Thread
<1>11. ASSUME NEW r \in Requests, ReadNothing(r)  PROVE  Kept'
  BY <1>11, <1>0
     DEF ReadNothing, Goes, Domains, TypeRequest, Descriptors, Locks,
         Table, Ways, Kept, Mapped, Files, OwnsConn, OwnsFile, Thread,
         SendFails, clients, logVars, loopVars, lockVars, pipeVars
<1>12. ASSUME NEW r \in Requests, FileFound(r)  PROVE  Kept'
  BY <1>12, <1>0
     DEF FileFound, Goes, Domains, TypeRequest, Descriptors, Locks,
         Table, Ways, Kept, Mapped, Files, OwnsConn, OwnsFile, Thread,
         SendFails, clients, logVars, loopVars, lockVars, pipeVars
<1>13. ASSUME NEW r \in Requests, FileMissing(r)  PROVE  Kept'
  BY <1>13, <1>0
     DEF FileMissing, Goes, SendFails, Domains, TypeRequest,
         Descriptors, Locks, Table, Ways, Kept, Mapped, Files, OwnsConn,
         OwnsFile, Thread, clients, logVars, loopVars, lockVars,
         pipeVars
<1>14. ASSUME NEW r \in Requests, OpenCommand(r)  PROVE  Kept'
  <2>1. /\ pc[r] = "code" /\ pc'[r] = "pipe"
        /\ \A q \in Requests \ {r} : pc'[q] = pc[q]
        /\ UNCHANGED <<hmode, left, type>>
    BY <1>14 DEF OpenCommand, Goes, TypeOK, clients
  <2>2. \A n \in Fd : fdt'[n] \in {fdt[n], Pipe(r)}
    <3>1. CASE Thread(r)
      <4>1. PICK a, b \in Free :
              fdt' = [fdt EXCEPT ![a] = Pipe(r), ![b] = Pipe(r)]
        BY <1>14, <3>1 DEF OpenCommand, OpenPipe
      <4> QED
        BY <4>1 DEF Free, TypeOK
    <3>2. CASE ~Thread(r)
      BY <1>14, <3>2 DEF OpenCommand, OpenPipe
    <3> QED
      BY <3>1, <3>2
  <2>3. UNCHANGED pmutex
    BY <1>14, <2>1 DEF OpenCommand, lockVars, Kept, Locks, TypeOK, Thread
  <2> QED
    BY <2>1, <2>2, <2>3, KeptClosing
       DEF OwnsConn, OwnsFile, Thread, Kept
<1>15. ASSUME NEW r \in Requests, OpenCommandFails(r)  PROVE  Kept'
  BY <1>15, NoCallFails DEF OpenCommandFails, Goes
<1>16. ASSUME NEW r \in Requests, StartCommand(r)  PROVE  Kept'
  <2>1. /\ pc[r] = "pipe" /\ pc'[r] = "type"
        /\ \A q \in Requests \ {r} : pc'[q] = pc[q]
        /\ UNCHANGED <<hmode, left, type>>
    BY <1>16 DEF StartCommand, Goes, TypeOK, clients
  <2>2. \A n \in Fd : fdt'[n] \in {fdt[n], Unused}
    BY <1>16, <2>1 DEF StartCommand, TypeOK
  <2>3. UNCHANGED pmutex
    BY <1>16, <2>1 DEF StartCommand, lockVars, Kept, Locks, TypeOK, Thread
  <2> QED
    BY <2>1, <2>2, <2>3, KeptClosing
       DEF OwnsConn, OwnsFile, Thread, Kept
<1>17. ASSUME NEW r \in Requests, GetCode(r)  PROVE  Kept'
  <2>1. /\ pc[r] = "type" /\ pc'[r] \in {"line", "serve"}
        /\ \A q \in Requests \ {r} : pc'[q] = pc[q]
        /\ UNCHANGED <<hmode, left, type>>
    BY <1>17 DEF GetCode, Goes, InListing, TypeOK, clients
  <2>2. /\ \A n \in Fd : fdt'[n] \in {fdt[n], Unused}
        /\ type[r] = 1 => pc'[r] = "line"
    BY <1>17, <2>1 DEF GetCode, Goes, InListing, TypeOK
  <2>3. UNCHANGED pmutex
    BY <1>17, <2>1 DEF GetCode, lockVars, Kept, Locks, TypeOK, Thread
  <2> QED
    BY <2>1, <2>2, <2>3, KeptClosing
       DEF OwnsConn, OwnsFile, Thread, Kept
<1>18. ASSUME NEW r \in Requests, ServeNothing(r)  PROVE  Kept'
  BY <1>18 DEF ServeNothing, Goes, TypeOK, Ways
<1>19. ASSUME NEW r \in Requests, OpenDirectory(r)  PROVE  Kept'
  BY <1>19, <1>0
     DEF OpenDirectory, Goes, OpenFd, LowestFree, Free, AfterEntries,
         Domains, TypeRequest, Descriptors, Locks, Table, Ways, Kept,
         Mapped, Files, OwnsConn, OwnsFile, Thread, SendFails, clients,
         logVars, loopVars, lockVars, pipeVars
<1>20. ASSUME NEW r \in Requests, OpenDirectoryFails(r)  PROVE  Kept'
  BY <1>20, NoCallFails DEF OpenDirectoryFails, Goes
<1>21. ASSUME NEW r \in Requests, SendLine(r)  PROVE  Kept'
  BY <1>21, <1>0
     DEF SendLine, Goes, AfterEntries, Domains, TypeRequest,
         Descriptors, Locks, Table, Ways, Kept, Mapped, Files, OwnsConn,
         OwnsFile, Thread, SendFails, clients, logVars, loopVars,
         lockVars, pipeVars
<1>22. ASSUME NEW r \in Requests, SendLineFails(r)  PROVE  Kept'
  BY <1>22, <1>0
     DEF SendLineFails, Goes, SendFails, Domains, TypeRequest,
         Descriptors, Locks, Table, Ways, Kept, Mapped, Files, OwnsConn,
         OwnsFile, Thread, clients, logVars, loopVars, lockVars,
         pipeVars
<1>23. ASSUME NEW r \in Requests, CloseDirectory(r)  PROVE  Kept'
  BY <1>23, <1>0
     DEF CloseDirectory, Goes, CloseFd, Domains, TypeRequest,
         Descriptors, Locks, Table, Ways, Kept, Mapped, Files, OwnsConn,
         OwnsFile, Thread, SendFails, clients, logVars, loopVars,
         lockVars, pipeVars
<1>24. ASSUME NEW r \in Requests, ServeFile(r)  PROVE  Kept'
  BY <1>24, <1>0
     DEF ServeFile, Goes, Domains, TypeRequest, Descriptors, Locks,
         Table, Ways, Kept, Mapped, Files, OwnsConn, OwnsFile, Thread,
         SendFails, clients, logVars, loopVars, lockVars, pipeVars
<1>25. ASSUME NEW r \in Requests, OpenFile(r)  PROVE  Kept'
  <2>1. /\ pc[r] = "open" /\ pc'[r] = "lock"
        /\ \A q \in Requests \ {r} : pc'[q] = pc[q]
        /\ UNCHANGED <<hmode, left, type>>
    BY <1>25 DEF OpenFile, Goes, TypeOK, clients
  <2>2. \A n \in Fd : \/ fdt'[n] = fdt[n]
                      \/ fdt'[n] = File(r) /\ Thread(r)
    BY <1>25, <2>1 DEF OpenFile, OpenFd, TypeOK
  <2>3. UNCHANGED pmutex
    BY <1>25, <2>1 DEF OpenFile, lockVars, Kept, Locks, TypeOK, Thread
  <2> QED
    BY <2>1, <2>2, <2>3, KeptClosing
       DEF OwnsConn, OwnsFile, Thread, Kept
<1>26. ASSUME NEW r \in Requests, OpenFileFails(r)  PROVE  Kept'
  BY <1>26, NoCallFails DEF OpenFileFails, Goes, TypeOK
<1>27. ASSUME NEW r \in Requests, LockFile(r)  PROVE  Kept'
  BY <1>27, <1>0
     DEF LockFile, Goes, Thread, Domains, TypeRequest, Descriptors,
         Locks, Table, Ways, Kept, Mapped, Files, OwnsConn, OwnsFile,
         SendFails, clients, logVars, loopVars, lockVars, pipeVars
<1>28. ASSUME NEW r \in Requests, LockFileFails(r)  PROVE  Kept'
  BY <1>28, <1>0
     DEF LockFileFails, Goes, Domains, TypeRequest, Descriptors, Locks,
         Table, Ways, Kept, Mapped, Files, OwnsConn, OwnsFile, Thread,
         SendFails, clients, logVars, loopVars, lockVars, pipeVars
<1>29. ASSUME NEW r \in Requests, MapEmptyFile(r)  PROVE  Kept'
  BY <1>29 DEF MapEmptyFile, Goes, TypeOK, Ways
<1>30. ASSUME NEW r \in Requests, MapFails(r)  PROVE  Kept'
  BY <1>30 DEF MapFails, Goes, TypeOK, Ways
<1>31. ASSUME NEW r \in Requests, MapFile(r)  PROVE  Kept'
  BY <1>31, <1>0
     DEF MapFile, Goes, Domains, TypeRequest, Descriptors, Locks, Table,
         Ways, Kept, Mapped, Files, OwnsConn, OwnsFile, Thread,
         SendFails, clients, logVars, loopVars, lockVars, pipeVars
<1>32. ASSUME NEW r \in Requests, SendFile(r)  PROVE  Kept'
  BY <1>32, <1>0
     DEF SendFile, Goes, SendMapped, SendFails, Domains, TypeRequest,
         Descriptors, Locks, Table, Ways, Kept, Mapped, Files, OwnsConn,
         OwnsFile, Thread, clients, logVars, loopVars, lockVars,
         pipeVars
<1>33. ASSUME NEW r \in Requests, SendInline(r)  PROVE  Kept'
  BY <1>33, <1>0
     DEF SendInline, Goes, SendMapped, SendFails, Domains, TypeRequest,
         Descriptors, Locks, Table, Ways, Kept, Mapped, Files, OwnsConn,
         OwnsFile, Thread, clients, logVars, loopVars, lockVars,
         pipeVars
<1>34. ASSUME NEW r \in Requests, JoinNothing(r)  PROVE  Kept'
  BY <1>34, <1>0
     DEF JoinNothing, Goes, Domains, TypeRequest, Descriptors, Locks,
         Table, Ways, Kept, Mapped, Files, OwnsConn, OwnsFile, Thread,
         SendFails, clients, logVars, loopVars, lockVars, pipeVars
<1>35. ASSUME NEW r \in Requests, UnlockFile(r)  PROVE  Kept'
  BY <1>35, <1>0
     DEF UnlockFile, Goes, Thread, ReleaseLockf, Domains, TypeRequest,
         Descriptors, Locks, Table, Ways, Kept, Mapped, Files, OwnsConn,
         OwnsFile, SendFails, clients, logVars, loopVars, lockVars,
         pipeVars
<1>36. ASSUME NEW r \in Requests, CloseFile(r)  PROVE  Kept'
  <2>1. /\ pc[r] = "closefile" /\ pc'[r] = "closeclient"
        /\ \A q \in Requests \ {r} : pc'[q] = pc[q]
        /\ UNCHANGED <<hmode, left, type>>
    BY <1>36 DEF CloseFile, Goes, TypeOK, clients
  <2>2. /\ \A n \in Fd : fdt'[n] \in {fdt[n], Unused}
        /\ \A n \in Fd : OwnsFile(r) => fdt'[n] # File(r)
    BY <1>36, <2>1 DEF CloseFile, CloseFd, OwnsFile, Table, TypeOK
  <2>3. UNCHANGED pmutex
    BY <1>36, <2>1 DEF CloseFile, lockVars, Kept, Locks, TypeOK, Thread
  <2> QED
    BY <2>1, <2>2, <2>3, KeptClosing
       DEF OwnsConn, OwnsFile, Thread, Kept
<1>37. ASSUME NEW r \in Requests, CloseServedClient(r)  PROVE  Kept'
  BY <1>37, <1>0
     DEF CloseServedClient, Goes, CloseClient, Domains, TypeRequest,
         Descriptors, Locks, Table, Ways, Kept, Mapped, Files, OwnsConn,
         OwnsFile, Thread, SendFails, clients, logVars, loopVars,
         lockVars, pipeVars
<1>38. ASSUME NEW r \in Requests, LogRequest(r)  PROVE  Kept'
  <2>1. /\ pc[r] = "log" /\ pc'[r] = "clean"
        /\ \A q \in Requests \ {r} : pc'[q] = pc[q]
        /\ UNCHANGED <<hmode, left, type>>
    BY <1>38 DEF LogRequest, Goes, TypeOK, clients
  <2>2. type[r] = 0 /\ UNCHANGED fdt
    BY <1>38, <2>1 DEF LogRequest, TypeRequest
  <2>3. UNCHANGED pmutex
    BY <1>38, <2>1 DEF LogRequest, lockVars, Kept, Locks, TypeOK, Thread
  <2> QED
    BY <2>1, <2>2, <2>3, KeptClosing
       DEF OwnsConn, OwnsFile, Thread, Kept
<1>39. ASSUME NEW r \in Requests, CleanRequest(r)  PROVE  Kept'
  <2>1. /\ pc[r] = "clean" /\ pc'[r] = "done"
        /\ \A q \in Requests \ {r} : pc'[q] = pc[q]
        /\ UNCHANGED <<hmode, left, type>>
    BY <1>39 DEF CleanRequest, Goes, TypeOK, clients
  <2>2. /\ \A n \in Fd : fdt'[n] \in {fdt[n], Unused}
        /\ OwnsConn(r) => \A n \in Fd : fdt'[n] # Conn(r)
    <3>1. CASE OwnsConn(r)
      <4>1. fdt' = [fdt EXCEPT ![cfd[r]] = Unused]
        BY <1>39, <2>1, <3>1 DEF CleanRequest, CloseClient, OwnsConn
      <4>2. \A n \in Fd : fdt[n] = Conn(r) => cfd[r] = n
        BY DEF Table
      <4> QED
        BY <4>1, <4>2 DEF TypeOK
    <3>2. CASE ~OwnsConn(r)
      BY <1>39, <3>2 DEF CleanRequest, CloseClient, TypeOK
    <3> QED
      BY <3>1, <3>2
  <2>3. UNCHANGED pmutex
    BY <1>39, <2>1 DEF CleanRequest, lockVars, Kept, Locks, TypeOK, Thread
  <2> QED
    BY <2>1, <2>2, <2>3, KeptClosing
       DEF OwnsConn, OwnsFile, Thread, Kept
<1>40. ASSUME NEW r \in Requests, ThreadDies(r)  PROVE  Kept'
  BY <1>40, <1>0
     DEF ThreadDies, ServerEnds, SendFails, Sends, Dies, Thread,
         Domains, TypeRequest, Descriptors, Locks, Table, Ways, Kept,
         Mapped, Files, OwnsConn, OwnsFile, clients, logVars, loopVars,
         lockVars, pipeVars
<1>41. ASSUME NEW r \in Requests, ChildDies(r)  PROVE  Kept'
  BY <1>41, <1>0
     DEF ChildDies, SendFails, Sends, Dies, Thread, CloseClient,
         ReleaseLockf, Domains, TypeRequest, Descriptors, Locks, Table,
         Ways, Kept, Mapped, Files, OwnsConn, OwnsFile, clients,
         logVars, loopVars, lockVars, pipeVars
<1>42. CASE UNCHANGED vars
  BY <1>42
     DEF vars, Domains, TypeRequest, Descriptors, Locks, Table, Ways,
         Kept, Mapped, Files, OwnsConn, OwnsFile, Thread, SendFails,
         clients, logVars, loopVars, lockVars, pipeVars
<1> QED
  BY <1>1, <1>2, <1>3, <1>4, <1>5, <1>6, <1>7, <1>8, <1>9, <1>10, <1>11,
     <1>12, <1>13, <1>14, <1>15, <1>16, <1>17, <1>18, <1>19, <1>20, <1>21,
     <1>22, <1>23, <1>24, <1>25, <1>26, <1>27, <1>28, <1>29, <1>30, <1>31,
     <1>32, <1>33, <1>34, <1>35, <1>36, <1>37, <1>38, <1>39, <1>40, <1>41,
     <1>42
     DEF Next, MainStep, HandlerStep

-----------------------------------------------------------------------------
(* With enough descriptors *)

LEMMA AnsweredClosed == Answered => ClosedAfterAnswer
  BY DEF Answered, ClosedAfterAnswer

LEMMA KeptNothing ==
  ASSUME Leftover = 0, Inv, Table, Kept
  PROVE  NothingLeaks
<1> SUFFICES ASSUME \A r \in Requests : pc[r] \in {"none", "done"}
             PROVE  /\ \A n \in Fd :
                         \/ fdt[n] \in {Unused, Listener}
                         \/ \E r \in left : fdt[n] \in {Conn(r), File(r)}
                    /\ pmutex = NoOne
  BY DEF NothingLeaks
<1>1. pmutex = NoOne
  BY DEF Kept, Inv, TypeOK
<1>2. ASSUME NEW n \in Fd, fdt[n] \notin {Unused, Listener}
      PROVE  \E r \in left : fdt[n] \in {Conn(r), File(r)}
  <2>1. 2..(Leftover + 1) = {}
    OBVIOUS
  <2>2. \A r \in Requests : fdt[n] # Pipe(r)
    BY DEF Table
  <2>3. PICK r \in Requests : fdt[n] \in {Conn(r), File(r)}
    BY <1>2, <2>1, <2>2 DEF Table
  <2>4. ~OwnsConn(r) /\ ~OwnsFile(r)
    BY DEF OwnsConn, OwnsFile
  <2>5. r \in left
    BY <2>3, <2>4 DEF Kept
  <2> QED
    BY <2>3, <2>5
<1> QED
  BY <1>1, <1>2

\* What the table refers to, and what each handler was asked for, whatever the
\* number of descriptors.
THEOREM MoreInvariance == Spec => [](Inv /\ Table /\ Ways)
<1>1. Init => Inv /\ Table /\ Ways
  BY InitInv, InitMore
<1>2. Inv /\ Table /\ Ways /\ [Next]_vars => Table' /\ Ways'
  BY TableStep, WaysStep DEF Inv
<1> QED
  BY <1>1, <1>2, Invariance, PTL DEF Spec

\* accept(), open(), opendir() and popen() never fail for want of a descriptor
\* when there are, besides the listening socket and what was open before, four
\* for each request: whoever is about to take some finds two, and a server that
\* opens its socket again finds one.
THEOREM NeverOutOfDescriptors ==
  ASSUME EnoughDescriptors
  PROVE  Spec => []RoomForAll
<1>1. Inv /\ Table /\ Ways => RoomForAll
  BY AlwaysRoom DEF Inv
<1> QED
  BY <1>1, MoreInvariance, PTL

\* ClosedAfterAnswer: with enough descriptors, calls that fail for nothing but
\* want of one, and no file too large for one send(), no path through
\* handle_request closes the connection of a client that stays before the whole
\* answer is sent.
THEOREM NobodyUnanswered ==
  ASSUME EnoughDescriptors, ~CallsMayFail, "huge" \notin Targets
  PROVE  Spec => []ClosedAfterAnswer
<1>1. Init => Answered
  BY InitMore
<1>2. (Inv /\ Table /\ Ways) /\ Answered /\ [Next]_vars => Answered'
  BY AnsweredStep
<1> QED
  BY <1>1, <1>2, AnsweredClosed, MoreInvariance, PTL DEF Spec

\* NothingLeaks: with enough descriptors, calls that fail for nothing but want
\* of one, a first run and a site whose files can all be locked and mapped, only
\* clients that leave cost the server a descriptor, and not even they cost it
\* p_mutex.
THEOREM NothingIsKept ==
  ASSUME EnoughDescriptors, ~CallsMayFail, HealthySite, Leftover = 0
  PROVE  Spec => []NothingLeaks
<1>1. Init => Kept
  BY InitMore
<1>2. (Inv /\ Table /\ Ways) /\ Kept /\ [Next]_vars => Kept'
  BY KeptStep
<1>3. (Inv /\ Table /\ Ways) /\ Kept => NothingLeaks
  BY KeptNothing
<1> QED
  BY <1>1, <1>2, <1>3, MoreInvariance, PTL DEF Spec

=============================================================================
