---------------------------- MODULE WindowsServer ----------------------------
(***************************************************************************)
(* The Windows server: the loop of windows_socket_runner, which Ctrl-C     *)
(* makes return to main, and the two ways it serves a connection:          *)
(*   - a thread that is given a pointer to the runner's one args;          *)
(*   - a process of its own, to which the runner duplicates the socket     *)
(*     through one instance of a named pipe, and for which it waits.       *)
(* A thread or process sends a mapped file from yet another thread, does   *)
(* not wait for it, and hands a record to its log process (WindowsLog).    *)
(*                                                                         *)
(* A connection is named by its request and never renamed: that a closed   *)
(* socket's handle is given out again is not modelled.                     *)
(***************************************************************************)
EXTENDS WindowsLog, FiniteSets

CONSTANTS
  NoConn,        \* a value of args.fd that is no connection
  Scenarios,     \* what the clients ask for, how often Ctrl-C is pressed and
                 \* how often select() fails
  CallsMayFail   \* can calls of the system fail, and the file be refused?

\* "absent": the client does not connect.
AllTargets == {"absent", "missing", "directory", "file", "empty"}

ASSUME WindowsAssumption ==
  /\ NoConn \notin Requests
  /\ Scenarios \subseteq [asks : [Requests -> AllTargets],
                          events : Nat, failures : Nat]
  /\ CallsMayFail \in BOOLEAN

Modes == {"Thread", "Process"}

VARIABLES
  target,     \* what each client asks for
  runner,     \* where the server's main thread is
  cur,        \* the runner's client and clientAddr: the last one accept() took
  mode,       \* mode_concurrency of the configuration
  flag,       \* reset_config
  unseen,     \* ghost: Ctrl-C was pressed since the last reading of the file
  events,     \* Ctrl-C events to come
  failures,   \* failures of select() to come
  argsFd,     \* args.fd
  argsMode,   \* args.configs.mode_concurrency
  inst,       \* the named pipe's instance, from the runner's end
  info,       \* is the protocol information in the named pipe?
  conn,       \* each connection, before it is accepted and after
  handles,    \* who has a handle of it: the server, its request process
  taken,      \* has the request been received from it?
  sent,       \* what has been sent on it, and by which handler
  pc,         \* where the handler of each request is
  kind,       \* thread or process
  job,        \* what the selector it received asks for
  snd,        \* its sending thread
  sndFd,      \* the connection that thread was given
  overtaken   \* ghost: the threads whose args have been overwritten

loopVars == <<target, mode, flag, unseen, events, failures>>
argsVars == <<cur, argsFd, argsMode, overtaken>>
pipeVars == <<inst, info>>
connVars == <<conn, handles, taken, sent>>
handlerVars == <<pc, kind, job, snd, sndFd>>
vars == <<loopVars, runner, argsVars, pipeVars, connVars, handlerVars,
          wlogVars>>

Answers == {"error", "listing", "file"}

Ended == {"done", "failed", "killed"}

HandlerPC == {"none", "begin", "openpipe", "readinfo", "recv", "error", "list",
              "map", "mapped", "pipe", "redirect", "create", "restore",
              "redirect2", "write", "event", "clean"} \cup Ended

TypeOK ==
  /\ target \in [Requests -> AllTargets]
  /\ runner \in {"start", "select", "spawn", "duplicate", "connect",
                 "connecting", "handoff", "disconnect", "wait", "ending",
                 "clear", "parse", "parsing", "dead"}
  /\ cur \in Requests \cup {NoConn}
  /\ mode \in Modes
  /\ flag \in BOOLEAN
  /\ unseen \in BOOLEAN
  /\ events \in Nat
  /\ failures \in Nat
  /\ argsFd \in Requests \cup {NoConn}
  /\ argsMode \in Modes
  /\ inst \in {"listening", "connected", "disconnected"}
  /\ info \in BOOLEAN
  /\ conn \in [Requests -> {"none", "queued", "accepted", "stranded", "reset"}]
  /\ handles \in [Requests -> SUBSET {"server", "process"}]
  /\ taken \in [Requests -> BOOLEAN]
  /\ sent \in [Requests -> SUBSET (Requests \X Answers)]
  /\ pc \in [Requests -> HandlerPC]
  /\ kind \in [Requests -> {"none", "thread", "process"}]
  /\ job \in [Requests -> AllTargets \cup {"none"}]
  /\ snd \in [Requests -> {"none", "running", "ended"}]
  /\ sndFd \in [Requests -> Requests \cup {NoConn}]
  /\ overtaken \subseteq Requests
  /\ WLogTypeOK

Init ==
  /\ \E s \in Scenarios :
       target = s.asks /\ events = s.events /\ failures = s.failures
  /\ runner = "start"
  /\ cur = NoConn
  /\ mode \in Modes
  /\ flag = FALSE
  /\ unseen = FALSE
  /\ argsFd = NoConn
  /\ argsMode = mode
  /\ inst = "listening"
  /\ info = FALSE
  /\ conn = [r \in Requests |-> "none"]
  /\ handles = [r \in Requests |-> {}]
  /\ taken = [r \in Requests |-> FALSE]
  /\ sent = [r \in Requests |-> {}]
  /\ pc = [r \in Requests |-> "none"]
  /\ kind = [r \in Requests |-> "none"]
  /\ job = [r \in Requests |-> "none"]
  /\ snd = [r \in Requests |-> "none"]
  /\ sndFd = [r \in Requests |-> NoConn]
  /\ overtaken = {}
  /\ WLogInit

-----------------------------------------------------------------------------

Goes(r, from, to) ==
  /\ pc[r] = from
  /\ pc' = [pc EXCEPT ![r] = to]

RunnerGoes(from, to) ==
  /\ runner = from
  /\ runner' = to

Running(r) == pc[r] \notin Ended \cup {"none"}

Threads == {r \in Requests : kind[r] = "thread" /\ Running(r)}
Processes == {r \in Requests : kind[r] = "process" /\ Running(r)}

\* A thread reads args anew each time it needs a field of it; a request
\* process has its own.
Fd(r) == IF kind[r] = "thread" THEN argsFd ELSE r
HandlerMode(r) == IF kind[r] = "thread" THEN argsMode ELSE "Process"
ClientIp(r) == IF kind[r] = "thread" THEN cur ELSE r

Holder(r) == IF kind[r] = "thread" THEN "server" ELSE "process"

\* Can handler r use connection c?
Usable(r, c) == c # NoConn /\ Holder(r) \in handles[c]

Closed(c) == conn[c] = "accepted" /\ handles[c] = {}

\* What becomes of the clients that wait to be accepted.
WaitingGet(state) ==
  conn' = [c \in Requests |-> IF conn[c] = "queued" THEN state ELSE conn[c]]

Drop(holder) == [c \in Requests |-> handles[c] \ {holder}]

\* The pipes whose write end some process still has: the server keeps every
\* pipe it made, a request process its own.
WriteEnds ==
  {r \in Requests : kind[r] = "process" /\ Running(r)} \cup
  {r \in Requests : kind[r] = "thread" /\ runner # "dead"}

\* The server process ends, with its threads and all it has open.
ServerDies ==
  /\ runner' = "dead"
  /\ pc' = [r \in Requests |-> IF r \in Threads THEN "killed" ELSE pc[r]]
  /\ snd' = [r \in Requests |-> IF kind[r] = "thread" /\ snd[r] = "running"
                                  THEN "ended" ELSE snd[r]]
  /\ handles' = Drop("server")
  /\ conn' = [r \in Requests |-> IF conn[r] \in {"queued", "stranded"}
                                    THEN "reset" ELSE conn[r]]
  /\ inst' = "disconnected"
  /\ UNCHANGED info

\* A request process ends, with its sending thread.
ProcessEnds(r, how) ==
  /\ pc' = [pc EXCEPT ![r] = how]
  /\ snd' = [snd EXCEPT ![r] = IF @ = "running" THEN "ended" ELSE @]
  /\ handles' = [handles EXCEPT ![r] = @ \ {"process"}]
  /\ UNCHANGED <<runner, conn, pipeVars>>

Dies(r) == IF kind[r] = "thread" THEN ServerDies ELSE ProcessEnds(r, "killed")

(***************************************************************************)
(* Mutants: each is an action below with a plausible mistake in it.  None   *)
(* is part of Next; put in the place of its action it breaks a property.   *)
(***************************************************************************)

\* main clears the flag when it has read the file, not before
ParseConfig_ClearsFlag ==
  /\ RunnerGoes("parsing", "start")
  /\ mode' \in Modes
  /\ flag' = FALSE
  /\ UNCHANGED <<target, unseen, events, failures, argsVars, pipeVars,
                 connVars, handlerVars, wlogVars>>

\* the runner does not wait for the request process
WaitProcess_Missing ==
  /\ RunnerGoes("wait", "select")
  /\ handles' = [handles EXCEPT ![cur] = @ \ {"server"}]
  /\ UNCHANGED <<loopVars, argsVars, pipeVars, conn, taken, sent, handlerVars,
                 wlogVars>>

\* the runner does not write the protocol information
WriteInfo_Missing ==
  /\ RunnerGoes("handoff", "wait")
  /\ UNCHANGED <<loopVars, argsVars, pipeVars, connVars, handlerVars, wlogVars>>

\* the connection is not put into args before the thread is started
Accept_ArgsLate(r) ==
  /\ conn[r] = "queued"
  /\ RunnerGoes("select", "spawn")
  /\ conn' = [conn EXCEPT ![r] = "accepted"]
  /\ handles' = [handles EXCEPT ![r] = {"server"}]
  /\ cur' = r
  /\ overtaken' = overtaken \cup Threads
  /\ UNCHANGED <<loopVars, argsFd, argsMode, pipeVars, taken, sent,
                 handlerVars, wlogVars>>

\* a mode that is none is not refused
ParseConfig_AnyMode ==
  /\ RunnerGoes("parsing", "start")
  /\ mode' \in Modes \cup {"unsupported"}
  /\ UNCHANGED <<target, flag, unseen, events, failures, argsVars, pipeVars,
                 connVars, handlerVars, wlogVars>>

-----------------------------------------------------------------------------
(* windows_socket_runner, and main around it *)

\* A client connects while the socket listens.
Connect(r) ==
  /\ runner \notin {"start", "clear", "parse", "parsing", "dead"}
  /\ target[r] # "absent"
  /\ conn[r] = "none"
  /\ conn' = [conn EXCEPT ![r] = "queued"]
  /\ UNCHANGED <<loopVars, runner, argsVars, pipeVars, handles, taken, sent,
                 handlerVars, wlogVars>>

\* Ctrl-C goes to every process of the console: the server's handler sets the
\* flag; a request process or a log process has no handler and ends.
CtrlC ==
  /\ runner # "dead"
  /\ events > 0
  /\ events' = events - 1
  /\ flag' = TRUE
  /\ unseen' = TRUE
  /\ pc' = [r \in Requests |-> IF r \in Processes THEN "killed" ELSE pc[r]]
  /\ snd' = [r \in Requests |-> IF r \in Processes /\ snd[r] = "running"
                                  THEN "ended" ELSE snd[r]]
  /\ handles' = Drop("process")
  /\ LoggersKilled
  /\ UNCHANGED <<target, mode, failures, runner, argsVars, pipeVars, conn, taken,
                 sent, kind, job, sndFd>>

\* socket, bind and listen; args gets a copy of the configuration.
StartRunner ==
  /\ RunnerGoes("start", "select")
  /\ argsMode' = mode
  /\ UNCHANGED <<loopVars, cur, argsFd, overtaken, pipeVars, connVars,
                 handlerVars, wlogVars>>

\* ... fails: the runner returns, and main reads the file and calls it again.
StartRunnerFails ==
  /\ CallsMayFail
  /\ RunnerGoes("start", "clear")
  /\ UNCHANGED <<loopVars, argsVars, pipeVars, connVars, handlerVars, wlogVars>>

\* accept(); the client and its address go into the one args.
Accept(r) ==
  /\ conn[r] = "queued"
  /\ RunnerGoes("select", "spawn")
  /\ conn' = [conn EXCEPT ![r] = "accepted"]
  /\ handles' = [handles EXCEPT ![r] = {"server"}]
  /\ cur' = r
  /\ argsFd' = r
  /\ overtaken' = overtaken \cup Threads
  /\ UNCHANGED <<loopVars, argsMode, pipeVars, taken, sent, handlerVars,
                 wlogVars>>

\* accept() fails, for a client that is gone.  A SOCKET is never negative: the
\* runner goes on with INVALID_SOCKET in args, which is no connection, as if it
\* had accepted one.
AcceptFails(r) ==
  /\ CallsMayFail
  /\ conn[r] = "queued"
  /\ RunnerGoes("select", "spawn")
  /\ conn' = [conn EXCEPT ![r] = "reset"]
  /\ cur' = r
  /\ argsFd' = NoConn
  /\ overtaken' = overtaken \cup Threads
  /\ UNCHANGED <<loopVars, argsMode, pipeVars, handles, taken, sent,
                 handlerVars, wlogVars>>

\* CreateThread(handle_request, &args), or CreateProcess in run_process ...
Spawn ==
  /\ LET thread == argsMode = "Thread" IN
     /\ RunnerGoes("spawn", IF thread THEN "select" ELSE "duplicate")
     /\ kind' = [kind EXCEPT ![cur] = IF thread THEN "thread" ELSE "process"]
     /\ pc' = [pc EXCEPT ![cur] = IF thread THEN "recv" ELSE "begin"]
  /\ UNCHANGED <<loopVars, argsVars, pipeVars, connVars, job, snd, sndFd,
                 wlogVars>>

\* ... fails: the connection is left open.
SpawnFails ==
  /\ CallsMayFail
  /\ RunnerGoes("spawn", "select")
  /\ UNCHANGED <<loopVars, argsVars, pipeVars, connVars, handlerVars, wlogVars>>

\* WSADuplicateSocket for the new process ...
DuplicateSocket ==
  /\ RunnerGoes("duplicate", "connect")
  /\ conn[cur] = "accepted"
  /\ UNCHANGED <<loopVars, argsVars, pipeVars, connVars, handlerVars, wlogVars>>

\* ... ends the server when it fails, as it may for a process that has ended,
\* and does for what accept() did not return.
DuplicateSocketFails ==
  /\ runner = "duplicate"
  /\ CallsMayFail \/ pc[cur] \in Ended \/ conn[cur] # "accepted"
  /\ ServerDies
  /\ UNCHANGED <<loopVars, argsVars, taken, sent, kind, job, sndFd, wlogVars>>

\* ConnectNamedPipe makes the instance listen, and waits ...
ConnectNamedPipe ==
  /\ inst # "connected"
  /\ RunnerGoes("connect", "connecting")
  /\ inst' = "listening"
  /\ UNCHANGED <<loopVars, argsVars, info, connVars, handlerVars, wlogVars>>

\* ... but returns FALSE when the process has opened it already: nothing is
\* written and the instance is not disconnected.
AlreadyConnected ==
  /\ inst = "connected"
  /\ RunnerGoes("connect", "wait")
  /\ UNCHANGED <<loopVars, argsVars, pipeVars, connVars, handlerVars, wlogVars>>

ClientConnected ==
  /\ inst = "connected"
  /\ RunnerGoes("connecting", "handoff")
  /\ UNCHANGED <<loopVars, argsVars, pipeVars, connVars, handlerVars, wlogVars>>

\* WriteFile; it fails when the process has gone.
WriteInfo ==
  /\ RunnerGoes("handoff", "disconnect")
  /\ info' = (pc[cur] = "readinfo")
  /\ UNCHANGED <<loopVars, argsVars, inst, connVars, handlerVars, wlogVars>>

\* DisconnectNamedPipe discards what has not been read.
DisconnectNamedPipe ==
  /\ RunnerGoes("disconnect", "wait")
  /\ inst' = "disconnected"
  /\ info' = FALSE
  /\ UNCHANGED <<loopVars, argsVars, connVars, handlerVars, wlogVars>>

\* WaitForSingleObject on the process, without a limit, then closesocket.
WaitProcess ==
  /\ RunnerGoes("wait", "select")
  /\ pc[cur] \in Ended
  /\ handles' = [handles EXCEPT ![cur] = @ \ {"server"}]
  /\ UNCHANGED <<loopVars, argsVars, pipeVars, conn, taken, sent, handlerVars,
                 wlogVars>>

\* select() times out: only then is the flag looked at.
Timeout ==
  /\ flag
  /\ \A r \in Requests : conn[r] # "queued"
  /\ RunnerGoes("select", "ending")
  /\ UNCHANGED <<loopVars, argsVars, pipeVars, connVars, handlerVars, wlogVars>>

\* When the runner returns args is gone, and what its threads find in its place
\* is undefined.
ArgsGone ==
  /\ argsFd' \in {NoConn} \cup {argsFd : r \in Threads}
  /\ argsMode' \in {argsMode} \cup {m \in Modes : Threads # {}}
  /\ overtaken' = overtaken \cup Threads

\* select() fails: the runner returns without end_server, and the clients that
\* wait at the old socket are never accepted.
SelectFails ==
  /\ failures > 0
  /\ RunnerGoes("select", "clear")
  /\ failures' = failures - 1
  /\ WaitingGet("stranded")
  /\ ArgsGone
  /\ UNCHANGED <<target, mode, flag, unseen, events, cur, pipeVars, handles,
                 taken, sent, handlerVars, wlogVars>>

\* end_server closes the socket, and the runner returns.
EndServer ==
  /\ RunnerGoes("ending", "clear")
  /\ WaitingGet("reset")
  /\ ArgsGone
  /\ UNCHANGED <<loopVars, cur, pipeVars, handles, taken, sent, handlerVars,
                 wlogVars>>

ClearFlag ==
  /\ RunnerGoes("clear", "parse")
  /\ flag' = FALSE
  /\ UNCHANGED <<target, mode, unseen, events, failures, argsVars, pipeVars,
                 connVars, handlerVars, wlogVars>>

\* conf_parseConfigFile reads the file ...
ReadConfig ==
  /\ RunnerGoes("parse", "parsing")
  /\ unseen' = FALSE
  /\ UNCHANGED <<target, mode, flag, events, failures, argsVars, pipeVars,
                 connVars, handlerVars, wlogVars>>

\* ... and sets the configuration.
ParseConfig ==
  /\ RunnerGoes("parsing", "start")
  /\ mode' \in Modes
  /\ UNCHANGED <<target, flag, unseen, events, failures, argsVars, pipeVars,
                 connVars, handlerVars, wlogVars>>

\* ... or ends the server, if the file is missing or wrong.
ParseConfigFails ==
  /\ CallsMayFail
  /\ runner = "parsing"
  /\ ServerDies
  /\ UNCHANGED <<loopVars, argsVars, taken, sent, kind, job, sndFd, wlogVars>>

-----------------------------------------------------------------------------
(* A request process (main_HandleRequest.c), up to handle_request *)

\* It starts its log process first.
BeginProcess(r) ==
  /\ Goes(r, "begin", "openpipe")
  /\ RunLogProcess(r)
  /\ UNCHANGED <<loopVars, runner, argsVars, pipeVars, connVars, kind, job,
                 snd, sndFd>>

\* CreateFile on the named pipe needs an instance that listens.
OpenNamedPipe(r) ==
  /\ inst = "listening"
  /\ Goes(r, "openpipe", "readinfo")
  /\ inst' = "connected"
  /\ UNCHANGED <<loopVars, runner, argsVars, info, connVars, kind, job, snd,
                 sndFd, wlogVars>>

OpenNamedPipeFails(r) ==
  /\ inst # "listening"
  /\ pc[r] = "openpipe"
  /\ ProcessEnds(r, "failed")
  /\ UNCHANGED <<loopVars, argsVars, taken, sent, kind, job, sndFd, wlogVars>>

\* ReadFile, and WSASocket while the server still has the connection.
ReadInfo(r) ==
  /\ info
  /\ "server" \in handles[r]
  /\ Goes(r, "readinfo", "recv")
  /\ info' = FALSE
  /\ handles' = [handles EXCEPT ![r] = @ \cup {"process"}]
  /\ UNCHANGED <<loopVars, runner, argsVars, inst, conn, taken, sent, kind,
                 job, snd, sndFd, wlogVars>>

ReadInfoFails(r) ==
  /\ pc[r] = "readinfo"
  /\ \/ ~info /\ inst = "disconnected"
     \/ info /\ (CallsMayFail \/ "server" \notin handles[r])
  /\ ProcessEnds(r, "failed")
  /\ UNCHANGED <<loopVars, argsVars, taken, sent, kind, job, sndFd, wlogVars>>

-----------------------------------------------------------------------------
(* handle_request, in a thread or in a request process *)

\* recv() gives the request to the first that asks; the next waits.
Receive(r) ==
  /\ Usable(r, Fd(r))
  /\ ~taken[Fd(r)]
  /\ LET asked == target[Fd(r)] IN
     /\ Goes(r, "recv", CASE asked = "missing" -> "error"
                          [] asked = "directory" -> "list"
                          [] OTHER -> "map")
     /\ job' = [job EXCEPT ![r] = asked]
  /\ taken' = [taken EXCEPT ![Fd(r)] = TRUE]
  /\ UNCHANGED <<loopVars, runner, argsVars, pipeVars, conn, handles, sent,
                 kind, snd, sndFd, wlogVars>>

\* ... and fails on what is no connection, or is closed meanwhile.
ReceiveFails(r) ==
  /\ ~Usable(r, Fd(r))
  /\ Goes(r, "recv", "clean")
  /\ UNCHANGED <<loopVars, runner, argsVars, pipeVars, connVars, kind, job,
                 snd, sndFd, wlogVars>>

Sends(r, c, answer) ==
  sent' = IF Usable(r, c) THEN [sent EXCEPT ![c] = @ \cup {<<r, answer>>}]
                          ELSE sent

SendError(r) ==
  /\ Goes(r, "error", "clean")
  /\ Sends(r, Fd(r), "error")
  /\ UNCHANGED <<loopVars, runner, argsVars, pipeVars, conn, handles, taken,
                 kind, job, snd, sndFd, wlogVars>>

SendListing(r) ==
  /\ Goes(r, "list", "clean")
  /\ Sends(r, Fd(r), "listing")
  /\ UNCHANGED <<loopVars, runner, argsVars, pipeVars, conn, handles, taken,
                 kind, job, snd, sndFd, wlogVars>>

\* CreateFile with no sharing: nobody else has the file open.
Openable(r) ==
  /\ job[r] # "empty"
  /\ \A q \in Requests : pc[q] = "mapped" => job[q] # job[r]

\* A handler in thread mode starts a log process for the record; one in
\* process mode has started it, and one in a process of its own has the
\* globals to itself and may go straight to the write.
LogsFrom(r) ==
  CASE HandlerMode(r) = "Thread" -> "pipe"
    [] kind[r] = "thread" -> "redirect2"
    [] OTHER -> "write"

\* windows_memory_mapping maps the file and starts the sending thread ...
MapFile(r) ==
  /\ Openable(r)
  /\ Goes(r, "map", "mapped")
  /\ snd' = [snd EXCEPT ![r] = "running"]
  /\ sndFd' = [sndFd EXCEPT ![r] = Fd(r)]
  /\ UNCHANGED <<loopVars, runner, argsVars, pipeVars, connVars, kind, job,
                 wlogVars>>

\* ... or returns -1, which is reported and logged like a size.
MapFileFails(r) ==
  /\ ~Openable(r) \/ CallsMayFail
  /\ Goes(r, "map", LogsFrom(r))
  /\ UNCHANGED <<loopVars, runner, argsVars, pipeVars, connVars, kind, job,
                 snd, sndFd, wlogVars>>

\* The wait for the sending thread has timeout 0: the view is unmapped.
UnmapFile(r) ==
  /\ Goes(r, "mapped", LogsFrom(r))
  /\ UNCHANGED <<loopVars, runner, argsVars, pipeVars, connVars, kind, job,
                 snd, sndFd, wlogVars>>

\* windows_sendFile, while the view is mapped
SenderSends(r) ==
  /\ snd[r] = "running"
  /\ pc[r] = "mapped"
  /\ snd' = [snd EXCEPT ![r] = "ended"]
  /\ Sends(r, sndFd[r], "file")
  /\ UNCHANGED <<loopVars, runner, argsVars, pipeVars, conn, handles, taken,
                 pc, kind, job, sndFd, wlogVars>>

\* ... after that its arguments and the view are gone: it fails to send, or
\* faults, which ends its process.
SenderFails(r) ==
  /\ snd[r] = "running"
  /\ pc[r] # "mapped"
  /\ snd' = [snd EXCEPT ![r] = "ended"]
  /\ UNCHANGED <<loopVars, runner, argsVars, pipeVars, connVars, pc, kind, job,
                 sndFd, wlogVars>>

SenderFaults(r) ==
  /\ snd[r] = "running"
  /\ pc[r] # "mapped"
  /\ Dies(r)
  /\ UNCHANGED <<loopVars, argsVars, taken, sent, kind, job, sndFd, wlogVars>>

\* clean_request: a thread closes the connection args holds by now; free(args)
\* on what is no heap block has no effect or ends the process.  Anything but
\* a thread's mode ends the process, which for a thread is the server.
CleanRequest(r) ==
  /\ kind[r] = "thread"
  /\ argsMode = "Thread"
  /\ Goes(r, "clean", "done")
  /\ handles' = [c \in Requests |-> IF c = argsFd THEN handles[c] \ {"server"}
                                                  ELSE handles[c]]
  /\ UNCHANGED <<loopVars, runner, argsVars, pipeVars, conn, taken, sent, kind,
                 job, snd, sndFd, wlogVars>>

CleanRequestDies(r) ==
  /\ kind[r] = "thread"
  /\ pc[r] = "clean"
  /\ ServerDies
  /\ UNCHANGED <<loopVars, argsVars, taken, sent, kind, job, sndFd, wlogVars>>

CleanProcess(r) ==
  /\ kind[r] = "process"
  /\ pc[r] = "clean"
  /\ ProcessEnds(r, "done")
  /\ UNCHANGED <<loopVars, argsVars, taken, sent, kind, job, sndFd, wlogVars>>

-----------------------------------------------------------------------------
(* The log, as socket_manage_files calls it *)

LogStep(r, from, to, Step) ==
  /\ Goes(r, from, to)
  /\ Step
  /\ UNCHANGED <<loopVars, runner, argsVars, pipeVars, connVars, kind, job,
                 snd, sndFd>>

LogCall(r) ==
  \/ LogStep(r, "pipe", "redirect", CreatePipe(r))
  \/ LogStep(r, "redirect", "create", RedirectStd(r))
  \/ LogStep(r, "create", "restore", StartLogger(r))
  \/ LogStep(r, "restore", "redirect2",
             RestoreStd(r) /\ UNCHANGED event)
  \/ LogStep(r, "redirect2", "write", RedirectStd(r))
  \/ LogStep(r, "write", "event",
             WriteFileToPipe(IF kind[r] = "thread" THEN gpipe ELSE r,
                             [by |-> r, ip |-> ClientIp(r)]))
  \/ /\ kind[r] = "thread"
     /\ LogStep(r, "event", "clean", SignalEvent /\ RestoreStd(r))
  \/ /\ kind[r] = "process"
     /\ LogStep(r, "event", "clean", SignalEvent /\ UNCHANGED globalVars)

LogProcess(r) ==
  /\ LoggerStep(r, WriteEnds)
  /\ UNCHANGED <<loopVars, runner, argsVars, pipeVars, connVars, handlerVars>>

-----------------------------------------------------------------------------

RunnerStep ==
  \/ StartRunner
  \/ StartRunnerFails
  \/ \E r \in Requests : Accept(r) \/ AcceptFails(r)
  \/ Spawn
  \/ SpawnFails
  \/ DuplicateSocket
  \/ DuplicateSocketFails
  \/ ConnectNamedPipe
  \/ AlreadyConnected
  \/ ClientConnected
  \/ WriteInfo
  \/ DisconnectNamedPipe
  \/ WaitProcess
  \/ Timeout
  \/ SelectFails
  \/ EndServer
  \/ ClearFlag
  \/ ReadConfig
  \/ ParseConfig
  \/ ParseConfigFails

HandlerStep(r) ==
  \/ BeginProcess(r)
  \/ OpenNamedPipe(r)
  \/ OpenNamedPipeFails(r)
  \/ ReadInfo(r)
  \/ ReadInfoFails(r)
  \/ Receive(r)
  \/ ReceiveFails(r)
  \/ SendError(r)
  \/ SendListing(r)
  \/ MapFile(r)
  \/ MapFileFails(r)
  \/ UnmapFile(r)
  \/ LogCall(r)
  \/ CleanRequest(r)
  \/ CleanRequestDies(r)
  \/ CleanProcess(r)

SenderStep(r) == SenderSends(r) \/ SenderFails(r) \/ SenderFaults(r)

SystemStep ==
  \/ RunnerStep
  \/ \E r \in Requests : HandlerStep(r) \/ SenderStep(r) \/ LogProcess(r)

Next ==
  \/ CtrlC
  \/ SystemStep
  \/ \E r \in Requests : Connect(r)

Spec == Init /\ [][Next]_vars

\* Every thread and process that can run does.  Clients and Ctrl-C come when
\* they like.
Fairness ==
  /\ WF_vars(RunnerStep)
  /\ \A r \in Requests : /\ WF_vars(HandlerStep(r))
                         /\ WF_vars(SenderStep(r))
                         /\ WF_vars(LogProcess(r))

FairSpec == Spec /\ Fairness

-----------------------------------------------------------------------------
(* Properties *)

Logged(r) == \E i \in 1..Len(log) : log[i].by = r

\* The runner waits for a request process before it closes the connection and
\* accepts the next: there is one such process at a time, it is the last
\* client's, and as long as it runs the server keeps that connection too, from
\* which the process duplicates its own, unless accept() gave none.
OneRequestProcess ==
  \A r \in Processes :
    /\ r = cur
    /\ runner \in {"duplicate", "connect", "connecting", "handoff",
                  "disconnect", "wait", "dead"}
    /\ runner # "dead" /\ conn[r] = "accepted" => "server" \in handles[r]

\* A handler sends on the connection it was started for, unless the one args
\* was overwritten under it.  Where that happened to none, a handler of an
\* accepted connection that returns has sent the answer, but for a file, which
\* the unmapping may take away from its sender.
AnswersReachTheirClients ==
  /\ \A c \in Requests : \A answer \in sent[c] :
       answer[1] = c \/ answer[1] \in overtaken
  /\ overtaken = {} =>
       \A r \in Requests : pc[r] = "done" /\ conn[r] = "accepted" =>
         CASE target[r] = "missing" -> sent[r] = {<<r, "error">>}
           [] target[r] = "directory" -> sent[r] = {<<r, "listing">>}
           [] OTHER -> sent[r] \subseteq {<<r, "file">>}

\* A record is written at most once, and a handler that was not overtaken logs
\* its own client.
RecordsAreTrue ==
  /\ \A i, j \in 1..Len(log) : log[i].by = log[j].by => i = j
  /\ \A i \in 1..Len(log) :
       log[i].ip # log[i].by => log[i].by \in overtaken

\* The hand-off can leave the runner waiting for ever: for a process that has
\* gone before it opened the pipe, or for one that opened it before the runner
\* was ready and waits for information nobody writes.
Stuck ==
  \/ runner = "connecting" /\ inst = "listening" /\ pc[cur] \in Ended
  \/ runner = "wait" /\ inst = "connected" /\ pc[cur] = "readinfo"

\* A process that is still starting when the runner waits for it on the pipe
\* does not get stuck: its connection is closed, unless Ctrl-C kills it or the
\* server dies.
HandOffCompletes ==
  (runner = "connecting" /\ pc[cur] \in {"begin", "openpipe"})
    ~> \/ runner = "dead"
       \/ cur \in Requests /\ (Closed(cur) \/ pc[cur] = "killed")

\* "Il server si accorgera' della ricezione dell'evento al termine di un
\* timeout" (the report): after Ctrl-C the configuration is read again, also
\* when Ctrl-C comes while it is being read, unless the hand-off is stuck.
EventIsNoticed == unseen ~> ~unseen \/ Stuck \/ runner = "dead"

\* The record of a request process is written when no other log process can
\* take the event that its own waits for, and none is killed by Ctrl-C.
LoneRecordIsWritten ==
  [](~unseen /\ \A q, r \in Requests : q = r \/ "none" \in {lp[q], lp[r]})
    => ((\E r \in Processes : pc[r] = "event") ~> log # <<>>)

==============================================================================
