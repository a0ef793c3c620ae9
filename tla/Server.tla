-------------------------------- MODULE Server --------------------------------
(***************************************************************************)
(* The Linux server: the accept loop of linux_socket, the request handlers *)
(* it starts (threads or forked children), and the resources they share:   *)
(*   - the descriptor table of the server process.  Threads share it, and  *)
(*     a number that is closed is given out again at once;                 *)
(*   - the lock held while a mapped file is sent: p_mutex between threads, *)
(*     lockf() on the file between children;                               *)
(*   - the access log, at the level of AccessLog (LogPipe implements it).  *)
(* A child owns its table and everything in it goes when it exits, so only *)
(* the numbers of the server process are modelled.                         *)
(***************************************************************************)
EXTENDS Naturals, Sequences, FiniteSets

CONSTANTS
  Requests,       \* connections clients make, one request each
  Targets,        \* what a request may ask for, a subset of AllTargets
  NoOne,          \* the owner of a free lock
  MaxFd,          \* the size of the server's descriptor table
  Leftover,       \* how many descriptors earlier requests may have left open
  Reloads,        \* bound on the number of configuration reloads
  CallsMayFail,   \* can a fork, thread, lock, popen or new configuration fail?
  Entries,        \* bound on the entries of a directory that are not hidden
  Stallers,       \* clients that may send nothing, or read nothing
  Leavers         \* clients that may close or reset their connection

\* "hangup": the client closes without sending; "toolong": the selector fills
\* the buffer; "missing": no such file, or the log file itself; "device": not
\* a directory and not a regular file; "untyped": its name breaks the command
\* that looks for its type; the others are regular files, "huge" one whose
\* size does not fit an int.
AllTargets == {"hangup", "toolong", "missing", "device", "untyped",
               "directory", "file", "empty", "huge", "unwritable",
               "unmappable"}

Modes == {"Thread", "Process"}

ASSUME ServerAssumption ==
  /\ NoOne \notin Requests
  /\ Targets \subseteq AllTargets
  /\ MaxFd \in Nat \ {0}
  /\ Leftover \in Nat
  /\ Reloads \in Nat
  /\ CallsMayFail \in BOOLEAN
  /\ Entries \in Nat
  /\ Stallers \subseteq Requests
  /\ Leavers \subseteq Requests

VARIABLES
  target,     \* what each client asks for
  silent,     \* the clients that connect and send nothing
  stalled,    \* the clients that do not read what they are sent
  left,       \* the clients that have closed or reset their connection
  main,       \* where the accept loop is
  mode,       \* the mode_concurrency of the configuration
  reloads,    \* reloads so far
  conn,       \* each connection, as the server has left it
  reply,      \* what has been sent on it
  pc,         \* where its handler is
  hmode,      \* the mode in the handler's copy of the configuration
  type,       \* the handler's type_Request
  fdt,        \* what each descriptor number of the server refers to
  cfd,        \* args->fd: the number of the handler's connection
  ffd,        \* the number of the file or directory it has opened
  rfd, wfd,   \* popen()'s pipe: the numbers of its ends, or 0
  lines,      \* the lines of its directory it has still to send
  unlocked,   \* ghost: the children whose lockf() has failed
  pmutex,     \* the owner of p_mutex
  flock,      \* for each target, the child that locked that file
  accepted,   \* AccessLog: the records handed over
  recorded    \* AccessLog: the lines of the file

clients == <<target, silent, stalled, left>>
logVars == <<accepted, recorded>>
loopVars == <<main, mode, reloads>>
lockVars == <<pmutex, flock, unlocked>>
pipeVars == <<rfd, wfd>>
vars == <<clients, main, mode, reloads, conn, reply, pc, hmode, type, fdt, cfd,
          ffd, rfd, wfd, lines, pmutex, flock, unlocked, accepted, recorded>>

Fd == 1..MaxFd
Unused == <<"unused", NoOne>>
Listener == <<"listener", NoOne>>
Conn(r) == <<"conn", r>>
File(r) == <<"file", r>>
Pipe(r) == <<"pipe", r>>
Objects == {"unused", "listener", "conn", "file", "pipe"}
             \X (Requests \cup {NoOne})

AL == INSTANCE AccessLog WITH Records <- Requests, LinesMayFail <- FALSE

HandlerPC == {"none", "accepted", "read", "stat", "code", "pipe", "type",
              "serve", "line", "closedir", "open", "lock", "map", "send",
              "join", "unlock", "closefile", "closeclient", "log", "clean",
              "done", "abandoned", "killed"}

TypeOK ==
  /\ target \in [Requests -> Targets]
  /\ silent \in SUBSET Stallers
  /\ stalled \in SUBSET Stallers
  /\ left \in SUBSET Leavers
  /\ main \in {"select", "spawn", "reopen", "dead"}
  /\ mode \in Modes
  /\ reloads \in 0..Reloads
  /\ conn \in [Requests -> {"none", "queued", "open", "closed", "reset"}]
  /\ reply \in [Requests -> {"nothing", "error", "listing", "part", "file"}]
  /\ pc \in [Requests -> HandlerPC]
  /\ hmode \in [Requests -> Modes]
  /\ type \in [Requests -> {0, 1}]
  /\ fdt \in [Fd -> Objects]
  /\ cfd \in [Requests -> 0..MaxFd]
  /\ ffd \in [Requests -> 0..MaxFd]
  /\ rfd \in [Requests -> 0..MaxFd]
  /\ wfd \in [Requests -> 0..MaxFd]
  /\ lines \in [Requests -> 0..Entries]
  /\ pmutex \in Requests \cup {NoOne}
  /\ flock \in [Targets -> Requests \cup {NoOne}]
  /\ unlocked \subseteq Requests
  /\ accepted \in Seq(Requests)
  /\ recorded \in Seq(Requests)

Init ==
  /\ target \in [Requests -> Targets]
  /\ stalled \in SUBSET Stallers
  /\ silent \in SUBSET (Stallers \ stalled)
  /\ left = {}
  /\ main = "select"
  /\ mode \in Modes
  /\ reloads = 0
  /\ conn = [r \in Requests |-> "none"]
  /\ reply = [r \in Requests |-> "nothing"]
  /\ pc = [r \in Requests |-> "none"]
  /\ hmode = [r \in Requests |-> mode]
  /\ type = [r \in Requests |-> 0]
  /\ \E k \in 0..Leftover :
       fdt = [n \in Fd |-> IF n = 1 THEN Listener
                           ELSE IF n <= k + 1 THEN Conn(NoOne) ELSE Unused]
  /\ cfd = [r \in Requests |-> 0]
  /\ ffd = [r \in Requests |-> 0]
  /\ rfd = [r \in Requests |-> 0]
  /\ wfd = [r \in Requests |-> 0]
  /\ lines = [r \in Requests |-> 0]
  /\ pmutex = NoOne
  /\ flock = [t \in Targets |-> NoOne]
  /\ unlocked = {}
  /\ AL!Init

-----------------------------------------------------------------------------
(* Descriptors and handlers *)

Thread(r) == hmode[r] = "Thread"

Free == {n \in Fd : fdt[n] = Unused}

\* The kernel gives out the lowest free number.
LowestFree(n) == n \in Free /\ \A m \in Free : n <= m

\* Can the handler's process open k more descriptors?
Room(r, k) == Thread(r) => Cardinality(Free) >= k

Goes(r, from, to) ==
  /\ pc[r] = from
  /\ pc' = [pc EXCEPT ![r] = to]

\* open() in the handler's process
OpenFd(r) ==
  IF Thread(r)
    THEN \E n \in Fd : /\ LowestFree(n)
                       /\ fdt' = [fdt EXCEPT ![n] = File(r)]
                       /\ ffd' = [ffd EXCEPT ![r] = n]
    ELSE UNCHANGED <<fdt, ffd>>

\* popen()'s pipe(), in the handler's process: two descriptors, the read end
\* first.
OpenPipe(r) ==
  IF Thread(r)
    THEN \E a, b \in Free :
           /\ LowestFree(a)
           /\ b # a /\ \A m \in Free \ {a} : b <= m
           /\ fdt' = [fdt EXCEPT ![a] = Pipe(r), ![b] = Pipe(r)]
           /\ rfd' = [rfd EXCEPT ![r] = a]
           /\ wfd' = [wfd EXCEPT ![r] = b]
    ELSE UNCHANGED <<fdt, rfd, wfd>>

\* close() of the file or directory
CloseFd(r) ==
  /\ fdt' = IF Thread(r) THEN [fdt EXCEPT ![ffd[r]] = Unused] ELSE fdt
  /\ UNCHANGED ffd

\* shutdown() and close() of args->fd: they end the connection the number
\* refers to, whosever it is by now.
CloseClient(r) ==
  IF Thread(r)
    THEN /\ fdt' = [fdt EXCEPT ![cfd[r]] = Unused]
         /\ conn' = [q \in Requests |-> IF fdt[cfd[r]] = Conn(q)
                                          THEN "closed" ELSE conn[q]]
    ELSE /\ conn' = [conn EXCEPT ![r] = "closed"]
         /\ UNCHANGED fdt

\* send() blocks while the client does not read, unless it has left.
SendReturns(r) == r \notin stalled \/ r \in left

SendFails(r) == r \in left

\* The server exits, and all its threads with it; the kernel closes what the
\* process had open, and resets the connections not accepted yet.
ServerEnds ==
  /\ main' = "dead"
  /\ pc' = [r \in Requests |-> IF /\ Thread(r) \/ pc[r] = "accepted"
                                  /\ pc[r] \notin {"none", "done", "abandoned"}
                                 THEN "killed" ELSE pc[r]]
  /\ conn' = [r \in Requests |->
                CASE \E n \in Fd : fdt[n] = Conn(r) -> "closed"
                  [] conn[r] = "queued"             -> "reset"
                  [] OTHER                          -> conn[r]]

\* lockf(fd, F_ULOCK), or the close of a descriptor of the locked file
ReleaseLockf(r) ==
  flock' = [t \in Targets |-> IF flock[t] = r THEN NoOne ELSE flock[t]]

(***************************************************************************)
(* Mutants: each is an action below with a plausible mistake in it.  None   *)
(* is part of Next; put in the place of its action it breaks a property.   *)
(***************************************************************************)

\* a failed accept() is not noticed
Accept_Unchecked(r) ==
  /\ main = "select"
  /\ conn[r] = "queued"
  /\ Goes(r, "none", "accepted")
  /\ \/ /\ Free = {}
        /\ cfd' = [cfd EXCEPT ![r] = MaxFd + 1]
        /\ UNCHANGED fdt
     \/ \E n \in Fd : /\ LowestFree(n)
                      /\ fdt' = [fdt EXCEPT ![n] = Conn(r)]
                      /\ cfd' = [cfd EXCEPT ![r] = n]
  /\ conn' = [conn EXCEPT ![r] = "open"]
  /\ main' = "spawn"
  /\ UNCHANGED <<clients, mode, reloads, reply, hmode, type, ffd, pipeVars,
                 lines, lockVars, logVars>>

\* type_Request asks clean_request to close what the mapping has closed
ServeFile_CloseLater(r) ==
  /\ target[r] \notin {"directory", "device"}
  /\ Goes(r, "serve", "open")
  /\ type' = [type EXCEPT ![r] = 1]
  /\ UNCHANGED <<clients, loopVars, conn, reply, hmode, fdt, cfd, ffd,
                 pipeVars, lines, lockVars, logVars>>

\* the file is sent without the lock
LockFile_Missing(r) ==
  /\ Goes(r, "lock", "map")
  /\ UNCHANGED <<clients, loopVars, conn, reply, hmode, type, fdt, cfd, ffd,
                 pipeVars, lines, lockVars, logVars>>

\* the sending thread is not joined
SendFile_NotJoined(r) ==
  /\ Goes(r, "send", "unlock")
  /\ UNCHANGED <<clients, loopVars, conn, reply, hmode, type, fdt, cfd, ffd,
                 pipeVars, lines, lockVars, logVars>>

\* the lock is kept, as it is for an empty file
UnlockFile_Missing(r) ==
  /\ Goes(r, "unlock", "closefile")
  /\ UNCHANGED <<clients, loopVars, conn, reply, hmode, type, fdt, cfd, ffd,
                 pipeVars, lines, lockVars, logVars>>

\* the file stays open
CloseFile_Missing(r) ==
  /\ Goes(r, "closefile", "closeclient")
  /\ UNCHANGED <<clients, loopVars, conn, reply, hmode, type, fdt, cfd, ffd,
                 pipeVars, lines, lockVars, logVars>>

\* the mapping leaves the connection to clean_request
CloseServedClient_Missing(r) ==
  /\ Goes(r, "closeclient", "log")
  /\ UNCHANGED <<clients, loopVars, conn, reply, hmode, type, fdt, cfd, ffd,
                 pipeVars, lines, lockVars, logVars>>

\* the handler returns without logging
LogRequest_Missing(r) ==
  /\ Goes(r, "log", "clean")
  /\ UNCHANGED <<clients, loopVars, conn, reply, hmode, type, fdt, cfd, ffd,
                 pipeVars, lines, lockVars, logVars>>

\* clean_request closes the connection always, as the comment on it says
CleanRequest_Always(r) ==
  /\ Goes(r, "clean", "done")
  /\ CloseClient(r)
  /\ IF Thread(r) THEN UNCHANGED flock ELSE ReleaseLockf(r)
  /\ UNCHANGED <<clients, loopVars, reply, hmode, type, cfd, ffd, pipeVars,
                 lines, pmutex, unlocked, logVars>>

-----------------------------------------------------------------------------
(* The accept loop *)

\* A client connects while the server listens: the kernel queues it.
Connect(r) ==
  /\ main \in {"select", "spawn"}
  /\ conn[r] = "none"
  /\ conn' = [conn EXCEPT ![r] = "queued"]
  /\ UNCHANGED <<clients, loopVars, reply, pc, hmode, type, fdt, cfd, ffd,
                 pipeVars, lines, lockVars, logVars>>

\* A client closes or resets its connection before it is answered.
ClientLeaves(r) ==
  /\ r \in Leavers \ left
  /\ conn[r] \in {"queued", "open"}
  /\ left' = left \cup {r}
  /\ UNCHANGED <<target, silent, stalled, loopVars, conn, reply, pc, hmode,
                 type, fdt, cfd, ffd, pipeVars, lines, lockVars, logVars>>

\* accept(); the handler gets a copy of the configuration.  Without a free
\* descriptor accept() fails and the loop goes round: nothing happens.
Accept(r) ==
  /\ main = "select"
  /\ conn[r] = "queued"
  /\ Goes(r, "none", "accepted")
  /\ \E n \in Fd : /\ LowestFree(n)
                   /\ fdt' = [fdt EXCEPT ![n] = Conn(r)]
                   /\ cfd' = [cfd EXCEPT ![r] = n]
  /\ conn' = [conn EXCEPT ![r] = "open"]
  /\ hmode' = [hmode EXCEPT ![r] = mode]
  /\ main' = "spawn"
  /\ UNCHANGED <<clients, mode, reloads, reply, type, ffd, pipeVars, lines,
                 lockVars, logVars>>

\* run_concurrency: a detached thread, or a child whose connection the server
\* closes on its side.
Spawn(r) ==
  /\ main = "spawn"
  /\ Goes(r, "accepted", "read")
  /\ fdt' = IF Thread(r) THEN fdt ELSE [fdt EXCEPT ![cfd[r]] = Unused]
  /\ main' = "select"
  /\ UNCHANGED <<clients, mode, reloads, conn, reply, hmode, type, cfd, ffd,
                 pipeVars, lines, lockVars, logVars>>

\* ... fails: the loop continues and the descriptor stays open.
SpawnFails(r) ==
  /\ CallsMayFail
  /\ main = "spawn"
  /\ Goes(r, "accepted", "abandoned")
  /\ main' = "select"
  /\ UNCHANGED <<clients, mode, reloads, conn, reply, hmode, type, fdt, cfd,
                 ffd, pipeVars, lines, lockVars, logVars>>

\* select() is interrupted with reset_config set: end_server closes the
\* listening socket, and with it the connections not accepted yet.
BeginReload ==
  /\ main = "select"
  /\ reloads < Reloads
  /\ main' = "reopen"
  /\ reloads' = reloads + 1
  /\ fdt' = [n \in Fd |-> IF fdt[n] = Listener THEN Unused ELSE fdt[n]]
  /\ conn' = [r \in Requests |-> IF conn[r] = "queued" THEN "reset"
                                                       ELSE conn[r]]
  /\ UNCHANGED <<clients, mode, reply, pc, hmode, type, cfd, ffd, pipeVars,
                 lines, lockVars, logVars>>

\* main reads the configuration and start_server opens a new socket ...
Reopen ==
  /\ main = "reopen"
  /\ main' = "select"
  /\ mode' \in Modes
  /\ \E n \in Fd : LowestFree(n) /\ fdt' = [fdt EXCEPT ![n] = Listener]
  /\ UNCHANGED <<clients, reloads, conn, reply, pc, hmode, type, cfd, ffd,
                 pipeVars, lines, lockVars, logVars>>

\* ... or the file is wrong, the port taken, no descriptor left, and the
\* server exits with all its threads.
ReopenFails ==
  /\ main = "reopen"
  /\ CallsMayFail \/ Free = {}
  /\ ServerEnds
  /\ UNCHANGED <<clients, mode, reloads, reply, hmode, type, fdt, cfd, ffd,
                 pipeVars, lines, lockVars, logVars>>

-----------------------------------------------------------------------------
(* handle_request *)

\* socket_read_request, and the error for a selector that fills the buffer
ReadRequest(r) ==
  /\ r \notin silent
  /\ pc[r] = "read"
  /\ LET tooLong == target[r] = "toolong" IN
     /\ pc' = [pc EXCEPT ![r] = IF tooLong \/ target[r] = "hangup"
                                  THEN "clean" ELSE "stat"]
     /\ type' = [type EXCEPT ![r] = IF tooLong THEN 1 ELSE @]
     /\ reply' = [reply EXCEPT ![r] = IF tooLong /\ ~SendFails(r)
                                        THEN "error" ELSE @]
  /\ UNCHANGED <<clients, loopVars, conn, hmode, fdt, cfd, ffd, pipeVars,
                 lines, lockVars, logVars>>

\* recv() fails, or finds the end of the stream before a request.
ReadNothing(r) ==
  /\ r \in left
  /\ Goes(r, "read", "clean")
  /\ UNCHANGED <<clients, loopVars, conn, reply, hmode, type, fdt, cfd, ffd,
                 pipeVars, lines, lockVars, logVars>>

\* file_type finds a file that may be sent ...
FileFound(r) ==
  /\ target[r] # "missing"
  /\ Goes(r, "stat", "code")
  /\ UNCHANGED <<clients, loopVars, conn, reply, hmode, type, fdt, cfd, ffd,
                 pipeVars, lines, lockVars, logVars>>

\* ... or not, and the client gets an error.
FileMissing(r) ==
  /\ target[r] = "missing"
  /\ Goes(r, "stat", "clean")
  /\ type' = [type EXCEPT ![r] = 1]
  /\ reply' = [reply EXCEPT ![r] = IF SendFails(r) THEN @ ELSE "error"]
  /\ UNCHANGED <<clients, loopVars, conn, hmode, fdt, cfd, ffd, pipeVars,
                 lines, lockVars, logVars>>

\* getGopherCode runs a program to find a type, of the file or of an entry of
\* the directory: is it the latter?
InListing(r) == type[r] = 1

\* popen() takes both ends of a pipe ...
OpenCommand(r) ==
  /\ Room(r, 2)
  /\ Goes(r, "code", "pipe")
  /\ OpenPipe(r)
  /\ UNCHANGED <<clients, loopVars, conn, reply, hmode, type, cfd, ffd, lines,
                 lockVars, logVars>>

\* ... or fails, which leaves the directory open.
OpenCommandFails(r) ==
  /\ CallsMayFail \/ ~Room(r, 2)
  /\ Goes(r, "code", "clean")
  /\ UNCHANGED <<clients, loopVars, conn, reply, hmode, type, fdt, cfd, ffd,
                 pipeVars, lines, lockVars, logVars>>

\* The program is started, and popen() closes the write end.
StartCommand(r) ==
  /\ Goes(r, "pipe", "type")
  /\ fdt' = IF Thread(r) THEN [fdt EXCEPT ![wfd[r]] = Unused] ELSE fdt
  /\ wfd' = [wfd EXCEPT ![r] = 0]
  /\ UNCHANGED <<clients, loopVars, conn, reply, hmode, type, cfd, ffd, rfd,
                 lines, lockVars, logVars>>

\* getline() and pclose().  A file of no type is not served; to an entry of
\* none any byte does for a type.
GetCode(r) ==
  /\ Goes(r, "type", IF InListing(r) THEN "line"
                     ELSE IF target[r] = "untyped" THEN "clean" ELSE "serve")
  /\ fdt' = IF Thread(r) THEN [fdt EXCEPT ![rfd[r]] = Unused] ELSE fdt
  /\ rfd' = [rfd EXCEPT ![r] = 0]
  /\ UNCHANGED <<clients, loopVars, conn, reply, hmode, type, cfd, ffd, wfd,
                 lines, lockVars, logVars>>

\* Neither a directory nor a regular file: nothing is sent.
ServeNothing(r) ==
  /\ target[r] = "device"
  /\ Goes(r, "serve", "clean")
  /\ UNCHANGED <<clients, loopVars, conn, reply, hmode, type, fdt, cfd, ffd,
                 pipeVars, lines, lockVars, logVars>>

\* What print_directory does with n entries to go: the next, or closedir().
AfterEntries(n) == IF n = 0 THEN "closedir" ELSE "code"

\* print_directory opens the directory ...
OpenDirectory(r) ==
  /\ target[r] = "directory"
  /\ Room(r, 1)
  /\ \E n \in 0..Entries : /\ Goes(r, "serve", AfterEntries(n))
                           /\ lines' = [lines EXCEPT ![r] = n]
  /\ type' = [type EXCEPT ![r] = 1]
  /\ OpenFd(r)
  /\ UNCHANGED <<clients, loopVars, conn, reply, hmode, cfd, pipeVars,
                 lockVars, logVars>>

OpenDirectoryFails(r) ==
  /\ target[r] = "directory"
  /\ ~Room(r, 1)
  /\ Goes(r, "serve", "clean")
  /\ type' = [type EXCEPT ![r] = 1]
  /\ UNCHANGED <<clients, loopVars, conn, reply, hmode, fdt, cfd, ffd,
                 pipeVars, lines, lockVars, logVars>>

\* ... sends a line for each entry ...
SendLine(r) ==
  /\ r \notin left
  /\ SendReturns(r)
  /\ Goes(r, "line", AfterEntries(lines[r] - 1))
  /\ reply' = [reply EXCEPT ![r] = "part"]
  /\ lines' = [lines EXCEPT ![r] = @ - 1]
  /\ UNCHANGED <<clients, loopVars, conn, hmode, type, fdt, cfd, ffd, pipeVars,
                 lockVars, logVars>>

\* ... and when a line cannot be sent returns without closing the directory.
SendLineFails(r) ==
  /\ SendFails(r)
  /\ Goes(r, "line", "clean")
  /\ UNCHANGED <<clients, loopVars, conn, reply, hmode, type, fdt, cfd, ffd,
                 pipeVars, lines, lockVars, logVars>>

CloseDirectory(r) ==
  /\ Goes(r, "closedir", "clean")
  /\ reply' = [reply EXCEPT ![r] = "listing"]
  /\ CloseFd(r)
  /\ UNCHANGED <<clients, loopVars, conn, hmode, type, cfd, pipeVars, lines,
                 lockVars, logVars>>

ServeFile(r) ==
  /\ target[r] \notin {"directory", "device"}
  /\ Goes(r, "serve", "open")
  /\ type' = [type EXCEPT ![r] = 0]
  /\ UNCHANGED <<clients, loopVars, conn, reply, hmode, fdt, cfd, ffd,
                 pipeVars, lines, lockVars, logVars>>

-----------------------------------------------------------------------------
(* linux_memory_mapping and what follows it *)

\* The file is opened for writing too, which lockf() requires.
OpenFile(r) ==
  /\ target[r] # "unwritable"
  /\ Room(r, 1)
  /\ Goes(r, "open", "lock")
  /\ OpenFd(r)
  /\ UNCHANGED <<clients, loopVars, conn, reply, hmode, type, cfd, pipeVars,
                 lines, lockVars, logVars>>

OpenFileFails(r) ==
  /\ target[r] = "unwritable" \/ ~Room(r, 1)
  /\ Goes(r, "open", "clean")
  /\ UNCHANGED <<clients, loopVars, conn, reply, hmode, type, fdt, cfd, ffd,
                 pipeVars, lines, lockVars, logVars>>

LockFile(r) ==
  /\ Goes(r, "lock", "map")
  /\ IF Thread(r)
       THEN /\ pmutex = NoOne
            /\ pmutex' = r
            /\ UNCHANGED flock
       ELSE /\ flock[target[r]] = NoOne
            /\ flock' = [flock EXCEPT ![target[r]] = r]
            /\ UNCHANGED pmutex
  /\ UNCHANGED <<clients, loopVars, conn, reply, hmode, type, fdt, cfd, ffd,
                 pipeVars, lines, logVars, unlocked>>

\* lockf() fails: the child goes on without the lock.
LockFileFails(r) ==
  /\ CallsMayFail
  /\ ~Thread(r)
  /\ Goes(r, "lock", "map")
  /\ unlocked' = unlocked \cup {r}
  /\ UNCHANGED <<clients, loopVars, conn, reply, hmode, type, fdt, cfd, ffd,
                 pipeVars, lines, pmutex, flock, logVars>>

\* A file of size 0 returns at once: locked and open.
MapEmptyFile(r) ==
  /\ target[r] = "empty"
  /\ Goes(r, "map", "log")
  /\ UNCHANGED <<clients, loopVars, conn, reply, hmode, type, fdt, cfd, ffd,
                 pipeVars, lines, lockVars, logVars>>

\* When fstat() or mmap() fails the lockf() lock is released, p_mutex is not.
MapFails(r) ==
  /\ target[r] = "unmappable"
  /\ Goes(r, "map", "clean")
  /\ ReleaseLockf(r)
  /\ CloseFd(r)
  /\ UNCHANGED <<clients, loopVars, conn, reply, hmode, type, cfd, pipeVars,
                 lines, pmutex, unlocked, logVars>>

MapFile(r) ==
  /\ target[r] \notin {"empty", "unmappable"}
  /\ Goes(r, "map", "send")
  /\ UNCHANGED <<clients, loopVars, conn, reply, hmode, type, fdt, cfd, ffd,
                 pipeVars, lines, lockVars, logVars>>

\* One send() of as many bytes as the size is as an int, whose result nobody
\* looks at.
SendMapped(r) ==
  /\ SendReturns(r)
  /\ reply' = [reply EXCEPT ![r] = CASE SendFails(r)        -> @
                                     [] target[r] = "huge" -> "part"
                                     [] OTHER              -> "file"]
  /\ UNCHANGED <<clients, loopVars, conn, hmode, type, fdt, cfd, ffd, pipeVars,
                 lines, lockVars, logVars>>

\* A thread sends, and is joined ...
SendFile(r) ==
  /\ Goes(r, "send", "unlock")
  /\ SendMapped(r)

\* ... or cannot be created: the handler itself sends, ...
SendInline(r) ==
  /\ CallsMayFail
  /\ Goes(r, "send", "join")
  /\ SendMapped(r)

\* ... and then joins a thread that is not one: what the variable holds is
\* undefined, and pthread_join() returns an error, crashes or never returns.
JoinNothing(r) ==
  /\ Goes(r, "join", "unlock")
  /\ UNCHANGED <<clients, loopVars, conn, reply, hmode, type, fdt, cfd, ffd,
                 pipeVars, lines, lockVars, logVars>>

UnlockFile(r) ==
  /\ Goes(r, "unlock", "closefile")
  /\ IF Thread(r) THEN pmutex' = NoOne /\ UNCHANGED flock
                  ELSE ReleaseLockf(r) /\ UNCHANGED pmutex
  /\ UNCHANGED <<clients, loopVars, conn, reply, hmode, type, fdt, cfd, ffd,
                 pipeVars, lines, logVars, unlocked>>

CloseFile(r) ==
  /\ Goes(r, "closefile", "closeclient")
  /\ CloseFd(r)
  /\ UNCHANGED <<clients, loopVars, conn, reply, hmode, type, cfd, pipeVars,
                 lines, lockVars, logVars>>

\* The size returned is negative if bit 31 of a huge one is set: that passes
\* for a failure, and nothing is logged.
CloseServedClient(r) ==
  /\ \E next \in {"log", "clean"} :
       /\ next = "clean" => target[r] = "huge"
       /\ Goes(r, "closeclient", next)
  /\ CloseClient(r)
  /\ UNCHANGED <<clients, loopVars, reply, hmode, type, cfd, ffd, pipeVars,
                 lines, lockVars, logVars>>

LogRequest(r) ==
  /\ Goes(r, "log", "clean")
  /\ AL!Accept(r)
  /\ UNCHANGED <<clients, loopVars, conn, reply, hmode, type, fdt, cfd, ffd,
                 pipeVars, lines, lockVars>>

\* clean_request closes the connection if type_Request is set; then the
\* thread exits, keeping nothing but what the table and p_mutex keep, or the
\* child exits, and the kernel closes and unlocks all it had.
CleanRequest(r) ==
  /\ Goes(r, "clean", "done")
  /\ IF type[r] = 1 \/ ~Thread(r) THEN CloseClient(r)
                                  ELSE UNCHANGED <<fdt, conn>>
  /\ IF Thread(r) THEN UNCHANGED flock ELSE ReleaseLockf(r)
  /\ UNCHANGED <<clients, loopVars, reply, hmode, type, cfd, ffd, pipeVars,
                 lines, pmutex, unlocked, logVars>>

\* What a handler that is about to send would send now.
Sends(r) == \/ pc[r] \in {"line", "send"}
            \/ pc[r] = "read" /\ target[r] = "toolong"
            \/ pc[r] = "stat" /\ target[r] = "missing"

\* SIGPIPE, which nobody catches, or the crash of that join.
Dies(r) == (SendFails(r) /\ Sends(r)) \/ pc[r] = "join"

\* It ends the server, if the handler is a thread of it ...
ThreadDies(r) ==
  /\ Thread(r)
  /\ Dies(r)
  /\ ServerEnds
  /\ UNCHANGED <<clients, mode, reloads, reply, hmode, type, fdt, cfd, ffd,
                 pipeVars, lines, lockVars, logVars>>

\* ... or its child, with its connection and its lock on the file.
ChildDies(r) ==
  /\ ~Thread(r)
  /\ Dies(r)
  /\ pc' = [pc EXCEPT ![r] = "killed"]
  /\ CloseClient(r)
  /\ ReleaseLockf(r)
  /\ UNCHANGED <<clients, loopVars, reply, hmode, type, cfd, ffd, pipeVars,
                 lines, pmutex, unlocked, logVars>>

\* The logger process writes a line.
LoggerWrites ==
  /\ AL!Record
  /\ UNCHANGED <<clients, loopVars, conn, reply, pc, hmode, type, fdt, cfd,
                 ffd, pipeVars, lines, lockVars>>

-----------------------------------------------------------------------------

MainStep ==
  \/ \E r \in Requests : Accept(r) \/ Spawn(r) \/ SpawnFails(r)
  \/ Reopen
  \/ ReopenFails

HandlerStep(r) ==
  \/ ReadRequest(r)
  \/ ReadNothing(r)
  \/ FileFound(r)
  \/ FileMissing(r)
  \/ OpenCommand(r)
  \/ OpenCommandFails(r)
  \/ StartCommand(r)
  \/ GetCode(r)
  \/ ServeNothing(r)
  \/ OpenDirectory(r)
  \/ OpenDirectoryFails(r)
  \/ SendLine(r)
  \/ SendLineFails(r)
  \/ CloseDirectory(r)
  \/ ServeFile(r)
  \/ OpenFile(r)
  \/ OpenFileFails(r)
  \/ LockFile(r)
  \/ LockFileFails(r)
  \/ MapEmptyFile(r)
  \/ MapFails(r)
  \/ MapFile(r)
  \/ SendFile(r)
  \/ SendInline(r)
  \/ JoinNothing(r)
  \/ UnlockFile(r)
  \/ CloseFile(r)
  \/ CloseServedClient(r)
  \/ LogRequest(r)
  \/ CleanRequest(r)
  \/ ThreadDies(r)
  \/ ChildDies(r)

Next ==
  \/ MainStep
  \/ BeginReload
  \/ LoggerWrites
  \/ \E r \in Requests : Connect(r) \/ ClientLeaves(r) \/ HandlerStep(r)

Spec == Init /\ [][Next]_vars

\* The accept loop, every handler and the logger are scheduled; clients and
\* reloads come when they like.
Fairness ==
  /\ WF_vars(MainStep)
  /\ WF_vars(LoggerWrites)
  /\ \A r \in Requests : WF_vars(HandlerStep(r))

FairSpec == Spec /\ Fairness

-----------------------------------------------------------------------------
(* Properties *)

\* Threads share the numbers of one table: until a handler is done with its
\* connection, its file, its directory or an end of popen()'s pipe, the number
\* it kept still refers to it, so no close(), send() or shutdown() of a handler
\* hits another's.
HandlersUseTheirOwn ==
  \A r \in Requests : Thread(r) =>
    /\ pc[r] \in HandlerPC \ {"none", "log", "clean", "done", "abandoned",
                              "killed"}
         => fdt[cfd[r]] = Conn(r)
    /\ pc[r] = "clean" /\ type[r] = 1 => fdt[cfd[r]] = Conn(r)
    /\ \/ pc[r] \in {"code", "pipe", "type"} /\ InListing(r)
       \/ pc[r] \in {"line", "closedir", "lock", "map", "send", "join",
                    "unlock", "closefile"}
       => fdt[ffd[r]] = File(r)
    /\ pc[r] \in {"pipe", "type"} => fdt[rfd[r]] = Pipe(r)
    /\ pc[r] = "pipe" => fdt[wfd[r]] = Pipe(r)

\* A connection is ended only by a step of its own handler, or with the server.
OnlyTheHandlerCloses ==
  [][\A r \in Requests :
       conn[r] = "open" /\ conn'[r] = "closed"
         => pc'[r] # pc[r] \/ main' = "dead"]_vars

\* Two threads never send a mapped file at once, and two children never the
\* same file, unless lockf() failed for one.  (A thread and a child may: a
\* reload can change the mode.)
OneSender ==
  \A r, s \in Requests :
    /\ r # s
    /\ hmode[r] = hmode[s]
    /\ Thread(r) \/ target[r] = target[s]
    /\ {r, s} \cap unlocked = {}
    => ~(/\ pc[r] \in {"map", "send", "join", "unlock"}
         /\ pc[s] \in {"map", "send", "join", "unlock"})

\* What a client should have when its connection is closed.
Expected(r) ==
  CASE target[r] \in {"missing", "toolong"} -> "error"
    [] target[r] = "directory" -> "listing"
    [] target[r] = "file" -> "file"
    [] OTHER -> "nothing"

\* A connection the server closes has had its whole answer, unless its client
\* has left or the server ends.
ClosedAfterAnswer ==
  \A r \in Requests \ left :
    conn[r] = "closed" => reply[r] = Expected(r) \/ main = "dead"

\* When every handler has returned, the server holds the listening socket and
\* nothing else but what the handlers of clients that left forgot.  Not even
\* they forget p_mutex.
NothingLeaks ==
  (\A r \in Requests : pc[r] \in {"none", "done"}) =>
     /\ \A n \in Fd : \/ fdt[n] \in {Unused, Listener}
                      \/ \E r \in left : fdt[n] \in {Conn(r), File(r)}
     /\ pmutex = NoOne

\* A download waits for the lock, which a client that does not read holds up.
HeldUp(r) ==
  \/ r \in silent \cup stalled
  \/ target[r] = "file" /\ \E s \in stalled : target[s] = "file"

\* Every client that connects is answered and its connection closed, unless it
\* leaves, or a reload resets it while it is still queued, or SIGPIPE ends the
\* server.  One that sends nothing is in nobody's way, one that does not read in
\* that of downloads only, and one that leaves, in Process mode, of nobody.
EveryClientServed ==
  \A r \in Requests :
    conn[r] = "queued" /\ ~HeldUp(r)
      ~> \/ conn[r] = "reset" \/ r \in left \/ main = "dead"
         \/ conn[r] = "closed" /\ reply[r] = Expected(r)

\* "IP del client, dimensioni e percorso di ogni file richiesto" (the report,
\* 2.3.1): every file requested gets its line in the log, as long as clients
\* read and SIGPIPE does not end the handler.
EveryFileLogged ==
  \A r \in Requests :
    pc[r] = "open" /\ ~HeldUp(r)
      ~> pc[r] = "killed" \/ \E i \in 1..Len(recorded) : recorded[i] = r

\* A line of the log tells of a connection that is closed, and of a file that
\* was sent, whole unless it is huge or the client left; only an empty file is
\* logged without that.
LoggedAfterService ==
  \A i \in 1..Len(accepted) :
    LET r == accepted[i] IN
    IF target[r] = "empty"
      THEN reply[r] = "nothing"
      ELSE /\ conn[r] = "closed"
           /\ reply[r] = "file" \/ target[r] = "huge" \/ r \in left

\* A handler that has sent a whole file does not return without logging it.
ServedIsLogged ==
  \A r \in Requests :
    reply[r] = "file" /\ pc[r] \in {"clean", "done"}
      => \E i \in 1..Len(accepted) : accepted[i] = r

==============================================================================
