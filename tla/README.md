# A TLA+ model of the Gopher server

This directory holds TLA+ modules that model the Gopher server of this
repository, the TLC configurations that check them on small instances, and
theorems about them that TLAPS proves for every value of the constants.

    tlc -config LogPipe.cfg MCLogPipe.tla        # check a run
    tlapm LogPipe_proofs.tla                     # check the proofs

## 1. Inventory

The program serves files and directories over the Gopher protocol. It is built
for Linux (`src/main.c`, `src/general`, `src/linux`) and, with the same shared
part, for Windows (`src/windows`, `src/main_HandleRequest.c`,
`src/main_LogProcess.c`). On Linux it is made of

| part | where | state it keeps | operations |
|---|---|---|---|
| main and configuration | `main.c`, `config_file.c`, `linux_signals.c` | `configs` (port, mode, root), `ip_buffer`, `reset_config` | parse the file, read the options, become a daemon, install the SIGHUP handler, reload |
| accept loop | `linux_socket.c` | the listening socket, the descriptor table | `select`, `accept`, start a thread or a child, close and reopen the socket |
| request handler | `linux_socket.c`, `socket.c` | its copy of the configuration (`ThreadArgs`), its connection, `type_Request` | read the request, resolve the selector, find the type, answer, clean up |
| request reader | `socket.c`, `utils.c` | the buffer | `socket_read_request`, `socket_drain_tcp`, `ut_get_line` |
| file sender | `linux_memory_mapping.c` | `p_mutex` (threads), `lockf` (children), the mapping | open, lock, map, send in a thread, unlock, close |
| directory listing | `protocol.c` | the open directory | a line for each entry |
| type codes | `linux_protocol.c` | none (a table) | run `file`, look the MIME type up |
| access log | `linux_pipe.c` | mutex and condition variable in shared memory, token pipe, log pipe, the log file | a handler hands a record over; the logger process writes it |

and on Windows of

| part | where | state it keeps | operations |
|---|---|---|---|
| main and runner | `main.c`, `windows_socket.c`, `windows_events.c` | the listening socket, one `args` for all threads, one instance of a named pipe, `reset_config` | `select` with a timeout, `accept`, start a thread, or a process and hand it the socket; Ctrl-C, reload |
| request process | `main_HandleRequest.c` | its own configuration and connection | start its log process, take the socket over, handle the request |
| file sender | `windows_memory_mapping.c`, `windows_socket.c` | an exclusively opened file, a view | map, start a sending thread, unmap |
| access log | `windows_pipe.c`, `main_LogProcess.c` | an anonymous pipe in globals, the standard output, a named event | a handler starts a log process for its record, writes it and signals; the log process writes the file |

On Linux they interact as follows. `main` parses the configuration, forks the logger,
installs the SIGHUP handler and calls the accept loop. The loop copies the
configuration for each connection and starts a handler; handlers of one process
share the descriptor table, `p_mutex` and `ip_buffer`, children share nothing but
the log's pipes and the locks on files. A handler that has sent a file hands one
record to the logger. SIGHUP sets a flag; the loop, when `select` is
interrupted, returns to `main`, which parses the file again and starts over.

What is hard, and what makes each part correct:

- **access log**: five blocking calls (read the token, lock, write, wait, read)
  in two kinds of processes, a condition variable without a predicate, and
  failures in the middle. No signal may be lost, nobody may block inside the
  critical section, records must arrive in order and once, and each must arrive.
- **accept loop and handlers**: two modes that may run side by side, a table of
  descriptors whose numbers are given out again at once, and a dozen early
  returns. Nobody may act on a number that is another's by now, every client
  must get its whole answer, nothing may be left behind.
- **file sender**: two locks, one per mode, to be released on every path.
- **configuration**: the parser changes the configuration in force line by line
  and stops anywhere; a signal may come anywhere. Nobody may be served with half
  a file, and a reload that was asked for must happen.
- **request reader**: TCP delivers in any pieces; a buffer may be exactly full.
- **restart**: the names of the shared memory are fixed, and the next server
  truncates what processes of the last one may still use. What was killed with
  the mutex locked must not stop the next server's log.
- **Windows**: threads share `args`, the ends of the log's pipe and the standard
  output; a connection passes through two processes; Ctrl-C goes to all of
  them. Clients and records must not be mixed up, the hand-off must complete,
  and Ctrl-C must be noticed.

`PROJECT.json` lists every part and every hazard with its line.

## 2. Plan

The order is that of importance: what concurrency makes hard comes first.

1. `AccessLog`, `LogPipe`, `LogPipe_proofs`: the log protocol, its abstract
   specification, the proofs. **Done.**
2. `Server`: accept loop, handlers, descriptors, locks; it uses `AccessLog` in
   the place of `LogPipe`. **Done.** `Server_proofs`: its safety
   properties. **Done.**
3. `Reload`: configuration, options, signal, loop. **Done.**
4. `RequestReader`: reading a request from a stream. **Done.**
5. `Selector`: `resolve_selector`, `blackListFile`, `file_type`, type codes and
   listings, for a client that browses. **Done.**
6. `LogRestart`: a server is killed and a second one is started on the same
   shared memory (`shm_open` with `O_TRUNC`), with what is left of the
   first still alive or not; it is composed of two instances of `LogPipe`.
   **Done.**
7. Clients that leave, reset, or do not read, SIGPIPE and sizes beyond an
   `int`: in `Server`. **Done.**
8. `WindowsLog`, `WindowsServer`: the request threads' shared arguments, the
   view that is unmapped while it is sent, the single named pipe instance, the
   log processes. **Done.**
9. `Reload_proofs`, `RequestReader_proofs`, `WindowsServer_proofs`. **Done.**
10. `Selector_proofs`; `LogToken`, `LogToken_proofs` and `LogRestart_proofs`: two
    servers on one mutex. **Done.** `Server_proofs`: the properties that need a
    table large enough, by counting descriptors. **Done.**
11. Left: `Server` over `LogPipe` itself, with a logger that dies.

## 3. The modules

| module | models | abstract over |
|---|---|---|
| `AccessLog` | what the log promises: one record at a time, in order, none twice | how |
| `LogPipe` | `socket_pipe_log_server_single_process` and the child of `socket_pipe_single_process` | the text of a record: a message is named by its sender |
| `LogPipe_proofs` | theorems about `LogPipe` | |
| `LogToken` | `LogPipe` without its mutex and condition variable: what is left when they are somebody else's too | who may enter the critical section, and when the logger wakes |
| `LogToken_proofs` | theorems about `LogToken` | |
| `LogRestart` | two servers' `LogPipe` on one mutex and condition variable, the start of the second, the death of any process of the first | which of the two objects in shared memory is truncated first |
| `LogRestart_proofs` | theorems about `LogRestart` | |
| `Server` | `linux_socket`, `run_concurrency`, `handle_request`, `socket_manage_files`, `linux_memory_mapping`, `clean_request` | paths (a target is a kind of file), bytes |
| `Server_proofs` | theorems about `Server` | |
| `Reload` | `main`, `conf_parseConfigFile`, `conf_read_opt`, `signal_sighup_handler`, the loop's `select` | values (the version of the file they were read from) |
| `Reload_proofs` | theorems about `Reload` | |
| `RequestReader` | `socket_read_request`, `socket_drain_tcp`, `ut_get_line` | bytes other than CR and LF |
| `RequestReader_proofs` | theorems about `RequestReader` | |
| `Selector` | `resolve_selector`, `file_type`, `blackListFile`, `getGopherCode`, `print_directory`, `protocol_response` | characters (a path is a sequence of names and slashes), symbolic links |
| `Selector_proofs` | theorems about `Selector` | |
| `WindowsLog` | `pipe_run_process`, `pipe_simple_write_to_pipe`, `main_LogProcess.c` | the text of a record |
| `WindowsServer` | `windows_socket_runner`, `run_process`, `main_HandleRequest.c`, `handle_request`, `windows_memory_mapping`, `windows_sendFile`, `clean_request`, `consoleHandler`, the loop of `main`; it EXTENDS `WindowsLog` | paths, bytes, the numbers of handles |
| `WindowsServer_proofs` | theorems about `WindowsServer` | |

Each that a run checks has an `MC` module with the sets its configurations use;
`LogToken` is checked by no run: it is a step of a proof. Every module is a
set of variables, one action per blocking call or per run of code between two of
them, and a program counter for each process whose values are named for the call
that comes next.

**LogPipe.** `wpc` and `lpc` are the program counters. `mutex` is the
process-shared mutex; `tokens` and `pipe` are the two pipes; `lpc = "waiting"` is
the wait set of the condition variable, which has one waiter at most. The real
`pthread_cond_wait` is three actions: release and block, wake, lock again. `logFds`
counts the descriptors the logger opens and never closes. Three things the
code does not control are constants: `SpuriousWakeups`, `GroupHangup` and `IOErrors`. With the last every
`write` of the protocol may fail, each of which the code reports and ignores: the token
(`PutTokenFails`), the record (`WriteFails`), the line of the file (`AppendLineFails`). The first two leave the other
side waiting for what does not come; the third loses a record between others, which is why `AccessLog` has the
action `Lose`, enabled by `LinesMayFail`. The reads do not fail, for both ends of both pipes are valid and `SA_RESTART` is set for the
one signal that is caught; nor do the calls on a mutex and a condition variable that are initialised. A write of a
message is atomic: 4096 bytes are `PIPE_BUF`. When the logger dies the mutex stays
locked (it is not robust), reads of the token return 0, and writers get SIGPIPE,
which ends all threads of the process of the writer.

**LogToken.** The handlers, the logger, the token pipe and the log pipe of `LogPipe`, step
for step, where everything that waits for the mutex or the condition variable may go on at any time
and every process may die anywhere. It lies between `LogPipe` and `AccessLog`, and says what the
order of the records rests on: the token alone.

**Server.** `fdt` is the descriptor table of the server's process: what each number
refers to. A handler keeps numbers (`cfd`, `ffd`), not objects, and the steps that
close take the number, so that a mistake would hit whatever the number refers to
by then. `conn` and `reply` are what the client sees. `hmode` is the mode in the
handler's copy of the configuration. A child has its own table, which goes when
it exits, so only the numbers of the server matter. `target` chooses the path a
request takes through the code; `AllTargets` has one value for each. `getGopherCode` is four
actions: `popen` takes both ends of a pipe (`rfd`, `wfd`), closes one when the program runs, and
`pclose` the other, so that the pipes of several threads are open side by side, beside their connections and directories.
It runs once for the path asked for and once for each line of a listing; `lines` is how many
are still to come, and what ends a listing in the middle - a client that has left, a `popen` that fails - leaves the
client with "part" and the directory open. A client in `silent` sends nothing, and `recv` has no
timeout; one in `stalled` does not read, so a `send` to it does not return; one in `left`
has gone, so that `recv` fails and `send` raises SIGPIPE, which ends a child, or the
server with all its threads. A "huge" file is one whose size is no `int`, an "untyped" one has a name that breaks the
shell command that looks for its type. With `CallsMayFail` a fork or thread, a `popen`, a `lockf` and a
new socket may fail: the child whose `lockf` failed goes on without the lock (the ghost `unlocked`), and where the sending
thread cannot be created the handler sends by itself and then joins a thread that is none, which
returns, crashes or waits for ever.

**LogRestart.** `First` and `Second` are `LogPipe` with variables of their own, but the
mutex; `due` stands for what the condition variable remembers, and `memory` is
"truncated" between `shm_open` and `ftruncate`, when whoever touches it dies of
SIGBUS. A logger whose handlers are all gone reads 0 bytes and writes a line without a message; `log` holds
records, so such a line is not in it (`ReadNothing`). `CrashFirst` kills the first server, a child or its logger at any step;
what is left goes on. `clean` says whether anything was left.

**Reload.** A value in `conf` is the version of the file it was read from, 0 for
values from the command line. `text` is what `getline` read, parsed a line per step;
an edit of the file or a signal may come between two lines. `flag` is
`reset_config # NULL`. `sighup` is what the process does with the signal: the
default action until `signal` is called, ignored in a daemon. `select` is the only
call a signal interrupts: `signal()` sets `SA_RESTART`, which does not apply to
`select`.

**RequestReader.** `arrived` and `taken` cut the message in pieces: the network
delivers byte by byte and `recv` takes what there is, up to the room left.

**Selector.** `Site` is the file system, a function from nodes to kinds; `Follow` walks a
path token by token from a node, a recursive function over the tokens, and `Lookup` is what
the kernel finds for a path, starting at `Cwd` or at the top. `root` is `root_dir`. The client
asks for a selector it has typed or for one of a line it has got (`sent`), and
the handler resolves it, finds its type and answers; `left` is what `readdir`
has still to give, in any order. `ShellNames` are the names that mean something to the shell
(with a space, `&`, parentheses): the path stands unquoted in the command `getGopherCode` runs, so what comes back for a path
with such a name is any type of the table or none. Of one without a type nothing is sent (`GetCode`),
and in a line the negative code is a byte like any other. One request at a time: what requests do to each
other is in `Server`.

**WindowsLog.** `gpipe` (`pipe_read` and `pipe_write`) and `std` (the standard output
handle) are globals that threads of the server interleave on; `saved` is
`father_std_out`. `pipe[r]` is the pipe made for request `r`. `lp`, `lin` and `lbuf` are
the log process of each request; `event` is the named event all log processes wait for,
which resets itself when it wakes one and goes with its last holder.
`GetStdHandle`/`SetStdHandle`, and `SetEvent` with the restoring that
follows, are one step each.

**WindowsServer.** `runner` is the main thread; `argsFd`, `argsMode` and `cur` are
the fields of the one `args` every thread reads anew; `overtaken` is a ghost,
the threads whose `args` were overwritten. `inst` and `info` are the
named pipe; `handles` says which of the server and the request process has a
handle of a connection, which ends with the last. `snd` is the sending thread, which
may send only while its handler is at "mapped"; after that it fails, or faults and
takes its process along. `free(args)` of what is not on the heap has no effect
or ends the process; after the runner has returned, `args` holds anything (`ArgsGone`).
`SOCKET` is unsigned, so a failed `accept` is not noticed: `AcceptFails` puts no connection into `args` and goes on
as if it had one. A failing `select` (`SelectFails`) returns without closing the socket, and a wrong file may end
the server (`ParseConfigFails`).
Ctrl-C goes to every process of the console: the server has a handler, request and log
processes have none and end.

**Mutants.** Each module has a section of mutants: definitions with the signature of
an action (or operator) and one plausible mistake in them. They are not part
of any specification. Put in the place of the original, the property named
beside them in `PROJECT.json` breaks; this is how we know that a property says
something about the code.

## 4. The runs

| run | instance | what it shows |
|---|---|---|
| `log_pipe` | 4 handlers, a pipe of one slot, no failures | signals are never lost, the critical section never blocks, `LogPipe` implements `AccessLog` with its fairness, every record is written |
| `log_pipe_failures` | 3 handlers (2 threads, 1 child), 2 descriptors, wake-ups without signal, hangup, writes that fail | types, mutual exclusion, at most one record on its way, and what reaches the file is in order and there once, whatever process dies and whatever write fails |
| `log_pipe_fd_leak` | 3 handlers, 2 descriptors | *violation*: the logger dies when it is out of descriptors |
| `server` | 2 requests for a file, a directory with up to one entry or something missing, 9 descriptors; one client may leave, send nothing or not read; one reload, which changes the mode | every other client is served whole and closed, every file logged, nothing leaks |
| `server_faults` | 2 requests of any of 11 kinds, both clients may leave, 4 descriptors of which up to 2 are leaked already, one reload, failing calls; symmetric in the requests | types, nobody acts on another's descriptor, one sender per lock, the log tells of served files and of all that were served whole, only its own handler ends a connection |
| `server_empty_file` | a file and an empty file | *violation*: after the empty file the other is never logged |
| `reload` | 7 contents of the file, 2 versions, 2 signals, 2 options, daemon, 2 handlers with 2 lines each | only whole configurations serve, on their own port; lines come from the copy; an idle reload takes effect |
| `request_reader` | all messages of up to 6 bytes, a buffer of 4 | the selector is the line and the verdict depends on its length, however it is cut; without `DOS_PROTECTION` lines are answered |
| `selector` | a server in `/srv/www`, 8 directories with every kind of node and names the shell does not take as they are (two of directories, one of a file), 6 roots, 8 typed selectors, selectors of up to 9 tokens | from neutral roots every line whose path means nothing to the shell leads to its entry and has its type, at any depth; listings are whole; the log is not served |
| `selector_readme_root` | the same site, the root of the README's example | *violation*: no entry of a listing can be opened |
| `windows_server` | 2 requests in 5 scenarios (two records that race; a directory and a file; a Ctrl-C; a failing `select`; two Ctrl-C), both modes, failing calls, an unnoticed failing `accept` among them | one request process at a time, answers go to their clients, records are true, the hand-off completes, Ctrl-C is noticed, a lone record is written |
| `log_restart` | 2 servers of one thread and one child each, any process of the first killed at any step | the log of each is safe, one record in flight at most, a clean restart logs everything |

The disagreements the violation runs show are described in
`PROJECT.json` under `findings`, with the line of the code and of the text it
contradicts. "The report" is `src/Relazione.pdf`.

Other things the code does, which the properties leave out by name: a SIGHUP that comes
between two calls of `select` only sets the flag and waits for the next one
(`IdleReloadTakesEffect` is about one that interrupts `select`); a line that fills the
buffer to its last byte makes the handler drain a line that does not come
(`LinesAreAnswered` leaves that length out, `VerdictByLength` does not); with `DOS_PROTECTION` the error for a line too long
is sent, but the connection is closed with bytes of it unread, which resets it, and the client may never see
the error (`LinesAreAnswered` is about the server without it); a name that means something to the shell has any type or
none (`HasShellName`); a client that does not read stops all downloads of a threaded server
(`HeldUp`), and one that resets ends it (SIGPIPE); on Windows a second client may take the first
one's `args` over (`overtaken`), and a request process that is faster than the
runner's `ConnectNamedPipe` blocks both for good (`Stuck`); what outlives a killed server can
take the next one's signals (`clean`).

**Bounds.** `Workers`: the protocol lets one handler in at a time, so with three
there is one inside, one with no token and one that has finished; four in the run
without failures. `PipeSlots`: 1 is the tightest, 2 lets a second message in if the
protocol allowed it. `FdBudget`: one more or one less than there are records.
`Requests`: the hazards are races of two handlers (a lock, a number given out again);
the accept loop is the third party. `MaxFd` = 4: the listening socket, two
connections and one file, or one connection and one pipe; `Leftover` = 2 lets up to two of these numbers be taken by connections that
earlier requests have leaked, so that `accept`, `open`, `opendir` and `popen` all fail somewhere.
A thread that lists a directory needs five numbers with the listening socket's, so a whole listing of a thread is in the other runs,
and of a child in this one. 9 is enough for two requests to need no more (`NeverOutOfDescriptors`: four for each and one).
`Entries` = 1 is a directory with nothing or one thing to list: a listing that is whole, one that is cut short, and a
pipe beside a directory. `server` checks liveness and so has less room than the others: `MCNext` keeps what may happen to one
behaviour to a client that leaves or a reload, not both, and a reload from coming while an entry of a listing is still to be sent (`server_faults` has
all of that, for safety, and the theorems about `ClosedAfterAnswer` and `NothingLeaks` too). `Reloads` = 1 is one change of mode and of
socket number. `MaxVersion` = 2 and `MaxHangups` = 2: a reload, and a second signal in
the middle of it. `BufferSize` 4 with messages of up to 6: shorter than, equal to and
longer than the buffer, a line end that the buffer cuts in two. `MaxSelector` = 9:
three levels of listings from `.` and `./`, and selectors that grow past it. The roots are the
top, the server's own directory by three names, the directory above it and one
below it. A root is *neutral* if it leads nowhere else when it is put behind
itself: the top, or a relative path to the server's directory. Selectors
of lines only work with those (the file that comes with the server has `"."`). In
`windows_server` two requests are enough for each race (args, the standard output, the event, the named
pipe); scenarios bound which of them meet, and `events` the Ctrl-Cs. In `log_restart` a thread and a child
of each server are the two kinds of processes that may hold the mutex when they die, and the logger the third;
as many descriptors as records, and a pipe of one slot.
With two clients in `windows_server` the runner soon times out in `select`; that steady clients keep it from looking at the
flag, which it does on a timeout only, is not something the run can show.

**Fairness.** Weak fairness for the steps of the logger, of the accept loop, of each
handler and of the main thread: the kernel schedules every process, and each of
these steps, once possible, stays possible until it is taken or its process
dies. The one exception is a mutex or a lock that several wait for; each handler
takes it once, so weak fairness is enough: the others run out. In `RequestReader` what the
client sent arrives. In `LogRestart` only the second server is owed anything. In
`WindowsServer` it is that of the runner, and of each handler, sending thread and log process. Of clients it is assumed
that those not in `silent` send their request (`ReadRequest` is a step of the handler), and that those not in `stalled` read what they are
sent; the liveness properties name both sets. Nothing else is assumed of clients, signals, edits, hangups, reloads and
failures: they may come or not.

**Deadlock** is not checked: in all of these systems the processes may rightly wait for
clients for ever, and bounded clients run out. What must happen is said with `~>`.

## 5. What is proved

`LogPipe_proofs` proves for any number of handlers and any bounds:

- `Invariance`: the inductive invariant `Inv`. `MutualExclusion` alone is not
  inductive: it needs that the mutex is free only if nobody is inside, and
  `AtMostOneInFlight` needs to know how many tokens are out. `Inv` says: a
  token in the pipe or in the hands of a handler (past the read, before the
  signal) is there only while the logger waits, and there is one at most,
  unless the logger is dead or was woken unsignalled; a message is in the pipe or in the
  buffer only between the handler's write and the logger's. `TypeCorrect`, `Exclusion` and `OneInFlight`
  follow.
- `NoLostSignal` and `NoHoldAndWait`: under the assumption `~SpuriousWakeups` a second
  invariant, `SignalInv`, holds, which says that the logger leaves the wait only after a
  signal, and then finds a message. Both properties are false otherwise.
- `Refinement`: `Spec => AccessLogSafety`, for every value of the constants, failing writes included. `accepted` is the
  log, the buffer and the pipe in a row; a handler's write is `Accept`, the logger's line is `Record`, one it cannot write is
  `Lose`, everything else stutters. That the write of a record or of a token fails stutters, too: there is nothing that got lost
  on the way. What `Lose` takes away is the record on its way, and no other.
- `TokenIsPartOfIt`: `LogPipe` implements `LogToken`, which needs no invariant.

`Server_proofs` proves for any number of requests, any kinds of targets, any table size and any
number of reloads:

- `Invariance`: the inductive invariant `Inv`. `HandlersUseTheirOwn` needs to know that a
  connection the server has accepted and not yet handed on is safe in either mode, and that
  `type_Request` is still 0 when the mapping has closed the connection (otherwise
  `clean_request` closes a number a second time, and by then it may be another's). `OneSender`
  needs who owns which lock. `LoggedAfterService` needs how far the answer is at each
  point of the way to the log, and that whoever is in the log is past it.
- `TypeCorrect`, `OwnDescriptors`, `OneSenderPerLock` (but for the children whose `lockf` failed), `LogTellsTheTruth`
  follow from `Inv`, with or without calls that fail.
- `LogIsComplete`: a file that was sent whole is in the log when its handler returns. The part
  `SentFiles` of `Inv` says that a handler whose reply is the file is on the way from the sending to the
  log, or in the log; a size that is no `int` is the only way past it, and such a file is not sent whole.
- `NobodyElseCloses`: the action property `OnlyTheHandlerCloses`, from the same invariant: a
  step closes the connection its own number refers to, which is its own.

Two of its properties hold only where no call fails. Descriptors are what calls fail for most likely; with
`EnoughDescriptors` - finitely many requests, and a table with four numbers for each of them (its connection, its
directory or file, the two ends of its `popen` pipe), one for the listening socket and one for each that was open before - and a second invariant
it is proved that none does for want of one:

- `MoreInvariance`: `Table` says whose each number of the table is: a number that refers to a connection,
  a file or a pipe is the one its handler kept. `Ways` says what was asked for at each point of `handle_request`.
- `NeverOutOfDescriptors`: `RoomForAll`, a handler that is about to call `popen`, `opendir` or `open` finds two
  free numbers, and a server that opens its socket again finds one. The numbers in use are those of
  the listening socket, of what was open before, and the images of the requests under `cfd`, `ffd`, `rfd` and `wfd`; the lemmas count
  them, and a handler that is about to take two has none of its pipe's.
- `NobodyUnanswered`: `ClosedAfterAnswer`, under `EnoughDescriptors` and `~CallsMayFail` (what calls fail for besides
  descriptors: processes, memory), if no file is larger than an `int` tells (of such a
  file a part is sent). `Answered` says what a client has at each point of the way.
- `NothingIsKept`: `NothingLeaks`, under the same two assumptions, if nothing was open before and every file asked for can be locked and
  mapped (an empty file keeps lock and descriptors: that is a finding). `Kept` says that a number still in use,
  and `p_mutex`, belong to a handler on its way, to a client that left, or to what was killed.

The instance of the run `server` satisfies all these hypotheses.

`LogToken_proofs` proves for any number of handlers `TokenIsEnough`: token and log pipe implement
`AccessLog` without any mutex. The invariant says where the one token of a round is: in its pipe, with one
handler, or turned into the message it allowed; or nobody is left to take one. `LogRestart_proofs` builds on it:

- `EachHasItsToken`: each half of `LogRestart` implements `LogToken`. Only what starts the second server needs an
  invariant: until then its logger is not forked and its handlers have done nothing.
- `RestartLogsSafe`: `BothLogsSafe`, for any number of threads and children of both servers. `LogPipe`'s own
  invariant is of no use here: two processes can be in the critical section once
  `shm_open` has truncated the mutex under its owner.

`Reload_proofs` proves for any files, any number of versions and signals, and any handlers:

- `Invariance`: the inductive invariant. `WholeConfigurations` needs to know, while a file is
  parsed, which keys have been seen, and that a file in which every key was seen once and nothing was wrong has
  left nothing of the old configuration but what the command line gave: `count` and the
  position in the text are related to the keys of `conf` that are of this version.
- `TypeCorrect`, `OnlyWholeFiles`, `SocketFollowsFile`, `ListingsKeepTheirCopy` follow.

`RequestReader_proofs` proves for any messages and any size of the buffer:

- `Invariance`: while the request is read, the buffer has room, begins the message and holds no
  line feed. Without the last a line could be found later than it came, and the
  selector would be more than the line. That a string with a line feed has a first one is
  proved from the well-foundedness of the natural numbers.
- `TypeCorrect`, `LineIsSelector` and `LengthDecides` follow.

`Selector_proofs` proves for any file system that is a tree, whose entries are not named `/`, `.` or `..`
and whose directories alone have entries, and for any roots and any selectors, names with
slashes between them:

- `Invariance`: the inductive invariant. For every line of a listing it says that its
  selector begins with the root, ends in the entry's name, and leads to the entry from the server's
  directory; of the lines together, that each entry read so far has one; for the handler, what
  it has made of the selector. `TypeCorrect`
  follows.
- `ListedEntriesServed`: behind a neutral root a chosen line leads to its entry, at any depth of browsing, if no name on the
  path means something to the shell.
  Neutral is what the proof needs: the selector of a line begins with the root, and the
  handler puts the root before it again. The lemma it rests on, `FollowConcat`, says that a path put behind another is followed from where
  that one leads: the walk is a recursive function, and the induction over the length of the path is
  done with the least number for which a claim fails, which the natural numbers have because they are well-founded.
- `TypesFit` (again for such paths), `ListingIsComplete` and `LogNotServed` follow from the same invariant. The last one
  holds for every root: a path that leads to the log ends in its name, and
  that is what `blackListFile` looks at.

`WindowsServer_proofs` proves for any number of clients, whatever they ask for, any number of Ctrl-C
events, and with or without calls that fail, an `accept` whose failure goes unnoticed among them:

- `Invariance`: the inductive invariant. `HandOff`: from the `accept()` until the wait is over the runner
  has the connection it hands to a process, because `args` says "Process" and so no thread's
  `clean_request` closes anything. `OwnArgs`: whoever overwrites `args` marks the threads
  that run as overtaken, and when a thread is started none is left that is not. `AnswerInv`: as
  long as no thread was overtaken, a handler that is going to answer has its
  connection and has sent nothing. `RecordInv`: a record is in one pipe, in one log process or in the log once,
  and its writer has passed the write.
- `TypeCorrect`, `ProcessesAreSerial`, `AnswersArrive` and `LogIsTrue` follow.

They rest on the named assumptions on constants in the modules (handlers are not the logger, bounds
are natural numbers, files and messages are sequences, a file system is a tree), which TLC evaluates in every run. The inductive
invariants of `LogPipe`, `LogToken`, `Server`, `Selector` and `WindowsServer` were checked with TLC before they were proved,
and that both halves of `LogRestart` implement `LogToken`.

Every safety and action property of the passing runs is a theorem. Only model-checked: all liveness (`AccessLogFair`,
`EveryRecordWritten`, `EveryClientServed`, `EveryFileLogged`, `IdleReloadTakesEffect`,
`LinesAreAnswered`, `CrashRecovery`, `HandOffCompletes`, `EventIsNoticed`, `LoneRecordIsWritten`), which the
provers do not handle; and the three violations, which TLC's counterexamples show.

## 6. What is not modelled

- The variant with one log process per record: switched off at compile time.
- `Server` uses `AccessLog`, not `LogPipe`: what a dead logger does to handlers is in `LogPipe` alone.
- A read of the log's pipes that fails, and calls on an initialised mutex or condition variable that do.
- On Windows: handles that are given out again after they were closed; a `CreateProcess` that fails for a
  log process; an `accept` that fails for want of sockets and leaves the client in the queue (where it fails the client
  is gone); clients that connect to the socket a failing `select` leaves open; a view that has no zero byte at its end (its length is taken with `strlen`);
  the pieces in which a request arrives (`RequestReader` is the same code); `blackListFile` and
  the type table of that build; `run_concurrency` and `pipe_write_to_pipe`, which nothing calls.
- A `send` that a signal cuts short; a file that changes while it is mapped.
- Failing allocations; the text of answers; numeric values; symbolic links.
- `p_mutex` is initialised only if the server starts in thread mode; glibc's mutex
  is all zeros, as the variable is from the start, so a reload to thread mode finds it ready.
- `socket_read_request2`, `socket_drain_tcp2`, `l_sendFile`: nothing calls them.
- The `file` program that `popen` runs: it prints a MIME type, or nothing, or `popen` fails. A first line without a slash, which
  `strtok_r` cannot cut in two, would crash the handler; the message the code compares with at `linux_protocol.c:86` is one that
  `file` does not print for a path that was found.
