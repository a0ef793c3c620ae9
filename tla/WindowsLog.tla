------------------------------ MODULE WindowsLog ------------------------------
(***************************************************************************)
(* The access log of the Windows server.  A handler of a file request has  *)
(* a log process of its own: pipe_run_process creates an anonymous pipe,   *)
(* makes its read end the standard output of the calling process, starts   *)
(* gopherWinPipeProcess, which is given that standard output, and puts the *)
(* old one back; pipe_simple_write_to_pipe writes the record and sets the  *)
(* named event every log process of the machine waits for.                 *)
(* The ends of the pipe and the standard output are globals of a process:  *)
(* the threads of the server share them, a request process has its own.    *)
(* WindowsServer composes these steps with the handlers that take them.    *)
(***************************************************************************)
EXTENDS Naturals, Sequences

CONSTANTS
  Requests,   \* the requests; a pipe is named by the one it was made for
  Console,    \* the standard output the server was started with
  NoPipe      \* the value of the globals before the first CreatePipe

ASSUME WindowsLogAssumption ==
  /\ Console # NoPipe
  /\ {Console, NoPipe} \cap Requests = {}

VARIABLES
  gpipe,      \* the pipe whose ends pipe_read and pipe_write of the server are
  std,        \* the server's STD_OUTPUT_HANDLE
  saved,      \* father_std_out, a local of each handler
  pipe,       \* the records in each pipe
  lp,         \* where the log process of each request is
  lin,        \* what its standard output refers to
  lbuf,       \* the record it has read
  event,      \* eventReadyToReadPipe
  log         \* the lines of the log file

globalVars == <<gpipe, std, saved>>
procVars == <<lp, lin, lbuf>>
wlogVars == <<gpipe, std, saved, pipe, lp, lin, lbuf, event, log>>

Handles == Requests \cup {Console, NoPipe}

\* A record names the request it is about and the client address in it.
Records == [by : Requests, ip : Requests]

WLogTypeOK ==
  /\ gpipe \in Requests \cup {NoPipe}
  /\ std \in Handles
  /\ saved \in [Requests -> Handles]
  /\ pipe \in [Requests -> Seq(Records)]
  /\ lp \in [Requests -> {"none", "started", "waiting", "reading", "writing",
                          "ended"}]
  /\ lin \in [Requests -> Handles]
  /\ lbuf \in [Requests -> Seq(Records)]
  /\ event \in {"none", "set", "clear"}
  /\ log \in Seq(Records)

WLogInit ==
  /\ gpipe = NoPipe
  /\ std = Console
  /\ saved = [r \in Requests |-> Console]
  /\ pipe = [r \in Requests |-> <<>>]
  /\ lp = [r \in Requests |-> "none"]
  /\ lin = [r \in Requests |-> NoPipe]
  /\ lbuf = [r \in Requests |-> <<>>]
  /\ event = "none"
  /\ log = <<>>

-----------------------------------------------------------------------------
(* Mutants: plausible mistakes in the operators below; none is used. *)

\* the log process creates the event in the state not signalled
LoggerCreatesEvent_Unsignalled(r) ==
  /\ lp[r] = "started"
  /\ lp' = [lp EXCEPT ![r] = "waiting"]
  /\ event' = IF event = "none" THEN "clear" ELSE event
  /\ UNCHANGED <<globalVars, pipe, lin, lbuf, log>>

\* the log process leaves the record in the pipe
LoggerReads_Peeks(r) ==
  /\ lp[r] = "reading"
  /\ lin[r] \in Requests
  /\ pipe[lin[r]] # <<>>
  /\ lp' = [lp EXCEPT ![r] = "writing"]
  /\ lbuf' = [lbuf EXCEPT ![r] = pipe[lin[r]]]
  /\ UNCHANGED <<globalVars, pipe, lin, event, log>>

-----------------------------------------------------------------------------
(* pipe_run_process, as the threads of the server interleave it *)

CreatePipe(r) ==
  /\ gpipe' = r
  /\ UNCHANGED <<std, saved, pipe, procVars, event, log>>

\* GetStdHandle and SetStdHandle
RedirectStd(r) ==
  /\ saved' = [saved EXCEPT ![r] = std]
  /\ std' = gpipe
  /\ UNCHANGED <<gpipe, pipe, procVars, event, log>>

\* CreateProcess: the log process is given the standard output of the moment.
StartLogger(r) ==
  /\ lp' = [lp EXCEPT ![r] = "started"]
  /\ lin' = [lin EXCEPT ![r] = std]
  /\ UNCHANGED <<globalVars, pipe, lbuf, event, log>>

RestoreStd(r) ==
  /\ std' = saved[r]
  /\ saved' = [saved EXCEPT ![r] = Console]
  /\ UNCHANGED <<gpipe, pipe, procVars, log>>

\* In a request process nobody else sees the globals: one step.
RunLogProcess(r) ==
  /\ lp' = [lp EXCEPT ![r] = "started"]
  /\ lin' = [lin EXCEPT ![r] = r]
  /\ UNCHANGED <<globalVars, pipe, lbuf, event, log>>

-----------------------------------------------------------------------------
(* pipe_simple_write_to_pipe *)

\* The pipe was made as large as one record: the next one waits for room.
\* A write to a handle that was never made fails, and is not noticed.
WriteFileToPipe(p, record) ==
  /\ p # NoPipe => pipe[p] = <<>>
  /\ pipe' = IF p = NoPipe THEN pipe ELSE [pipe EXCEPT ![p] = <<record>>]
  /\ UNCHANGED <<globalVars, procVars, event, log>>

HasEvent(r) == lp[r] \in {"waiting", "reading", "writing"}

\* CreateEvent, SetEvent, CloseHandle: without another holder the event is
\* created and goes away at once.
SignalEvent ==
  /\ event' = IF event = "none" THEN event ELSE "set"
  /\ UNCHANGED <<pipe, procVars, log>>

-----------------------------------------------------------------------------
(* main_LogProcess.c *)

\* CreateEvent: opens the event, or makes it, signalled.
LoggerCreatesEvent(r) ==
  /\ lp[r] = "started"
  /\ lp' = [lp EXCEPT ![r] = "waiting"]
  /\ event' = IF event = "none" THEN "set" ELSE event
  /\ UNCHANGED <<globalVars, pipe, lin, lbuf, log>>

\* The event resets itself: it wakes one of those that wait for it.
LoggerWakes(r) ==
  /\ lp[r] = "waiting"
  /\ event = "set"
  /\ lp' = [lp EXCEPT ![r] = "reading"]
  /\ event' = "clear"
  /\ UNCHANGED <<globalVars, pipe, lin, lbuf, log>>

\* ReadFile waits for a record.
LoggerReads(r) ==
  /\ lp[r] = "reading"
  /\ lin[r] \in Requests
  /\ pipe[lin[r]] # <<>>
  /\ lp' = [lp EXCEPT ![r] = "writing"]
  /\ lbuf' = [lbuf EXCEPT ![r] = pipe[lin[r]]]
  /\ pipe' = [pipe EXCEPT ![lin[r]] = <<>>]
  /\ UNCHANGED <<globalVars, lin, event, log>>

\* The end of a log process; with its last holder the event goes.
LoggerEnds(r) ==
  /\ lp' = [lp EXCEPT ![r] = "ended"]
  /\ lin' = [lin EXCEPT ![r] = NoPipe]
  /\ lbuf' = [lbuf EXCEPT ![r] = <<>>]
  /\ event' = IF \E q \in Requests \ {r} : HasEvent(q) THEN event ELSE "none"

\* ... and fails when the standard output is no pipe, or the pipe is empty
\* and its write end closed.
LoggerReadFails(r, writeEnds) ==
  /\ lp[r] = "reading"
  /\ lin[r] \in Requests => pipe[lin[r]] = <<>> /\ lin[r] \notin writeEnds
  /\ LoggerEnds(r)
  /\ UNCHANGED <<globalVars, pipe, log>>

LoggerWrites(r) ==
  /\ lp[r] = "writing"
  /\ log' = log \o lbuf[r]
  /\ LoggerEnds(r)
  /\ UNCHANGED <<globalVars, pipe>>

\* Ctrl-C, which a log process does not handle, ends them all.
LoggersKilled ==
  /\ lp' = [r \in Requests |-> IF lp[r] = "none" THEN "none" ELSE "ended"]
  /\ lin' = [r \in Requests |-> NoPipe]
  /\ lbuf' = [r \in Requests |-> <<>>]
  /\ event' = "none"
  /\ UNCHANGED <<globalVars, pipe, log>>

LoggerStep(r, writeEnds) ==
  \/ LoggerCreatesEvent(r)
  \/ LoggerWakes(r)
  \/ LoggerReads(r)
  \/ LoggerReadFails(r, writeEnds)
  \/ LoggerWrites(r)

==============================================================================
