-------------------------------- MODULE Reload --------------------------------
(***************************************************************************)
(* The life of the server's main thread on Linux: it reads the            *)
(* configuration file line by line, takes the command line over it,        *)
(* installs the SIGHUP handler, and then serves until a SIGHUP that        *)
(* interrupts select() makes it close the listening socket and read the    *)
(* file again (main.c, config_file.c, linux_signals.c, linux_socket.c).    *)
(* A request handler keeps the copy of the configuration it got when its   *)
(* connection was accepted; only the host name is a global, ip_buffer.     *)
(*                                                                         *)
(* A value is represented by the version of the file it was read from; the *)
(* values of the command line have version 0.                              *)
(***************************************************************************)
EXTENDS Naturals, Sequences

CONSTANTS
  Handlers,       \* request handlers, each sends the listing of a directory
  Files,          \* the contents the configuration file may have
  CommandLine,    \* the keys given on the command line
  Daemon,         \* was -e given?
  ListingLines,   \* lines of a listing
  MaxVersion,     \* bound on the versions of the file
  MaxHangups      \* bound on the SIGHUPs sent

Keys == {"port", "mode", "root", "ip"}
Modes == {"Thread", "Process"}

\* A line names a key and has a value; a mode is a value of its own.
Line == [key : Keys \cup {"blank", "unknown"},
         value : Modes \cup {"good", "bad", "toolong"}]

ASSUME ReloadAssumption ==
  /\ Files \subseteq Seq(Line)
  /\ CommandLine \subseteq Keys
  /\ Daemon \in BOOLEAN
  /\ ListingLines \in Nat
  /\ MaxVersion \in Nat \ {0}
  /\ MaxHangups \in Nat

VARIABLES
  content,    \* the lines of the configuration file
  version,    \* its version
  text,       \* the lines that were read from it and are being parsed
  from,       \* the version they were read from
  next,       \* the line to parse next
  count,      \* how often each key has been seen
  wrong,      \* has a line been found wrong that does not stop the parser?
  conf,       \* *configs, and ip_buffer for the key "ip"
  main,       \* where the main thread is
  sighup,     \* what a SIGHUP does: "default", "ignored" or "handled"
  flag,       \* configs->reset_config # NULL
  listening,  \* the port of the listening socket, by version, or Closed
  snap,       \* each handler's copy of the configuration
  lines,      \* the lines each handler has sent
  hangups     \* SIGHUPs sent so far

Closed == MaxVersion + 1

fileVars == <<content, version>>
parseVars == <<text, from, next, count, wrong>>
handlerVars == <<snap, lines>>
signalVars == <<sighup, hangups>>
vars == <<content, version, text, from, next, count, wrong, conf, main,
          sighup, flag, listening, snap, lines, hangups>>

Versions == 0..MaxVersion

\* What a configuration holds: the version each key's value is of, and which
\* mode the value of "mode" is.
Configs == [of : [Keys -> Versions], concurrency : Modes]

NoCopy == [of |-> [k \in Keys |-> 0], concurrency |-> "Process"]

TypeOK ==
  /\ content \in Files
  /\ version \in 1..MaxVersion
  /\ text \in Files \cup {<<>>}
  /\ from \in Versions
  /\ next \in 1..(Len(text) + 1)
  /\ count \in [Keys -> 0..Len(text)]
  /\ wrong \in BOOLEAN
  /\ conf \in Configs
  /\ main \in {"read", "parse", "options", "install", "listen", "loop",
               "select", "interrupted", "clear", "dead"}
  /\ sighup \in {"default", "ignored", "handled"}
  /\ flag \in BOOLEAN
  /\ listening \in Versions \cup {Closed}
  /\ snap \in [Handlers -> [taken : BOOLEAN, conf : Configs]]
  /\ lines \in [Handlers -> Seq([host : Versions, port : Versions])]
  /\ hangups \in 0..MaxHangups

Init ==
  /\ content \in Files
  /\ version = 1
  /\ text = <<>>
  /\ from = 0
  /\ next = 1
  /\ count = [k \in Keys |-> 0]
  /\ wrong = FALSE
  /\ conf = NoCopy
  /\ main = "read"
  /\ sighup = "default"
  /\ flag = FALSE
  /\ listening = Closed
  /\ snap = [h \in Handlers |-> [taken |-> FALSE, conf |-> NoCopy]]
  /\ lines = [h \in Handlers |-> <<>>]
  /\ hangups = 0

-----------------------------------------------------------------------------

Goes(a, b) ==
  /\ main = a
  /\ main' = b

\* The parser has seen every line: each key once, nothing wrong.
Accepted == ~wrong /\ \A k \in Keys : count[k] = 1

\* After the file comes the command line, but only when the server starts.
AfterFile == IF sighup = "handled" THEN "listen" ELSE "options"

\* -e: the process forks twice, its parents end, and SIGHUP is ignored.
SighupAfterOptions == IF Daemon THEN "ignored" ELSE "default"

(***************************************************************************)
(* Mutants: each is an action below with a plausible mistake in it.  None   *)
(* is part of Next; put in the place of its action it breaks a property.   *)
(***************************************************************************)

\* the position of the parser is not reset
ReadFile_KeepsPosition ==
  /\ Goes("read", "parse")
  /\ text' = content
  /\ from' = version
  /\ count' = [k \in Keys |-> 0]
  /\ wrong' = FALSE
  /\ UNCHANGED <<next, fileVars, conf, flag, listening, handlerVars,
                 signalVars>>

\* missing and repeated keys are not noticed
ParseEnd_Unchecked ==
  /\ next > Len(text)
  /\ Goes("parse", AfterFile)
  /\ UNCHANGED <<fileVars, parseVars, conf, flag, listening, handlerVars,
                 signalVars>>

\* the server goes back to its loop without a socket on the new port
ParseEnd_NoSocket ==
  /\ next > Len(text)
  /\ Goes("parse", IF ~Accepted THEN "dead"
                   ELSE IF sighup = "handled" THEN "loop" ELSE "options")
  /\ UNCHANGED <<fileVars, parseVars, conf, flag, listening, handlerVars,
                 signalVars>>

\* handlers look at the configuration in force
SendLine_Live(h) ==
  /\ snap[h].taken
  /\ Len(lines[h]) < ListingLines
  /\ main = "dead" => snap[h].conf.concurrency = "Process"
  /\ lines' = [lines EXCEPT ![h] =
                 Append(@, [host |-> conf.of["ip"], port |-> conf.of["port"]])]
  /\ UNCHANGED <<fileVars, parseVars, conf, main, flag, listening, snap,
                 signalVars>>

\* reset_config is cleared before it is looked at
Interrupted_FlagCleared ==
  /\ Goes("interrupted", "loop")
  /\ flag' = FALSE
  /\ UNCHANGED <<fileVars, parseVars, conf, listening, handlerVars, signalVars>>

-----------------------------------------------------------------------------
(* The world outside *)

\* The administrator replaces the configuration file.
Edit ==
  /\ version < MaxVersion
  /\ version' = version + 1
  /\ content' \in Files
  /\ UNCHANGED <<parseVars, conf, main, flag, listening, handlerVars,
                 signalVars>>

\* SIGHUP: the handler sets the flag, and a select() in progress returns
\* EINTR; other calls are restarted.  Before the handler is installed the
\* server dies of it, unless it is a daemon.
Hangup ==
  /\ hangups < MaxHangups
  /\ main # "dead"
  /\ hangups' = hangups + 1
  /\ IF sighup = "handled"
       THEN /\ flag' = TRUE
            /\ main' = IF main = "select" THEN "interrupted" ELSE main
       ELSE /\ main' = IF sighup = "default" THEN "dead" ELSE main
            /\ UNCHANGED flag
  /\ UNCHANGED <<fileVars, parseVars, conf, sighup, listening, handlerVars>>

-----------------------------------------------------------------------------
(* conf_parseConfigFile *)

\* All lines are read before the first is parsed; without the file the server
\* ends.
ReadFile ==
  /\ Goes("read", "parse")
  /\ text' = content
  /\ from' = version
  /\ next' = 1
  /\ count' = [k \in Keys |-> 0]
  /\ wrong' = FALSE
  /\ UNCHANGED <<fileVars, conf, flag, listening, handlerVars, signalVars>>

ReadFileFails ==
  /\ Goes("read", "dead")
  /\ UNCHANGED <<fileVars, parseVars, conf, flag, listening, handlerVars,
                 signalVars>>

\* A line with a value is taken over at once ...
ParseValue ==
  /\ main = "parse"
  /\ next <= Len(text)
  /\ LET line == text[next] IN
     /\ line.key \in Keys
     /\ line.value # "bad"
     /\ count' = [count EXCEPT ![line.key] = @ + 1]
     /\ IF line.value = "toolong"
          THEN wrong' = TRUE /\ UNCHANGED conf
          ELSE /\ conf' = [of |-> [conf.of EXCEPT ![line.key] = from],
                           concurrency |-> IF line.value \in Modes
                                             THEN line.value
                                             ELSE conf.concurrency]
               /\ UNCHANGED wrong
  /\ next' = next + 1
  /\ UNCHANGED <<fileVars, text, from, main, flag, listening, handlerVars,
                 signalVars>>

SkipBlank ==
  /\ main = "parse"
  /\ next <= Len(text)
  /\ text[next].key = "blank"
  /\ next' = next + 1
  /\ UNCHANGED <<fileVars, text, from, count, wrong, conf, main, flag,
                 listening, handlerVars, signalVars>>

\* ... and an unknown key, or a value that is missing or out of range, ends
\* the server where it stands.
ParseFails ==
  /\ next <= Len(text)
  /\ text[next].key = "unknown" \/ text[next].value = "bad"
  /\ Goes("parse", "dead")
  /\ UNCHANGED <<fileVars, parseVars, conf, flag, listening, handlerVars,
                 signalVars>>

ParseEnd ==
  /\ next > Len(text)
  /\ Goes("parse", IF Accepted THEN AfterFile ELSE "dead")
  /\ UNCHANGED <<fileVars, parseVars, conf, flag, listening, handlerVars,
                 signalVars>>

-----------------------------------------------------------------------------
(* main and linux_socket *)

\* conf_read_opt; a daemon ignores SIGHUP from here on.
ReadOptions ==
  /\ Goes("options", "install")
  /\ \E m \in Modes :
       /\ "mode" \notin CommandLine => m = conf.concurrency
       /\ conf' = [of |-> [k \in Keys |-> IF k \in CommandLine THEN 0
                                                             ELSE conf.of[k]],
                   concurrency |-> m]
  /\ sighup' = SighupAfterOptions
  /\ UNCHANGED <<fileVars, parseVars, flag, listening, handlerVars, hangups>>

\* An option that is unknown or out of range ends the server.
ReadOptionsFails ==
  /\ Goes("options", "dead")
  /\ UNCHANGED <<fileVars, parseVars, conf, flag, listening, handlerVars,
                 signalVars>>

InstallHandler ==
  /\ Goes("install", "listen")
  /\ sighup' = "handled"
  /\ UNCHANGED <<fileVars, parseVars, conf, flag, listening, handlerVars,
                 hangups>>

\* start_server
Listen ==
  /\ Goes("listen", "loop")
  /\ listening' = conf.of["port"]
  /\ UNCHANGED <<fileVars, parseVars, conf, flag, handlerVars, signalVars>>

\* The port may be taken: the server exits.
ListenFails ==
  /\ Goes("listen", "dead")
  /\ UNCHANGED <<fileVars, parseVars, conf, flag, listening, handlerVars,
                 signalVars>>

EnterSelect ==
  /\ Goes("loop", "select")
  /\ UNCHANGED <<fileVars, parseVars, conf, flag, listening, handlerVars,
                 signalVars>>

\* A connection is ready; its handler starts with a copy of the configuration.
Accept(h) ==
  /\ ~snap[h].taken
  /\ Goes("select", "loop")
  /\ snap' = [snap EXCEPT ![h] = [taken |-> TRUE, conf |-> conf]]
  /\ UNCHANGED <<fileVars, parseVars, conf, flag, listening, lines, signalVars>>

\* EINTR: with the flag set the listening socket is closed.
Interrupted ==
  /\ Goes("interrupted", IF flag THEN "clear" ELSE "loop")
  /\ listening' = IF flag THEN Closed ELSE listening
  /\ UNCHANGED <<fileVars, parseVars, conf, flag, handlerVars, signalVars>>

\* main clears the flag before it reads the file again.
ClearFlag ==
  /\ Goes("clear", "read")
  /\ flag' = FALSE
  /\ UNCHANGED <<fileVars, parseVars, conf, listening, handlerVars, signalVars>>

-----------------------------------------------------------------------------

\* print_directory: the host name is the global one, the port the copy's.  A
\* child has its own globals; a thread dies with the server.
SendLine(h) ==
  LET copy == snap[h].conf
      child == copy.concurrency = "Process"
  IN
  /\ snap[h].taken
  /\ Len(lines[h]) < ListingLines
  /\ main = "dead" => child
  /\ lines' = [lines EXCEPT ![h] =
                 Append(@, [host |-> (IF child THEN copy ELSE conf).of["ip"],
                            port |-> copy.of["port"]])]
  /\ UNCHANGED <<fileVars, parseVars, conf, main, flag, listening, snap,
                 signalVars>>

MainStep ==
  \/ ReadFile \/ ReadFileFails
  \/ ParseValue \/ SkipBlank \/ ParseFails \/ ParseEnd
  \/ ReadOptions \/ ReadOptionsFails \/ InstallHandler
  \/ Listen \/ ListenFails \/ EnterSelect \/ Interrupted \/ ClearFlag

Next ==
  \/ MainStep
  \/ Edit
  \/ Hangup
  \/ \E h \in Handlers : Accept(h) \/ SendLine(h)

Spec == Init /\ [][Next]_vars

\* The main thread is scheduled; clients and signals are never owed.
FairSpec == Spec /\ WF_vars(MainStep)

-----------------------------------------------------------------------------
(* Properties *)

\* Every value of c was read from one version of the file, but for those the
\* command line gave.
FromOneFile(c) ==
  \E v \in Versions : \A k \in Keys :
    c.of[k] = v \/ (c.of[k] = 0 /\ k \in CommandLine)

\* The parser changes the configuration line by line and may stop anywhere:
\* no connection is accepted, and no handler works, with half of a file.
WholeConfigurations ==
  /\ main \in {"loop", "select"} => FromOneFile(conf)
  /\ \A h \in Handlers : snap[h].taken => FromOneFile(snap[h].conf)

\* The server waits for clients on the port of the configuration it serves.
ListensOnPort == main \in {"loop", "select"} => listening = conf.of["port"]

\* A reload does not touch the port a handler sends, nor, for a child, the
\* host name.  (A thread in the middle of a listing changes host names.)
LinesFromSnapshot ==
  \A h \in Handlers : \A i \in 1..Len(lines[h]) :
    /\ lines[h][i].port = snap[h].conf.of["port"]
    /\ snap[h].conf.concurrency = "Process"
         => lines[h][i].host = snap[h].conf.of["ip"]

\* The server runs with a file at least as new as version v, or has ended.
InForce(v) ==
  \/ main = "dead"
  \/ main \in {"loop", "select"} /\ \A k \in Keys : conf.of[k] >= v

\* A SIGHUP that finds the server in select() is answered: the file, in the
\* version it has now or a newer one, comes into force.
IdleReloadTakesEffect ==
  \A v \in 1..MaxVersion :
    main = "interrupted" /\ version = v ~> InForce(v)

==============================================================================
