--------------------------- MODULE MCWindowsServer ---------------------------
(* A small instance of WindowsServer. *)
EXTENDS WindowsServer

CONSTANTS r1, r2, console, noPipe, noConn

MCRequests == {r1, r2}

Scenario(first, second, n, m) ==
  [asks |-> [r \in MCRequests |-> IF r = r1 THEN first ELSE second],
   events |-> n, failures |-> m]

\* Two records race for the log, a file and a directory for args and for the
\* named pipe; Ctrl-C and a select() that fails hit requests with and without
\* a file.
MCScenarios ==
  {Scenario("empty", "empty", 0, 0), Scenario("directory", "file", 0, 0),
   Scenario("empty", "missing", 1, 0), Scenario("missing", "directory", 0, 1),
   Scenario("file", "absent", 2, 0)}

==============================================================================
