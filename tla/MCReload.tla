------------------------------- MODULE MCReload -------------------------------
(***************************************************************************)
(* Instances of Reload for TLC.                                            *)
(***************************************************************************)
EXTENDS Reload

CONSTANTS h1, h2

L(k, v) == [key |-> k, value |-> v]

MCHandlers == {h1, h2}

ThreadFile ==
  <<L("port", "good"), L("root", "good"), L("mode", "Thread"), L("ip", "good")>>

ProcessFile ==
  <<L("mode", "Process"), L("blank", "good"), L("ip", "good"), L("root", "good"),
    L("port", "good")>>

\* the second half of a file is missing
HalfFile == <<L("port", "good"), L("ip", "good")>>

\* a key comes twice
DoubleFile == Append(ThreadFile, L("port", "good"))

\* three keys are taken over before the bad one
BadPortFile ==
  <<L("ip", "good"), L("mode", "Process"), L("root", "good"), L("port", "bad")>>

LongHostFile ==
  <<L("ip", "toolong"), L("port", "good"), L("root", "good"), L("mode", "Thread")>>

UnknownKeyFile == <<L("ip", "good"), L("unknown", "good")>>

MCFiles == {ThreadFile, ProcessFile, HalfFile, DoubleFile, BadPortFile,
            LongHostFile, UnknownKeyFile}

MCPortAndMode == {"port", "mode"}

==============================================================================
