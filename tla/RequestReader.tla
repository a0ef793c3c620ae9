----------------------------- MODULE RequestReader -----------------------------
(***************************************************************************)
(* How a handler reads a request: socket_read_request fills a buffer of    *)
(* BufferSize bytes until it holds a line, the client stops sending, or    *)
(* the buffer is full; then socket_drain_tcp throws the rest of the line   *)
(* away.  The client sends one message and waits, or closes its side; the  *)
(* network delivers the message in pieces of any size.  Bytes are of three *)
(* kinds: carriage return, line feed, and the rest.                        *)
(***************************************************************************)
EXTENDS Naturals, Sequences

CONSTANTS
  Messages,     \* what the client may send: sequences of bytes
  BufferSize    \* BUFFER_SIZE

Bytes == {"x", "CR", "LF"}

ASSUME ReaderAssumption ==
  /\ Messages \subseteq Seq(Bytes)
  /\ BufferSize \in Nat \ {0}

VARIABLES
  message,    \* what the client sends
  closes,     \* does it close its side afterwards, or wait for the answer?
  dos,        \* DOS_PROTECTION: do not drain
  client,     \* the client's side of the connection
  arrived,    \* bytes that have arrived at the server
  taken,      \* bytes recv() has returned
  buf,        \* those that were put into the buffer
  selector,   \* the string handed to resolve_selector
  pc          \* where the handler is, or how the reading ended

vars == <<message, closes, dos, client, arrived, taken, buf, selector, pc>>

Outcomes == {"request", "toolong", "hangup"}

TypeOK ==
  /\ message \in Messages
  /\ closes \in BOOLEAN
  /\ dos \in BOOLEAN
  /\ client \in {"open", "closed", "reset"}
  /\ arrived \in 0..Len(message)
  /\ taken \in 0..arrived
  /\ buf \in Seq(Bytes) /\ Len(buf) <= BufferSize
  /\ selector \in Seq(Bytes)
  /\ pc \in {"recv", "drain"} \cup Outcomes

Init ==
  /\ message \in Messages
  /\ closes \in BOOLEAN
  /\ dos \in BOOLEAN
  /\ client = "open"
  /\ arrived = 0
  /\ taken = 0
  /\ buf = <<>>
  /\ selector = <<>>
  /\ pc = "recv"

-----------------------------------------------------------------------------

HasLine(s) == \E i \in 1..Len(s) : s[i] = "LF"

FirstLF(s) == CHOOSE i \in 1..Len(s) :
                s[i] = "LF" /\ \A j \in 1..(i - 1) : s[j] # "LF"

\* mutant of LineOf: the string ends at the line feed
LineOf_AtLF(s) == IF HasLine(s) THEN SubSeq(s, 1, FirstLF(s) - 1) ELSE s

\* ut_get_line ends the string one byte before the first line feed, whatever
\* that byte is; when the line feed comes first it writes before the buffer
\* and the string stays as it is.
LineOf(s) ==
  IF HasLine(s) /\ FirstLF(s) > 1 THEN SubSeq(s, 1, FirstLF(s) - 2) ELSE s

\* The bytes one recv() returns when there is room for n.
Received(n) ==
  LET available == arrived - taken
      size == IF available < n THEN available ELSE n
  IN  SubSeq(message, taken + 1, taken + size)

\* mutant of Recv: the full buffer is noticed one byte late
Recv_FullTooLate ==
  LET chunk == Received(BufferSize + 1 - Len(buf)) IN
  /\ pc = "recv"
  /\ client # "reset"
  /\ chunk # <<>>
  /\ buf' = buf \o chunk
  /\ taken' = taken + Len(chunk)
  /\ IF Len(buf') > BufferSize THEN pc' = IF dos THEN "toolong" ELSE "drain"
     ELSE IF HasLine(buf') THEN pc' = "request"
     ELSE pc' = "recv"
  /\ selector' = IF pc' = "request" THEN LineOf(buf') ELSE selector
  /\ UNCHANGED <<message, closes, dos, client, arrived>>

\* mutant of DrainRecv: the line feed does not end the draining
DrainRecv_ToTheEnd ==
  LET chunk == Received(BufferSize) IN
  /\ pc = "drain"
  /\ client # "reset"
  /\ chunk # <<>>
  /\ taken' = taken + Len(chunk)
  /\ UNCHANGED <<message, closes, dos, client, arrived, buf, selector, pc>>

-----------------------------------------------------------------------------
(* The client and the network *)

Arrive ==
  /\ client = "open"
  /\ arrived < Len(message)
  /\ arrived' = arrived + 1
  /\ UNCHANGED <<message, closes, dos, client, taken, buf, selector, pc>>

ClientCloses ==
  /\ closes
  /\ client = "open"
  /\ arrived = Len(message)
  /\ client' = "closed"
  /\ UNCHANGED <<message, closes, dos, arrived, taken, buf, selector, pc>>

ClientResets ==
  /\ client # "reset"
  /\ client' = "reset"
  /\ UNCHANGED <<message, closes, dos, arrived, taken, buf, selector, pc>>

-----------------------------------------------------------------------------
(* socket_read_request *)

Recv ==
  LET chunk == Received(BufferSize - Len(buf)) IN
  /\ pc = "recv"
  /\ client # "reset"
  /\ chunk # <<>>
  /\ buf' = buf \o chunk
  /\ taken' = taken + Len(chunk)
  /\ IF Len(buf') = BufferSize THEN pc' = IF dos THEN "toolong" ELSE "drain"
     ELSE IF HasLine(buf') THEN pc' = "request"
     ELSE pc' = "recv"
  /\ selector' = IF pc' = "request" THEN LineOf(buf') ELSE selector
  /\ UNCHANGED <<message, closes, dos, client, arrived>>

\* recv() returns 0: what there is is the request, if there is anything.
RecvEnd ==
  /\ pc = "recv"
  /\ client = "closed"
  /\ taken = arrived
  /\ pc' = IF taken = 0 THEN "hangup" ELSE "request"
  /\ selector' = buf
  /\ UNCHANGED <<message, closes, dos, client, arrived, taken, buf>>

RecvFails ==
  /\ pc = "recv"
  /\ client = "reset"
  /\ pc' = "hangup"
  /\ UNCHANGED <<message, closes, dos, client, arrived, taken, buf, selector>>

\* socket_drain_tcp looks for a line feed in what it receives, not in what is
\* in the buffer already.
DrainRecv ==
  LET chunk == Received(BufferSize) IN
  /\ pc = "drain"
  /\ client # "reset"
  /\ chunk # <<>>
  /\ taken' = taken + Len(chunk)
  /\ pc' = IF HasLine(chunk) THEN "toolong" ELSE "drain"
  /\ UNCHANGED <<message, closes, dos, client, arrived, buf, selector>>

\* recv() returns 0 or fails
DrainEnd ==
  /\ pc = "drain"
  /\ client = "reset" \/ (client = "closed" /\ taken = arrived)
  /\ pc' = "toolong"
  /\ UNCHANGED <<message, closes, dos, client, arrived, taken, buf, selector>>

-----------------------------------------------------------------------------

HandlerStep == Recv \/ RecvEnd \/ RecvFails \/ DrainRecv \/ DrainEnd

Next == Arrive \/ ClientCloses \/ ClientResets \/ HandlerStep

Spec == Init /\ [][Next]_vars

\* The handler runs, and what the client sends arrives.
FairSpec == Spec /\ WF_vars(HandlerStep) /\ WF_vars(Arrive)

-----------------------------------------------------------------------------
(* Properties *)

\* The message is one line, as the protocol asks: CR LF at its end, no other
\* line feed.
OneLine ==
  /\ Len(message) >= 2
  /\ message[Len(message)] = "LF"
  /\ message[Len(message) - 1] = "CR"
  /\ \A i \in 1..(Len(message) - 1) : message[i] # "LF"

\* However the network cuts it, the selector of a one-line request is the
\* line without its end.
SelectorIsTheLine ==
  OneLine /\ pc = "request" => selector = SubSeq(message, 1, Len(message) - 2)

\* Whether a request is too long depends on its length, not on the pieces it
\* came in.
VerdictByLength ==
  OneLine =>
    /\ pc = "request" => Len(message) < BufferSize
    /\ pc \in {"drain", "toolong"} => Len(message) >= BufferSize

\* Without DOS_PROTECTION a client that sends one line gets an answer, unless
\* the line fills the buffer to the last byte: the handler comes to its answer,
\* and with every byte of the line read, so that the close which follows does
\* not reset the connection under the answer.
LinesAreAnswered ==
  ~dos /\ OneLine /\ Len(message) # BufferSize
    ~> \/ pc \in {"request", "toolong"} /\ taken = Len(message)
       \/ client = "reset"

==============================================================================
