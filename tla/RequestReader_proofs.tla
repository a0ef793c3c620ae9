------------------------- MODULE RequestReader_proofs -------------------------
(***************************************************************************)
(* Proofs about RequestReader, for messages and buffers of any size and    *)
(* any way the network cuts the messages into pieces.                      *)
(***************************************************************************)
EXTENDS RequestReader, WellFoundedInduction, TLAPS

(***************************************************************************)
(* The inductive invariant.                                                *)
(***************************************************************************)

\* s is how the message begins.
Begins(s) ==
  /\ Len(s) <= Len(message)
  /\ \A i \in 1..Len(s) : s[i] = message[i]

\* As long as the request is read there is room in the buffer, and no line in
\* it.
Reading ==
  pc = "recv" =>
    /\ Len(buf) = taken
    /\ Len(buf) < BufferSize
    /\ Begins(buf)
    /\ \A i \in 1..Len(buf) : buf[i] # "LF"

\* A client closes its side when the message has been sent.
Closing == client = "closed" => arrived = Len(message)

Inv ==
  /\ TypeOK
  /\ Reading
  /\ Closing
  /\ SelectorIsTheLine
  /\ VerdictByLength

-----------------------------------------------------------------------------
(* Lines and pieces *)

LEMMA MessageIsSeq ==
  ASSUME TypeOK
  PROVE  /\ message \in Seq(Bytes)
         /\ Len(message) \in Nat
         /\ arrived \in 0..Len(message)
         /\ taken \in 0..arrived
  BY ReaderAssumption DEF TypeOK

\* What recv() returns is at most n of the bytes that have arrived, the next
\* ones.
LEMMA ReceivedBytes ==
  ASSUME TypeOK, NEW n \in Nat
  PROVE  /\ Received(n) \in Seq(Bytes)
         /\ Len(Received(n)) \in 0..n
         /\ taken + Len(Received(n)) <= arrived
         /\ \A i \in 1..Len(Received(n)) : Received(n)[i] = message[taken + i]
<1> DEFINE available == arrived - taken
           size == IF available < n THEN available ELSE n
<1>1. /\ message \in Seq(Bytes) /\ Len(message) \in Nat
      /\ arrived \in 0..Len(message) /\ taken \in 0..arrived
  BY MessageIsSeq
<1>2. size \in 0..n /\ taken + size <= arrived
  BY <1>1
<1>3. Received(n) = SubSeq(message, taken + 1, taken + size)
  BY DEF Received
<1> HIDE DEF size
<1>4. /\ SubSeq(message, taken + 1, taken + size) \in Seq(Bytes)
      /\ Len(SubSeq(message, taken + 1, taken + size)) = size
      /\ \A i \in 1..size :
           SubSeq(message, taken + 1, taken + size)[i] = message[taken + i]
  BY <1>1, <1>2
<1> QED
  BY <1>2, <1>3, <1>4

\* A string with a line feed has a first one.
LEMMA FirstLFExists ==
  ASSUME NEW s \in Seq(Bytes), HasLine(s)
  PROVE  FirstLF(s) \in 1..Len(s)
<1> DEFINE Below == {p \in Nat \X Nat : p[1] < p[2]}
           Feeds == {i \in 1..Len(s) : s[i] = "LF"}
<1>1. IsWellFoundedOn(Below, Nat)
  BY NatLessThanWellFounded DEF OpToRel
<1>2. Feeds \subseteq Nat /\ Feeds # {} /\ Len(s) \in Nat
  BY DEF HasLine
<1> HIDE DEF Below
<1>3. PICK i \in Feeds : \A j \in Feeds : ~(<<j, i>> \in Below)
  BY <1>1, <1>2, WFMin
<1>4. ASSUME NEW j \in 1..(i - 1)
      PROVE  s[j] # "LF"
  <2>1. j \in 1..Len(s) /\ j < i /\ i \in Nat /\ j \in Nat
    BY <1>2, <1>3
  <2>2. <<j, i>> \in Below
    BY <2>1 DEF Below
  <2> QED
    BY <1>3, <2>1, <2>2
<1>5. \E k \in 1..Len(s) : s[k] = "LF" /\ \A j \in 1..(k - 1) : s[j] # "LF"
  BY <1>3, <1>4
<1> QED
  BY <1>5 DEF FirstLF

\* A buffer that begins a one-line message and holds a line feed holds the
\* whole message, and its string is the line.
LEMMA LineOfMessage ==
  ASSUME TypeOK, OneLine, NEW s \in Seq(Bytes), Begins(s), HasLine(s)
  PROVE  /\ Len(s) = Len(message)
         /\ LineOf(s) = SubSeq(message, 1, Len(message) - 2)
<1> DEFINE n == Len(message)
<1>1. message \in Seq(Bytes) /\ n \in Nat /\ n >= 2 /\ Len(s) \in Nat
  BY MessageIsSeq DEF OneLine
<1>2. PICK k \in 1..Len(s) : s[k] = "LF"
  BY DEF HasLine
<1>3. k = n /\ Len(s) = n
  BY <1>1, <1>2 DEF Begins, OneLine
<1>4. /\ n \in 1..Len(s)
      /\ s[n] = "LF"
      /\ \A j \in 1..(n - 1) : s[j] # "LF"
  BY <1>1, <1>2, <1>3 DEF Begins, OneLine
<1>5. FirstLF(s) = n
  <2>1. \A i \in 1..Len(s) :
          (s[i] = "LF" /\ \A j \in 1..(i - 1) : s[j] # "LF") <=> i = n
    BY <1>1, <1>3, <1>4
  <2> QED
    BY <1>4, <2>1 DEF FirstLF
<1>6. LineOf(s) = SubSeq(s, 1, n - 2)
  BY <1>1, <1>5, HasLine(s) DEF LineOf
<1>7. SubSeq(s, 1, n - 2) = SubSeq(message, 1, n - 2)
  BY <1>1, <1>3 DEF Begins
<1> QED
  BY <1>3, <1>6, <1>7

-----------------------------------------------------------------------------
(* The steps *)

\* One recv() into the buffer: it still begins the message, and is full, holds
\* a line, or is read on.
LEMMA RecvStep ==
  ASSUME Inv, Recv
  PROVE  Inv'
<1> DEFINE chunk == Received(BufferSize - Len(buf))
<1>1. /\ message \in Seq(Bytes) /\ Len(message) \in Nat
      /\ arrived \in 0..Len(message) /\ taken \in 0..arrived
  BY MessageIsSeq DEF Inv
<1>2. /\ buf \in Seq(Bytes) /\ Len(buf) \in Nat /\ BufferSize \in Nat
      /\ Len(buf) = taken /\ Len(buf) < BufferSize
      /\ Begins(buf)
      /\ \A i \in 1..Len(buf) : buf[i] # "LF"
  BY ReaderAssumption DEF Inv, TypeOK, Reading, Recv
<1>3. BufferSize - Len(buf) \in Nat
  BY <1>2
<1>4. /\ chunk \in Seq(Bytes)
      /\ Len(chunk) \in 0..(BufferSize - Len(buf))
      /\ taken + Len(chunk) <= arrived
      /\ \A i \in 1..Len(chunk) : chunk[i] = message[taken + i]
  BY <1>3, ReceivedBytes DEF Inv
<1>5. /\ buf' = buf \o chunk
      /\ taken' = taken + Len(chunk)
      /\ UNCHANGED <<message, closes, dos, client, arrived>>
      /\ \/ /\ Len(buf') = BufferSize
            /\ pc' = IF dos THEN "toolong" ELSE "drain"
         \/ Len(buf') # BufferSize /\ HasLine(buf') /\ pc' = "request"
         \/ Len(buf') # BufferSize /\ ~HasLine(buf') /\ pc' = "recv"
      /\ selector' = IF pc' = "request" THEN LineOf(buf') ELSE selector
  BY DEF Recv
<1> HIDE DEF chunk
<1>6. /\ buf' \in Seq(Bytes)
      /\ Len(buf') = Len(buf) + Len(chunk)
      /\ \A i \in 1..(Len(buf) + Len(chunk)) :
           buf'[i] = IF i <= Len(buf) THEN buf[i] ELSE chunk[i - Len(buf)]
  <2>1. buf \in Seq(Bytes) /\ chunk \in Seq(Bytes)
    BY <1>2, <1>4
  <2> QED
    BY <1>5, <2>1
<1>7. /\ Len(buf') \in Nat
      /\ Len(buf') = taken'
      /\ Len(buf') <= BufferSize
      /\ Len(buf') <= Len(message)
      /\ taken' \in 0..arrived
  BY <1>1, <1>2, <1>4, <1>5, <1>6
<1>a. \A i \in 1..Len(buf') : buf'[i] = message[i]
  <2>1. ASSUME NEW i \in 1..Len(buf')
        PROVE  buf'[i] = message[i]
    <3>1. CASE i <= Len(buf)
      BY <1>2, <1>4, <1>6, <3>1 DEF Begins
    <3>2. CASE i > Len(buf)
      <4>1. i - Len(buf) \in 1..Len(chunk) /\ taken + (i - Len(buf)) = i
        BY <1>2, <1>4, <1>6, <3>2
      <4>2. buf'[i] = chunk[i - Len(buf)]
        BY <1>2, <1>4, <1>6, <3>2
      <4> QED
        BY <1>4, <4>1, <4>2
    <3> QED
      BY <1>2, <1>7, <3>1, <3>2
  <2> QED
    BY <2>1
<1>8. LineOf(buf') \in Seq(Bytes)
  <2>1. CASE HasLine(buf') /\ FirstLF(buf') > 1
    <3>1. FirstLF(buf') \in 1..Len(buf') /\ Len(buf') \in Nat
      BY <1>6, <2>1, FirstLFExists
    <3>2. SubSeq(buf', 1, FirstLF(buf') - 2) \in Seq(Bytes)
      BY <1>6, <3>1
    <3> QED
      BY <2>1, <3>2 DEF LineOf
  <2>2. CASE ~(HasLine(buf') /\ FirstLF(buf') > 1)
    BY <1>6, <2>2 DEF LineOf
  <2> QED
    BY <2>1, <2>2
<1>9. TypeOK'
  BY <1>1, <1>5, <1>6, <1>7, <1>8 DEF Inv, TypeOK, Outcomes
<1>10. Reading'
  <2>1. SUFFICES ASSUME pc' = "recv"
                 PROVE  Len(buf') # BufferSize /\ ~HasLine(buf')
    <3>1. Len(buf') # BufferSize => Len(buf') < BufferSize
      BY <1>2, <1>7
    <3>2. Begins(buf)'
      BY <1>5, <1>7, <1>a DEF Begins
    <3> QED
      BY <1>7, <2>1, <3>1, <3>2 DEF Reading, HasLine
  <2> QED
    BY <1>5, <2>1
<1>11. Closing'
  BY <1>5 DEF Inv, Closing
<1>12. ASSUME OneLine', pc' = "request"
       PROVE  /\ selector' = SubSeq(message', 1, Len(message') - 2)
              /\ Len(message') < BufferSize
  <2>1. HasLine(buf') /\ Len(buf') # BufferSize
    BY <1>5, <1>12
  <2>2. OneLine
    BY <1>5, <1>12 DEF OneLine
  <2>3. \A s : s = buf' => Begins(s)
    BY <1>7, <1>a DEF Begins
  <2>4. /\ Len(buf') = Len(message)
        /\ LineOf(buf') = SubSeq(message, 1, Len(message) - 2)
    BY <1>6, <2>1, <2>2, <2>3, LineOfMessage DEF Inv
  <2> QED
    BY <1>1, <1>2, <1>5, <1>7, <1>12, <2>1, <2>4
<1>13. pc' \in {"drain", "toolong"} => Len(message') >= BufferSize
  BY <1>1, <1>2, <1>5, <1>7
<1> QED
  BY <1>9, <1>10, <1>11, <1>12, <1>13
     DEF Inv, SelectorIsTheLine, VerdictByLength

\* The end of the stream is no request if the message was one line: the line
\* would have been found.
LEMMA RecvEndStep ==
  ASSUME Inv, RecvEnd
  PROVE  Inv'
<1>1. /\ message \in Seq(Bytes) /\ Len(message) \in Nat
      /\ arrived = Len(message) /\ taken = arrived
  BY MessageIsSeq DEF Inv, Closing, RecvEnd
<1>2. Len(buf) = taken /\ Begins(buf) /\ \A i \in 1..Len(buf) : buf[i] # "LF"
  BY DEF Inv, Reading, RecvEnd
<1>3. ~OneLine
  BY <1>1, <1>2 DEF OneLine, Begins
<1>4. UNCHANGED message
  BY DEF RecvEnd
<1>5. ~OneLine'
  BY <1>3, <1>4 DEF OneLine
<1> QED
  BY <1>5
     DEF RecvEnd, Inv, TypeOK, Outcomes, Reading, Closing,
         SelectorIsTheLine, VerdictByLength

\* Draining moves on in the message and changes nothing else.
LEMMA DrainStep ==
  ASSUME Inv, DrainRecv
  PROVE  Inv'
<1> DEFINE chunk == Received(BufferSize)
<1>1. taken' = taken + Len(chunk) /\ Len(chunk) \in Nat
      /\ taken + Len(chunk) <= arrived
  BY ReaderAssumption, ReceivedBytes DEF Inv, DrainRecv
<1>2. taken' \in 0..arrived
  BY <1>1, MessageIsSeq DEF Inv
<1>3. pc = "drain" /\ pc' \in {"drain", "toolong"}
      /\ UNCHANGED <<message, closes, dos, client, arrived, buf, selector>>
  BY DEF DrainRecv
<1> QED
  BY <1>2, <1>3
     DEF Inv, TypeOK, Outcomes, Reading, Closing, SelectorIsTheLine,
         VerdictByLength, OneLine

LEMMA InvStep ==
  ASSUME Inv, [Next]_vars
  PROVE  Inv'
<1> USE DEF Inv, TypeOK, Outcomes, Reading, Begins, Closing,
            SelectorIsTheLine, VerdictByLength, OneLine
<1>1. CASE Arrive
  BY <1>1, MessageIsSeq DEF Arrive
<1>2. CASE ClientCloses
  BY <1>2 DEF ClientCloses
<1>3. CASE ClientResets
  BY <1>3 DEF ClientResets
<1>4. CASE Recv
  BY <1>4, RecvStep
<1>5. CASE RecvEnd
  BY <1>5, RecvEndStep
<1>6. CASE RecvFails
  BY <1>6 DEF RecvFails
<1>7. CASE DrainRecv
  BY <1>7, DrainStep
<1>8. CASE DrainEnd
  BY <1>8 DEF DrainEnd
<1>9. CASE UNCHANGED vars
  BY <1>9 DEF vars
<1> QED
  BY <1>1, <1>2, <1>3, <1>4, <1>5, <1>6, <1>7, <1>8, <1>9
     DEF Next, HandlerStep

-----------------------------------------------------------------------------
(* Theorems *)

LEMMA InitInv == Init => Inv
<1> SUFFICES ASSUME Init PROVE Inv
  OBVIOUS
<1>1. message \in Seq(Bytes) /\ Len(message) \in Nat
  BY ReaderAssumption DEF Init
<1>2. Len(buf) = 0
  BY DEF Init
<1> QED
  BY <1>1, <1>2, ReaderAssumption
     DEF Init, Inv, TypeOK, Reading, Begins, Closing, SelectorIsTheLine,
         VerdictByLength, Outcomes

\* The invariant that carries every result below.
THEOREM Invariance == Spec => []Inv
  BY InitInv, InvStep, PTL DEF Spec

\* The buffer never holds more than it has room for, and no byte is taken
\* before it has arrived.
THEOREM TypeCorrect == Spec => []TypeOK
<1>1. Inv => TypeOK
  BY DEF Inv
<1> QED
  BY <1>1, Invariance, PTL

\* However the network cuts a line of any length, it is what the selector is
\* resolved from.
THEOREM LineIsSelector == Spec => []SelectorIsTheLine
<1>1. Inv => SelectorIsTheLine
  BY DEF Inv
<1> QED
  BY <1>1, Invariance, PTL

\* A line is a request if it is shorter than the buffer, whatever pieces it
\* comes in.
THEOREM LengthDecides == Spec => []VerdictByLength
<1>1. Inv => VerdictByLength
  BY DEF Inv
<1> QED
  BY <1>1, Invariance, PTL

==============================================================================
