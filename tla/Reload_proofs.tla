---------------------------- MODULE Reload_proofs ----------------------------
(***************************************************************************)
(* Proofs about Reload, for any set of configuration files, any command    *)
(* line, any number of handlers, edits and hangups.                        *)
(***************************************************************************)
EXTENDS Reload, TLAPS

(***************************************************************************)
(* The inductive invariant.                                                *)
(***************************************************************************)

\* The parser is inside the text, and has counted what it has passed.
Position ==
  /\ next \in 1..(Len(text) + 1)
  /\ \A k \in Keys : count[k] < next

\* As long as nothing was wrong, every key that was seen has its value.
Parsed ==
  main = "parse" /\ ~wrong => \A k \in Keys : count[k] > 0 => conf.of[k] = from

\* A file that was accepted is in force as a whole, up to the command line.
OneVersion(c) == \E v \in Versions : \A k \in Keys : c.of[k] = v

Whole ==
  /\ main = "options" => OneVersion(conf)
  /\ main \in {"install", "listen", "loop", "select", "interrupted"}
       => FromOneFile(conf)
  /\ \A h \in Handlers : snap[h].taken => FromOneFile(snap[h].conf)

\* The socket is the one of the configuration.
Port ==
  main \in {"loop", "select", "interrupted"} => listening = conf.of["port"]

\* Only handlers that have their copy send.
Copies ==
  /\ \A h \in Handlers : ~snap[h].taken => lines[h] = <<>>
  /\ LinesFromSnapshot

Inv == TypeOK /\ Position /\ Parsed /\ Whole /\ Port /\ Copies

-----------------------------------------------------------------------------
(* What the larger steps change. *)

LEMMA TextIsSeq ==
  ASSUME TypeOK
  PROVE  text \in Seq(Line) /\ Len(text) \in Nat /\ content \in Seq(Line)
<1>1. Files \subseteq Seq(Line)
  BY ReloadAssumption
<1>2. text \in Files \cup {<<>>} /\ content \in Files
  BY DEF TypeOK
<1>3. <<>> \in Seq(Line)
  OBVIOUS
<1>4. text \in Seq(Line)
  BY <1>1, <1>2, <1>3
<1> QED
  BY <1>1, <1>2, <1>4

\* A line with a value counts its key, and takes the value over or marks the
\* file as wrong.
LEMMA Parsing ==
  ASSUME TypeOK, ParseValue
  PROVE  \E k \in Keys :
           /\ main = "parse"
           /\ next \in 1..Len(text) /\ next' = next + 1
           /\ count' = [count EXCEPT ![k] = @ + 1]
           /\ UNCHANGED <<content, version, text, from, main, sighup, flag,
                          listening, snap, lines, hangups>>
           /\ \/ wrong' = TRUE /\ conf' = conf
              \/ /\ wrong' = wrong
                 /\ conf' \in Configs
                 /\ conf'.of = [conf.of EXCEPT ![k] = from]
<1> DEFINE k == text[next].key
           m == IF text[next].value \in Modes THEN text[next].value
                                              ELSE conf.concurrency
<1>1. k \in Keys /\ count' = [count EXCEPT ![k] = @ + 1]
  BY DEF ParseValue
<1>2. Len(text) \in Nat
  BY TextIsSeq
<1>3. next \in Nat \ {0}
  BY <1>2 DEF TypeOK
<1>4. /\ main = "parse"
      /\ next \in 1..Len(text) /\ next' = next + 1
  BY <1>2, <1>3 DEF ParseValue
<1>5. UNCHANGED <<content, version, text, from, main, sighup, flag, listening,
                  snap, lines, hangups>>
  BY DEF ParseValue, fileVars, handlerVars, signalVars
<1>6. conf \in Configs /\ from \in Versions /\ m \in Modes
  BY DEF TypeOK, Configs
<1>7. \/ wrong' = TRUE /\ conf' = conf
      \/ /\ wrong' = wrong
         /\ conf' = [of |-> [conf.of EXCEPT ![k] = from], concurrency |-> m]
  BY DEF ParseValue
<1> HIDE DEF k, m
<1>8. [of |-> [conf.of EXCEPT ![k] = from], concurrency |-> m] \in Configs
  BY <1>1, <1>6 DEF Configs
<1>9. \/ wrong' = TRUE /\ conf' = conf
      \/ /\ wrong' = wrong
         /\ conf' \in Configs
         /\ conf'.of = [conf.of EXCEPT ![k] = from]
  BY <1>7, <1>8
<1> QED
  BY <1>1, <1>4, <1>5, <1>9

\* The command line comes over what was read.
LEMMA Options ==
  ASSUME TypeOK, ReadOptions
  PROVE  /\ main = "options" /\ main' = "install"
         /\ conf' \in Configs
         /\ \A k \in Keys :
              conf'.of[k] = IF k \in CommandLine THEN 0 ELSE conf.of[k]
         /\ sighup' \in {"default", "ignored", "handled"}
         /\ UNCHANGED <<content, version, text, from, next, count, wrong,
                        flag, listening, snap, lines, hangups>>
<1>1. PICK m \in Modes :
        conf' = [of |-> [k \in Keys |-> IF k \in CommandLine THEN 0
                                                             ELSE conf.of[k]],
                 concurrency |-> m]
  BY DEF ReadOptions
<1>2. conf \in Configs /\ 0 \in Versions
  BY ReloadAssumption DEF TypeOK, Versions
<1>3. [k \in Keys |-> IF k \in CommandLine THEN 0 ELSE conf.of[k]]
        \in [Keys -> Versions]
  BY <1>2 DEF Configs
<1>4. conf' \in Configs
  BY <1>1, <1>3 DEF Configs
<1>5. /\ main = "options" /\ main' = "install"
      /\ sighup' \in {"default", "ignored", "handled"}
      /\ UNCHANGED <<content, version, text, from, next, count, wrong,
                     flag, listening, snap, lines, hangups>>
  BY DEF ReadOptions, Goes, SighupAfterOptions, fileVars, parseVars,
         handlerVars
<1> QED
  BY <1>1, <1>4, <1>5

-----------------------------------------------------------------------------
(* Each part of the invariant is preserved by every step. *)

\* Every variable keeps its type.
LEMMA TypeStep ==
  ASSUME TypeOK, Position, [Next]_vars
  PROVE  TypeOK'
<1> USE TextIsSeq
<1>1. CASE ReadFile
  <2>1. /\ text' \in Files /\ Len(text') \in Nat
        /\ text' = content /\ next' = 1 /\ count' = [k \in Keys |-> 0]
    BY <1>1 DEF ReadFile, TypeOK
  <2>2. /\ next' \in 1..(Len(text') + 1)
        /\ count' \in [Keys -> 0..Len(text')]
    BY <2>1
  <2>3. from' \in Versions
    BY <1>1 DEF ReadFile, TypeOK, Versions
  <2> QED
    BY <1>1, <2>1, <2>2, <2>3
       DEF ReadFile, Goes, TypeOK, fileVars, handlerVars, signalVars
<1>2. CASE ReadFileFails
  BY <1>2
     DEF ReadFileFails, Goes, TypeOK, fileVars, parseVars, handlerVars,
         signalVars
<1>3. CASE ParseValue
  <2>1. PICK k \in Keys :
          /\ main = "parse"
          /\ next \in 1..Len(text) /\ next' = next + 1
          /\ count' = [count EXCEPT ![k] = @ + 1]
          /\ UNCHANGED <<content, version, text, from, main, sighup, flag,
                         listening, snap, lines, hangups>>
          /\ \/ wrong' = TRUE /\ conf' = conf
             \/ wrong' = wrong /\ conf' \in Configs
    BY <1>3, Parsing
  <2>2. next' \in 1..(Len(text') + 1)
    BY <2>1
  <2>3. count' \in [Keys -> 0..Len(text')]
    BY <2>1 DEF TypeOK, Position
  <2> QED
    BY <2>1, <2>2, <2>3 DEF TypeOK
<1>4. CASE SkipBlank
  <2>1. next' \in 1..(Len(text') + 1)
    BY <1>4 DEF SkipBlank, TypeOK
  <2> QED
    BY <1>4, <2>1 DEF SkipBlank, TypeOK, fileVars, handlerVars, signalVars
<1>5. CASE ParseFails
  BY <1>5
     DEF ParseFails, Goes, TypeOK, fileVars, parseVars, handlerVars,
         signalVars
<1>6. CASE ParseEnd
  BY <1>6
     DEF ParseEnd, Goes, AfterFile, TypeOK, fileVars, parseVars,
         handlerVars, signalVars
<1>7. CASE ReadOptions
  BY <1>7, Options DEF TypeOK
<1>8. CASE ReadOptionsFails
  BY <1>8
     DEF ReadOptionsFails, Goes, TypeOK, fileVars, parseVars,
         handlerVars, signalVars
<1>9. CASE InstallHandler
  BY <1>9
     DEF InstallHandler, Goes, TypeOK, fileVars, parseVars, handlerVars,
         signalVars
<1>10. CASE Listen
  <2>1. conf.of["port"] \in Versions
    BY DEF TypeOK, Configs, Keys
  <2> QED
    BY <1>10, <2>1
       DEF Listen, Goes, TypeOK, fileVars, parseVars, handlerVars, signalVars
<1>11. CASE ListenFails
  BY <1>11
     DEF ListenFails, Goes, TypeOK, fileVars, parseVars, handlerVars,
         signalVars
<1>12. CASE EnterSelect
  BY <1>12
     DEF EnterSelect, Goes, TypeOK, fileVars, parseVars, handlerVars,
         signalVars
<1>13. CASE Interrupted
  BY <1>13
     DEF Interrupted, Goes, TypeOK, fileVars, parseVars, handlerVars,
         signalVars
<1>14. CASE ClearFlag
  BY <1>14
     DEF ClearFlag, Goes, TypeOK, fileVars, parseVars, handlerVars,
         signalVars
<1>15. CASE Edit
  <2>1. version' \in 1..MaxVersion /\ content' \in Files
    BY <1>15, ReloadAssumption DEF Edit, TypeOK
  <2> QED
    BY <1>15, <2>1 DEF Edit, TypeOK, parseVars, handlerVars, signalVars
<1>16. CASE Hangup
  <2>1. hangups' \in 0..MaxHangups
    BY <1>16, ReloadAssumption DEF Hangup, TypeOK
  <2> QED
    BY <1>16, <2>1 DEF Hangup, TypeOK, fileVars, parseVars, handlerVars
<1>17. ASSUME NEW h \in Handlers, Accept(h)  PROVE  TypeOK'
  BY <1>17
     DEF Accept, Goes, TypeOK, fileVars, parseVars, handlerVars,
         signalVars
<1>18. ASSUME NEW h \in Handlers, SendLine(h)  PROVE  TypeOK'
  <2> DEFINE line == [host |-> (IF snap[h].conf.concurrency = "Process"
                                  THEN snap[h].conf ELSE conf).of["ip"],
                      port |-> snap[h].conf.of["port"]]
             Sent == [host : Versions, port : Versions]
  <2>1. lines' = [lines EXCEPT ![h] = Append(@, line)]
    BY <1>18 DEF SendLine
  <2>2. line \in Sent
    BY DEF TypeOK, Configs, Keys
  <2>3. lines \in [Handlers -> Seq(Sent)]
    BY DEF TypeOK
  <2> HIDE DEF line, Sent
  <2>4. lines' \in [Handlers -> Seq(Sent)]
    BY <2>1, <2>2, <2>3
  <2> QED
    BY <1>18, <2>4
       DEF SendLine, Sent, TypeOK, fileVars, parseVars, signalVars
<1>19. CASE UNCHANGED vars
  BY <1>19
     DEF vars, TypeOK, fileVars, parseVars, handlerVars, signalVars
<1> QED
  BY <1>1, <1>2, <1>3, <1>4, <1>5, <1>6, <1>7, <1>8, <1>9, <1>10, <1>11,
     <1>12, <1>13, <1>14, <1>15, <1>16, <1>17, <1>18, <1>19
     DEF Next, MainStep

\* The position moves line by line, and no key is counted twice for a line.
LEMMA PositionStep ==
  ASSUME TypeOK, Position, [Next]_vars
  PROVE  Position'
<1> USE TextIsSeq
<1>1. CASE ReadFile
  BY <1>1
     DEF ReadFile, Goes, TypeOK, Position, fileVars, parseVars,
         handlerVars, signalVars
<1>2. CASE ReadFileFails
  BY <1>2
     DEF ReadFileFails, Goes, TypeOK, Position, fileVars, parseVars,
         handlerVars, signalVars
<1>3. CASE ParseValue
  <2>1. PICK k \in Keys :
          /\ next \in 1..Len(text) /\ next' = next + 1
          /\ count' = [count EXCEPT ![k] = @ + 1]
          /\ text' = text
    BY <1>3, Parsing
  <2>2. \A j \in Keys : count[j] \in Nat /\ count[j] < next
    BY DEF TypeOK, Position
  <2>3. ASSUME NEW j \in Keys
        PROVE  count'[j] < next'
    BY <2>1, <2>2 DEF TypeOK
  <2> QED
    BY <2>1, <2>3 DEF Position
<1>4. CASE SkipBlank
  <2>1. next' = next + 1 /\ next <= Len(text) /\ UNCHANGED <<text, count>>
    BY <1>4 DEF SkipBlank
  <2>2. \A j \in Keys : count[j] \in Nat /\ count[j] < next
    BY DEF TypeOK, Position
  <2> QED
    BY <2>1, <2>2 DEF Position
<1>5. CASE ParseFails
  BY <1>5
     DEF ParseFails, Goes, TypeOK, Position, fileVars, parseVars,
         handlerVars, signalVars
<1>6. CASE ParseEnd
  BY <1>6
     DEF ParseEnd, Goes, AfterFile, TypeOK, Position, fileVars,
         parseVars, handlerVars, signalVars
<1>7. CASE ReadOptions
  BY <1>7, Options DEF Position
<1>8. CASE ReadOptionsFails
  BY <1>8
     DEF ReadOptionsFails, Goes, TypeOK, Position, fileVars, parseVars,
         handlerVars, signalVars
<1>9. CASE InstallHandler
  BY <1>9
     DEF InstallHandler, Goes, TypeOK, Position, fileVars, parseVars,
         handlerVars, signalVars
<1>10. CASE Listen
  BY <1>10
     DEF Listen, Goes, TypeOK, Position, fileVars, parseVars,
         handlerVars, signalVars
<1>11. CASE ListenFails
  BY <1>11
     DEF ListenFails, Goes, TypeOK, Position, fileVars, parseVars,
         handlerVars, signalVars
<1>12. CASE EnterSelect
  BY <1>12
     DEF EnterSelect, Goes, TypeOK, Position, fileVars, parseVars,
         handlerVars, signalVars
<1>13. CASE Interrupted
  BY <1>13
     DEF Interrupted, Goes, TypeOK, Position, fileVars, parseVars,
         handlerVars, signalVars
<1>14. CASE ClearFlag
  BY <1>14
     DEF ClearFlag, Goes, TypeOK, Position, fileVars, parseVars,
         handlerVars, signalVars
<1>15. CASE Edit
  BY <1>15
     DEF Edit, TypeOK, Position, fileVars, parseVars, handlerVars,
         signalVars
<1>16. CASE Hangup
  BY <1>16
     DEF Hangup, TypeOK, Position, fileVars, parseVars, handlerVars,
         signalVars
<1>17. ASSUME NEW h \in Handlers, Accept(h)  PROVE  Position'
  BY <1>17
     DEF Accept, Goes, TypeOK, Position, fileVars, parseVars,
         handlerVars, signalVars
<1>18. ASSUME NEW h \in Handlers, SendLine(h)  PROVE  Position'
  BY <1>18
     DEF SendLine, TypeOK, Position, fileVars, parseVars, handlerVars,
         signalVars
<1>19. CASE UNCHANGED vars
  BY <1>19
     DEF vars, TypeOK, Position, fileVars, parseVars, handlerVars,
         signalVars
<1> QED
  BY <1>1, <1>2, <1>3, <1>4, <1>5, <1>6, <1>7, <1>8, <1>9, <1>10, <1>11,
     <1>12, <1>13, <1>14, <1>15, <1>16, <1>17, <1>18, <1>19
     DEF Next, MainStep

\* A value is taken over when its key is counted, or the file is wrong.
LEMMA ParsedStep ==
  ASSUME TypeOK, Parsed, [Next]_vars
  PROVE  Parsed'
<1>1. CASE ReadFile
  BY <1>1
     DEF ReadFile, Goes, TypeOK, Parsed, fileVars, parseVars,
         handlerVars, signalVars
<1>2. CASE ReadFileFails
  BY <1>2
     DEF ReadFileFails, Goes, TypeOK, Parsed, fileVars, parseVars,
         handlerVars, signalVars
<1>3. CASE ParseValue
  <2>1. PICK k \in Keys :
          /\ main = "parse" /\ main' = main /\ from' = from
          /\ count' = [count EXCEPT ![k] = @ + 1]
          /\ \/ wrong' = TRUE /\ conf' = conf
             \/ /\ wrong' = wrong
                /\ conf'.of = [conf.of EXCEPT ![k] = from]
    BY <1>3, Parsing
  <2>2. conf.of \in [Keys -> Versions] /\ count \in [Keys -> 0..Len(text)]
    BY DEF TypeOK, Configs
  <2>3. ASSUME ~wrong', NEW j \in Keys, count'[j] > 0
        PROVE  conf'.of[j] = from'
    <3>1. CASE j = k
      BY <2>1, <2>2, <2>3, <3>1
    <3>2. CASE j # k
      <4>1. count'[j] = count[j] /\ conf'.of[j] = conf.of[j]
        BY <2>1, <2>2, <2>3, <3>2
      <4> QED
        BY <2>1, <2>3, <4>1 DEF Parsed
    <3> QED
      BY <3>1, <3>2
  <2> QED
    BY <2>3 DEF Parsed
<1>4. CASE SkipBlank
  BY <1>4
     DEF SkipBlank, TypeOK, Parsed, fileVars, parseVars, handlerVars,
         signalVars
<1>5. CASE ParseFails
  BY <1>5
     DEF ParseFails, Goes, TypeOK, Parsed, fileVars, parseVars,
         handlerVars, signalVars
<1>6. CASE ParseEnd
  BY <1>6
     DEF ParseEnd, Goes, AfterFile, TypeOK, Parsed, fileVars, parseVars,
         handlerVars, signalVars
<1>7. CASE ReadOptions
  BY <1>7, Options DEF Parsed
<1>8. CASE ReadOptionsFails
  BY <1>8
     DEF ReadOptionsFails, Goes, TypeOK, Parsed, fileVars, parseVars,
         handlerVars, signalVars
<1>9. CASE InstallHandler
  BY <1>9
     DEF InstallHandler, Goes, TypeOK, Parsed, fileVars, parseVars,
         handlerVars, signalVars
<1>10. CASE Listen
  BY <1>10
     DEF Listen, Goes, TypeOK, Parsed, fileVars, parseVars, handlerVars,
         signalVars
<1>11. CASE ListenFails
  BY <1>11
     DEF ListenFails, Goes, TypeOK, Parsed, fileVars, parseVars,
         handlerVars, signalVars
<1>12. CASE EnterSelect
  BY <1>12
     DEF EnterSelect, Goes, TypeOK, Parsed, fileVars, parseVars,
         handlerVars, signalVars
<1>13. CASE Interrupted
  BY <1>13
     DEF Interrupted, Goes, TypeOK, Parsed, fileVars, parseVars,
         handlerVars, signalVars
<1>14. CASE ClearFlag
  BY <1>14
     DEF ClearFlag, Goes, TypeOK, Parsed, fileVars, parseVars,
         handlerVars, signalVars
<1>15. CASE Edit
  BY <1>15
     DEF Edit, TypeOK, Parsed, fileVars, parseVars, handlerVars,
         signalVars
<1>16. CASE Hangup
  BY <1>16
     DEF Hangup, TypeOK, Parsed, fileVars, parseVars, handlerVars,
         signalVars
<1>17. ASSUME NEW h \in Handlers, Accept(h)  PROVE  Parsed'
  BY <1>17
     DEF Accept, Goes, TypeOK, Parsed, fileVars, parseVars, handlerVars,
         signalVars
<1>18. ASSUME NEW h \in Handlers, SendLine(h)  PROVE  Parsed'
  BY <1>18
     DEF SendLine, TypeOK, Parsed, fileVars, parseVars, handlerVars,
         signalVars
<1>19. CASE UNCHANGED vars
  BY <1>19
     DEF vars, TypeOK, Parsed, fileVars, parseVars, handlerVars,
         signalVars
<1> QED
  BY <1>1, <1>2, <1>3, <1>4, <1>5, <1>6, <1>7, <1>8, <1>9, <1>10, <1>11,
     <1>12, <1>13, <1>14, <1>15, <1>16, <1>17, <1>18, <1>19
     DEF Next, MainStep

\* A configuration is served when all of a file has been taken over.
LEMMA WholeStep ==
  ASSUME TypeOK, Parsed, Whole, [Next]_vars
  PROVE  Whole'
<1>1. CASE ReadFile
  BY <1>1
     DEF ReadFile, Goes, TypeOK, Whole, FromOneFile, OneVersion,
         fileVars, parseVars, handlerVars, signalVars
<1>2. CASE ReadFileFails
  BY <1>2
     DEF ReadFileFails, Goes, TypeOK, Whole, FromOneFile, OneVersion,
         fileVars, parseVars, handlerVars, signalVars
<1>3. CASE ParseValue
  <2>1. main' = "parse" /\ snap' = snap
    BY <1>3, Parsing
  <2> QED
    BY <2>1 DEF Whole, FromOneFile
<1>4. CASE SkipBlank
  BY <1>4
     DEF SkipBlank, TypeOK, Whole, FromOneFile, OneVersion, fileVars,
         parseVars, handlerVars, signalVars
<1>5. CASE ParseFails
  BY <1>5
     DEF ParseFails, Goes, TypeOK, Whole, FromOneFile, OneVersion,
         fileVars, parseVars, handlerVars, signalVars
<1>6. CASE ParseEnd
  <2>1. CASE Accepted
    <3>1. \A k \in Keys : conf.of[k] = from
      BY <1>6, <2>1 DEF ParseEnd, Goes, Accepted, Parsed
    <3>2. from \in Versions
      BY DEF TypeOK
    <3>3. OneVersion(conf) /\ FromOneFile(conf)
      BY <3>1, <3>2 DEF OneVersion, FromOneFile
    <3> QED
      BY <1>6, <3>3
         DEF ParseEnd, Goes, AfterFile, Whole, FromOneFile, OneVersion,
             handlerVars
  <2>2. CASE ~Accepted
    BY <1>6, <2>2 DEF ParseEnd, Goes, Whole, FromOneFile, handlerVars
  <2> QED
    BY <2>1, <2>2
<1>7. CASE ReadOptions
  <2>1. PICK v \in Versions : \A k \in Keys : conf.of[k] = v
    BY <1>7, Options DEF Whole, OneVersion
  <2>2. \A k \in Keys : conf'.of[k] = v \/ (conf'.of[k] = 0 /\ k \in CommandLine)
    BY <1>7, <2>1, Options
  <2>3. FromOneFile(conf)'
    BY <2>2 DEF FromOneFile
  <2> QED
    BY <1>7, <2>3, Options DEF Whole, FromOneFile
<1>8. CASE ReadOptionsFails
  BY <1>8
     DEF ReadOptionsFails, Goes, TypeOK, Whole, FromOneFile, OneVersion,
         fileVars, parseVars, handlerVars, signalVars
<1>9. CASE InstallHandler
  BY <1>9
     DEF InstallHandler, Goes, TypeOK, Whole, FromOneFile, OneVersion,
         fileVars, parseVars, handlerVars, signalVars
<1>10. CASE Listen
  BY <1>10
     DEF Listen, Goes, TypeOK, Whole, FromOneFile, OneVersion, fileVars,
         parseVars, handlerVars, signalVars
<1>11. CASE ListenFails
  BY <1>11
     DEF ListenFails, Goes, TypeOK, Whole, FromOneFile, OneVersion,
         fileVars, parseVars, handlerVars, signalVars
<1>12. CASE EnterSelect
  BY <1>12
     DEF EnterSelect, Goes, TypeOK, Whole, FromOneFile, OneVersion,
         fileVars, parseVars, handlerVars, signalVars
<1>13. CASE Interrupted
  BY <1>13
     DEF Interrupted, Goes, TypeOK, Whole, FromOneFile, OneVersion,
         fileVars, parseVars, handlerVars, signalVars
<1>14. CASE ClearFlag
  BY <1>14
     DEF ClearFlag, Goes, TypeOK, Whole, FromOneFile, OneVersion,
         fileVars, parseVars, handlerVars, signalVars
<1>15. CASE Edit
  BY <1>15
     DEF Edit, TypeOK, Whole, FromOneFile, OneVersion, fileVars,
         parseVars, handlerVars, signalVars
<1>16. CASE Hangup
  BY <1>16
     DEF Hangup, TypeOK, Whole, FromOneFile, OneVersion, fileVars,
         parseVars, handlerVars, signalVars
<1>17. ASSUME NEW h \in Handlers, Accept(h)  PROVE  Whole'
  BY <1>17
     DEF Accept, Goes, TypeOK, Whole, FromOneFile, OneVersion, fileVars,
         parseVars, handlerVars, signalVars
<1>18. ASSUME NEW h \in Handlers, SendLine(h)  PROVE  Whole'
  BY <1>18
     DEF SendLine, TypeOK, Whole, FromOneFile, OneVersion, fileVars,
         parseVars, handlerVars, signalVars
<1>19. CASE UNCHANGED vars
  BY <1>19
     DEF vars, TypeOK, Whole, FromOneFile, OneVersion, fileVars,
         parseVars, handlerVars, signalVars
<1> QED
  BY <1>1, <1>2, <1>3, <1>4, <1>5, <1>6, <1>7, <1>8, <1>9, <1>10, <1>11,
     <1>12, <1>13, <1>14, <1>15, <1>16, <1>17, <1>18, <1>19
     DEF Next, MainStep

\* The port changes before the socket is opened, never after.
LEMMA PortStep ==
  ASSUME TypeOK, Port, [Next]_vars
  PROVE  Port'
<1>1. CASE ReadFile
  BY <1>1
     DEF ReadFile, Goes, TypeOK, Port, fileVars, parseVars, handlerVars,
         signalVars
<1>2. CASE ReadFileFails
  BY <1>2
     DEF ReadFileFails, Goes, TypeOK, Port, fileVars, parseVars,
         handlerVars, signalVars
<1>3. CASE ParseValue
  BY <1>3, Parsing DEF Port
<1>4. CASE SkipBlank
  BY <1>4
     DEF SkipBlank, TypeOK, Port, fileVars, parseVars, handlerVars,
         signalVars
<1>5. CASE ParseFails
  BY <1>5
     DEF ParseFails, Goes, TypeOK, Port, fileVars, parseVars,
         handlerVars, signalVars
<1>6. CASE ParseEnd
  BY <1>6
     DEF ParseEnd, Goes, AfterFile, TypeOK, Port, fileVars, parseVars,
         handlerVars, signalVars
<1>7. CASE ReadOptions
  BY <1>7, Options DEF Port
<1>8. CASE ReadOptionsFails
  BY <1>8
     DEF ReadOptionsFails, Goes, TypeOK, Port, fileVars, parseVars,
         handlerVars, signalVars
<1>9. CASE InstallHandler
  BY <1>9
     DEF InstallHandler, Goes, TypeOK, Port, fileVars, parseVars,
         handlerVars, signalVars
<1>10. CASE Listen
  BY <1>10
     DEF Listen, Goes, TypeOK, Port, fileVars, parseVars, handlerVars,
         signalVars
<1>11. CASE ListenFails
  BY <1>11
     DEF ListenFails, Goes, TypeOK, Port, fileVars, parseVars,
         handlerVars, signalVars
<1>12. CASE EnterSelect
  BY <1>12
     DEF EnterSelect, Goes, TypeOK, Port, fileVars, parseVars,
         handlerVars, signalVars
<1>13. CASE Interrupted
  BY <1>13
     DEF Interrupted, Goes, TypeOK, Port, fileVars, parseVars,
         handlerVars, signalVars
<1>14. CASE ClearFlag
  BY <1>14
     DEF ClearFlag, Goes, TypeOK, Port, fileVars, parseVars,
         handlerVars, signalVars
<1>15. CASE Edit
  BY <1>15
     DEF Edit, TypeOK, Port, fileVars, parseVars, handlerVars,
         signalVars
<1>16. CASE Hangup
  BY <1>16
     DEF Hangup, TypeOK, Port, fileVars, parseVars, handlerVars,
         signalVars
<1>17. ASSUME NEW h \in Handlers, Accept(h)  PROVE  Port'
  BY <1>17
     DEF Accept, Goes, TypeOK, Port, fileVars, parseVars, handlerVars,
         signalVars
<1>18. ASSUME NEW h \in Handlers, SendLine(h)  PROVE  Port'
  BY <1>18
     DEF SendLine, TypeOK, Port, fileVars, parseVars, handlerVars,
         signalVars
<1>19. CASE UNCHANGED vars
  BY <1>19
     DEF vars, TypeOK, Port, fileVars, parseVars, handlerVars,
         signalVars
<1> QED
  BY <1>1, <1>2, <1>3, <1>4, <1>5, <1>6, <1>7, <1>8, <1>9, <1>10, <1>11,
     <1>12, <1>13, <1>14, <1>15, <1>16, <1>17, <1>18, <1>19
     DEF Next, MainStep

\* A line is made of the copy, which nobody changes.
LEMMA CopiesStep ==
  ASSUME TypeOK, Copies, [Next]_vars
  PROVE  Copies'
<1>1. CASE ReadFile
  BY <1>1
     DEF ReadFile, Goes, TypeOK, Copies, LinesFromSnapshot, fileVars,
         parseVars, handlerVars, signalVars
<1>2. CASE ReadFileFails
  BY <1>2
     DEF ReadFileFails, Goes, TypeOK, Copies, LinesFromSnapshot,
         fileVars, parseVars, handlerVars, signalVars
<1>3. CASE ParseValue
  <2>1. UNCHANGED <<snap, lines>>
    BY <1>3, Parsing
  <2> QED
    BY <2>1 DEF Copies, LinesFromSnapshot
<1>4. CASE SkipBlank
  BY <1>4
     DEF SkipBlank, TypeOK, Copies, LinesFromSnapshot, fileVars,
         parseVars, handlerVars, signalVars
<1>5. CASE ParseFails
  BY <1>5
     DEF ParseFails, Goes, TypeOK, Copies, LinesFromSnapshot, fileVars,
         parseVars, handlerVars, signalVars
<1>6. CASE ParseEnd
  BY <1>6
     DEF ParseEnd, Goes, AfterFile, TypeOK, Copies, LinesFromSnapshot,
         fileVars, parseVars, handlerVars, signalVars
<1>7. CASE ReadOptions
  BY <1>7, Options DEF Copies, LinesFromSnapshot
<1>8. CASE ReadOptionsFails
  BY <1>8
     DEF ReadOptionsFails, Goes, TypeOK, Copies, LinesFromSnapshot,
         fileVars, parseVars, handlerVars, signalVars
<1>9. CASE InstallHandler
  BY <1>9
     DEF InstallHandler, Goes, TypeOK, Copies, LinesFromSnapshot,
         fileVars, parseVars, handlerVars, signalVars
<1>10. CASE Listen
  BY <1>10
     DEF Listen, Goes, TypeOK, Copies, LinesFromSnapshot, fileVars,
         parseVars, handlerVars, signalVars
<1>11. CASE ListenFails
  BY <1>11
     DEF ListenFails, Goes, TypeOK, Copies, LinesFromSnapshot, fileVars,
         parseVars, handlerVars, signalVars
<1>12. CASE EnterSelect
  BY <1>12
     DEF EnterSelect, Goes, TypeOK, Copies, LinesFromSnapshot, fileVars,
         parseVars, handlerVars, signalVars
<1>13. CASE Interrupted
  BY <1>13
     DEF Interrupted, Goes, TypeOK, Copies, LinesFromSnapshot, fileVars,
         parseVars, handlerVars, signalVars
<1>14. CASE ClearFlag
  BY <1>14
     DEF ClearFlag, Goes, TypeOK, Copies, LinesFromSnapshot, fileVars,
         parseVars, handlerVars, signalVars
<1>15. CASE Edit
  BY <1>15
     DEF Edit, TypeOK, Copies, LinesFromSnapshot, fileVars, parseVars,
         handlerVars, signalVars
<1>16. CASE Hangup
  BY <1>16
     DEF Hangup, TypeOK, Copies, LinesFromSnapshot, fileVars, parseVars,
         handlerVars, signalVars
<1>17. ASSUME NEW h \in Handlers, Accept(h)  PROVE  Copies'
  BY <1>17
     DEF Accept, Goes, TypeOK, Copies, LinesFromSnapshot, fileVars,
         parseVars, handlerVars, signalVars
<1>18. ASSUME NEW h \in Handlers, SendLine(h)  PROVE  Copies'
  BY <1>18
     DEF SendLine, TypeOK, Copies, LinesFromSnapshot, fileVars,
         parseVars, handlerVars, signalVars
<1>19. CASE UNCHANGED vars
  BY <1>19
     DEF vars, TypeOK, Copies, LinesFromSnapshot, fileVars, parseVars,
         handlerVars, signalVars
<1> QED
  BY <1>1, <1>2, <1>3, <1>4, <1>5, <1>6, <1>7, <1>8, <1>9, <1>10, <1>11,
     <1>12, <1>13, <1>14, <1>15, <1>16, <1>17, <1>18, <1>19
     DEF Next, MainStep

-----------------------------------------------------------------------------
(* Theorems *)

LEMMA InitInv == Init => Inv
<1> SUFFICES ASSUME Init PROVE Inv
  OBVIOUS
<1>1. 0 \in Versions /\ NoCopy \in Configs
  BY ReloadAssumption DEF Configs, NoCopy, Versions, Modes
<1>2. text = <<>> /\ Len(text) = 0
  BY DEF Init
<1>3. lines \in [Handlers -> Seq([host : Versions, port : Versions])]
  BY DEF Init
<1>4. TypeOK
  <2>1. next \in 1..(Len(text) + 1) /\ count \in [Keys -> 0..Len(text)]
    BY <1>2 DEF Init
  <2>2. version \in 1..MaxVersion /\ hangups \in 0..MaxHangups
    BY ReloadAssumption DEF Init
  <2>3. snap \in [Handlers -> [taken : BOOLEAN, conf : Configs]]
    BY <1>1 DEF Init
  <2>4. from \in Versions /\ conf \in Configs
    BY <1>1 DEF Init
  <2> QED
    BY <1>3, <2>1, <2>2, <2>3, <2>4 DEF Init, TypeOK
<1>5. Position
  <2>1. next = 1 /\ Len(text) + 1 = 1 /\ \A k \in Keys : count[k] = 0
    BY <1>2 DEF Init
  <2>2. next \in 1..(Len(text) + 1)
    BY <2>1
  <2> QED
    BY <2>1, <2>2 DEF Position
<1>6. Parsed /\ Whole /\ Port
  BY DEF Init, Parsed, Whole, Port
<1>7. \A h \in Handlers : ~snap[h].taken /\ lines[h] = <<>> /\ Len(lines[h]) = 0
  BY DEF Init
<1>8. Copies
  BY <1>7 DEF Copies, LinesFromSnapshot
<1> QED
  BY <1>4, <1>5, <1>6, <1>8 DEF Inv

\* The invariant that carries every result below.
THEOREM Invariance == Spec => []Inv
<1>1. Inv /\ [Next]_vars => Inv'
  BY TypeStep, PositionStep, ParsedStep, WholeStep, PortStep, CopiesStep
     DEF Inv
<1> QED
  BY InitInv, <1>1, PTL DEF Spec

\* Every variable keeps its type; the parser never leaves the text it read.
THEOREM TypeCorrect == Spec => []TypeOK
<1>1. Inv => TypeOK
  BY DEF Inv
<1> QED
  BY <1>1, Invariance, PTL

\* Whatever the file holds, however often it is edited and whenever SIGHUPs
\* come, no client is served with half of a file.
THEOREM OnlyWholeFiles == Spec => []WholeConfigurations
<1>1. Inv => WholeConfigurations
  BY DEF Inv, Whole, WholeConfigurations
<1> QED
  BY <1>1, Invariance, PTL

\* The server waits for clients on the port of the configuration in force.
THEOREM SocketFollowsFile == Spec => []ListensOnPort
<1>1. Inv => ListensOnPort
  BY DEF Inv, Port, ListensOnPort
<1> QED
  BY <1>1, Invariance, PTL

\* A reload does not reach into a listing in progress.
THEOREM ListingsKeepTheirCopy == Spec => []LinesFromSnapshot
<1>1. Inv => LinesFromSnapshot
  BY DEF Inv, Copies
<1> QED
  BY <1>1, Invariance, PTL

==============================================================================
