---------------------------- MODULE RouterProofs ----------------------------
(***************************************************************************)
(* Theorems about Router, for any set of calls, any timeout and any        *)
(* behaviour of the robot: type correctness, no accepted callback is       *)
(* lost, commands are printed in the order of acceptance, and the router   *)
(* implements the safety part of Exchange.                                 *)
(***************************************************************************)
EXTENDS Router, SequenceTheorems, TLAPS

USE TimeoutAssumption, BoundsAssumption

\* Every state of the router has its type (router.h:33-45).
THEOREM TypeCorrect == Safety => []TypeOK
<1>1. Init => TypeOK
  <2>1. Init => RegistersOK
    BY DEF Init, RegistersOK
  <2>2. Init => OthersOK
    BY DEF Init, OthersOK, Results
  <2>. QED
    BY <2>1, <2>2 DEF TypeOK
<1>2. TypeOK /\ [Next]_vars => RegistersOK'
  <2> SUFFICES ASSUME RegistersOK, uart \in Seq(Lines \union {"part"}), [Next]_vars
               PROVE  RegistersOK'
    BY DEF TypeOK, OthersOK
  <2> USE DEF RegistersOK
  <2>1. ASSUME NEW c \in Calls, Send(c) PROVE RegistersOK'
    BY <2>1 DEF Send, Register, Commands
  <2>2. ASSUME NEW c \in Calls, SendWithoutResponse(c) PROVE RegistersOK'
    BY <2>2 DEF SendWithoutResponse, Register, Commands, Busy
  <2>3. CASE LoopSendAll
    BY <2>3 DEF LoopSendAll
  <2>4. CASE LoopReceiveLine
    <3>1. CASE Head(uart) = "AT" /\ ~sendCommand
      BY <2>4, <3>1 DEF LoopReceiveLine, Register, Commands
    <3>2. CASE ~(Head(uart) = "AT" /\ ~sendCommand)
      BY <2>4, <3>2 DEF LoopReceiveLine
    <3>. QED
      BY <3>1, <3>2
  <2>5. CASE LoopTimeout
    BY <2>5 DEF LoopTimeout
  <2>6. CASE UNCHANGED request
    BY <2>6 DEF request
  <2>. QED
    BY <2>1, <2>2, <2>3, <2>4, <2>5, <2>6
       DEF Next, Loop, Robot, ClientsDone, LoopSendNothing, LoopSendPart,
           LoopReceiveNothing, LoopReceivePart, Tick, RobotAnswers,
           RobotStaysSilent, RobotSendsAT, StrayCharacter, vars, request
<1>3. TypeOK /\ [Next]_vars => OthersOK'
  <2> SUFFICES ASSUME RegistersOK, OthersOK, [Next]_vars
               PROVE  OthersOK'
    BY DEF TypeOK
  <2> USE DEF OthersOK
  <2>1. ASSUME NEW c \in Calls, Send(c) PROVE OthersOK'
    BY <2>1 DEF Send, Register, Commands, Results, outside
  <2>2. ASSUME NEW c \in Calls, SendWithoutResponse(c) PROVE OthersOK'
    BY <2>2 DEF SendWithoutResponse, Register, Commands, Results, outside, time
  <2>3. CASE ClientsDone \/ LoopSendNothing \/ LoopReceiveNothing
    BY <2>3 DEF ClientsDone, LoopSendNothing, LoopReceiveNothing, request, time,
                outside
  <2>4. CASE LoopSendPart
    BY <2>4 DEF LoopSendPart, request, time
  <2>5. CASE LoopSendAll
    <3>1. lastCommand \in Commands
      BY <2>5 DEF LoopSendAll, RegistersOK
    <3>2. wire' \in Seq(Commands) /\ robot' \in Seq(Calls)
      BY <2>5, <3>1 DEF LoopSendAll, Commands
    <3>3. /\ sinceTx' = 0 /\ pc' = "receive"
          /\ UNCHANGED <<accepted, sinceRx, waited, result, uart, spent>>
      BY <2>5 DEF LoopSendAll
    <3>. QED
      BY <3>2, <3>3
  <2>6. CASE LoopReceivePart
    BY <2>6 DEF LoopReceivePart, request
  <2>7. CASE LoopReceiveLine
    <3>1. uart' = Tail(uart) /\ uart # <<>> /\ Head(uart) \in Lines
      BY <2>7 DEF LoopReceiveLine
    <3>2. uart' \in Seq(Lines \union {"part"})
      BY <3>1
    <3>3. result' \in [Calls -> Results]
      BY <2>7 DEF LoopReceiveLine, Results
    <3>4. accepted' \in Seq(Commands)
      <4>1. accepted' = accepted \/ accepted' = Append(accepted, "OK")
        BY <2>7 DEF LoopReceiveLine, Register
      <4>2. accepted \in Seq(Commands) /\ "OK" \in Commands
        BY DEF Commands
      <4>3. Append(accepted, "OK") \in Seq(Commands)
        BY <4>2
      <4>. QED
        BY <4>1, <4>2, <4>3
    <3>5. /\ sinceRx' = 0 /\ pc' = "timeout"
          /\ UNCHANGED <<sinceTx, waited, wire, robot, spent>>
      BY <2>7 DEF LoopReceiveLine
    <3>. QED
      BY <3>2, <3>3, <3>4, <3>5
  <2>8. CASE LoopTimeout
    BY <2>8 DEF LoopTimeout, Results, time, outside
  <2>9. CASE Tick
    BY <2>9 DEF Tick, Later, request, outside
  <2>10. CASE RobotAnswers
    BY <2>10 DEF RobotAnswers, Lines, request, time
  <2>11. CASE RobotStaysSilent
    BY <2>11 DEF RobotStaysSilent, request, time
  <2>12. CASE RobotSendsAT
    BY <2>12 DEF RobotSendsAT, Lines, request, time
  <2>13. CASE StrayCharacter
    BY <2>13 DEF StrayCharacter, request, time
  <2>14. CASE UNCHANGED vars
    BY <2>14 DEF vars
  <2>. QED
    BY <2>1, <2>2, <2>3, <2>4, <2>5, <2>6, <2>7, <2>8, <2>9, <2>10, <2>11,
       <2>12, <2>13, <2>14 DEF Next, Loop, Robot
<1>. QED
  BY <1>1, <1>2, <1>3, PTL DEF Safety, TypeOK

-----------------------------------------------------------------------------
LEMMA LineIsNoStatus == \A l \in Lines : l \notin {"new", "open", "fired", "timeout"}
  BY CallsAssumption DEF Lines

\* No accepted callback is lost or replaced: at any time the open call, if
\* there is one, is the registered one (router.cpp:32-58, 99-113).
THEOREM CallbackNeverLost == Safety => []CallbackKept
<1>1. Init => CallbackKept
  BY DEF Init, CallbackKept
<1>2. TypeOK /\ CallbackKept /\ [Next]_vars => CallbackKept'
  <2> SUFFICES ASSUME RegistersOK, result \in [Calls -> Results], CallbackKept,
                      [Next]_vars
               PROVE  CallbackKept'
    BY DEF TypeOK, OthersOK
  <2> USE DEF CallbackKept, RegistersOK
  <2>1. ASSUME NEW c \in Calls, Send(c) PROVE CallbackKept'
    BY <2>1 DEF Send, Register, Busy
  <2>2. ASSUME NEW c \in Calls, SendWithoutResponse(c) PROVE CallbackKept'
    BY <2>2 DEF SendWithoutResponse, Register, Busy
  <2>3. CASE LoopReceiveLine
    BY <2>3, LineIsNoStatus DEF LoopReceiveLine
  <2>4. CASE LoopTimeout
    BY <2>4 DEF LoopTimeout, IsRxTimeout
  <2>5. CASE UNCHANGED <<expectResponse, cb, result>>
    BY <2>5
  <2>. QED
    BY <2>1, <2>2, <2>3, <2>4, <2>5
       DEF Next, Loop, Robot, ClientsDone, LoopSendNothing, LoopSendPart,
           LoopSendAll, LoopReceiveNothing, LoopReceivePart, Tick, RobotAnswers,
           RobotStaysSilent, RobotSendsAT, StrayCharacter, vars, request
<1>. QED
  BY <1>1, <1>2, TypeCorrect, PTL DEF Safety

\* Commands are printed whole, once and in the order of acceptance
\* (router.cpp:60-74).
THEOREM CommandsPrintedInOrder == Safety => []PrintedInOrder
<1>1. Init => PrintedInOrder
  BY DEF Init, PrintedInOrder
<1>2. PrintedInOrder /\ [Next]_vars => PrintedInOrder'
  <2> SUFFICES ASSUME PrintedInOrder, [Next]_vars PROVE PrintedInOrder'
    OBVIOUS
  <2> USE DEF PrintedInOrder
  <2>1. ASSUME NEW c \in Calls, Send(c) PROVE PrintedInOrder'
    BY <2>1 DEF Send, Register, Busy
  <2>2. ASSUME NEW c \in Calls, SendWithoutResponse(c) PROVE PrintedInOrder'
    BY <2>2 DEF SendWithoutResponse, Register, Busy
  <2>3. CASE LoopSendAll
    BY <2>3 DEF LoopSendAll
  <2>4. CASE LoopReceiveLine
    BY <2>4 DEF LoopReceiveLine, Register
  <2>5. CASE UNCHANGED <<sendCommand, lastCommand, accepted, wire>>
    BY <2>5
  <2>. QED
    BY <2>1, <2>2, <2>3, <2>4, <2>5
       DEF Next, Loop, Robot, ClientsDone, LoopSendNothing, LoopSendPart,
           LoopReceiveNothing, LoopReceivePart, LoopTimeout, Tick, RobotAnswers,
           RobotStaysSilent, RobotSendsAT, StrayCharacter, vars, request
<1>. QED
  BY <1>1, <1>2, PTL DEF Safety

-----------------------------------------------------------------------------
LEMMA WaitInvariant == Safety => []PrintedBeforeTheWait
<1> USE DEF PrintedBeforeTheWait
<1>1. Init => PrintedBeforeTheWait
  BY DEF Init
<1>2. TypeOK /\ PrintedBeforeTheWait /\ [Next]_vars => PrintedBeforeTheWait'
  <2> SUFFICES ASSUME PrintedBeforeTheWait, [Next]_vars,
                      sinceTx \in Nat, waited \in Nat,
                      spent \in [{"at", "parts", "partial"} -> Nat]
               PROVE  PrintedBeforeTheWait'
    BY DEF TypeOK, OthersOK
  <2>1. ASSUME NEW c \in Calls, Send(c) PROVE PrintedBeforeTheWait'
    BY <2>1 DEF Send, Register
  <2>2. ASSUME NEW c \in Calls, SendWithoutResponse(c) PROVE PrintedBeforeTheWait'
    BY <2>2 DEF SendWithoutResponse, Busy
  <2>3. CASE ClientsDone \/ LoopSendNothing
    <3>1. /\ UNCHANGED <<sendCommand, expectResponse, sinceTx, waited, spent>>
          /\ pc' = "send" \/ ~sendCommand
      BY <2>3 DEF ClientsDone, LoopSendNothing, request, time, outside
    <3>. QED
      BY <3>1
  <2>4. CASE LoopSendPart
    <3>1. spent'["partial"] = spent["partial"] + 1 /\ spent["partial"] \in Nat
      BY <2>4 DEF LoopSendPart
    <3>. QED
      BY <3>1
  <2>5. CASE LoopSendAll
    BY <2>5 DEF LoopSendAll
  <2>6. CASE LoopReceiveNothing \/ LoopReceivePart
    <3>1. /\ UNCHANGED <<sendCommand, expectResponse, sinceTx, waited, spent>>
          /\ pc = "receive"
      BY <2>6 DEF LoopReceiveNothing, LoopReceivePart, request, time, outside
    <3>. QED
      BY <3>1
  <2>7. CASE LoopReceiveLine
    <3>1. expectResponse' = FALSE
      BY <2>7 DEF LoopReceiveLine
    <3>. QED
      BY <3>1
  <2>8. CASE LoopTimeout
    <3>1. /\ expectResponse' => expectResponse
          /\ UNCHANGED <<sendCommand, sinceTx, waited, spent>>
          /\ pc = "timeout"
      BY <2>8 DEF LoopTimeout, time, outside
    <3>. QED
      BY <3>1
  <2>9. CASE Tick
    BY <2>9 DEF Tick, Later, request, outside
  <2>10. CASE RobotAnswers \/ RobotStaysSilent
    <3>1. UNCHANGED <<sendCommand, expectResponse, sinceTx, waited, spent, pc>>
      BY <2>10 DEF RobotAnswers, RobotStaysSilent, request, time
    <3>. QED
      BY <3>1
  <2>11. CASE RobotSendsAT \/ StrayCharacter
    <3>1. /\ spent'["partial"] = spent["partial"]
          /\ UNCHANGED <<sendCommand, expectResponse, sinceTx, waited, pc>>
      BY <2>11 DEF RobotSendsAT, StrayCharacter, request, time
    <3>. QED
      BY <3>1
  <2>12. CASE UNCHANGED vars
    BY <2>12 DEF vars
  <2>. QED
    BY <2>1, <2>2, <2>3, <2>4, <2>5, <2>6, <2>7, <2>8, <2>9, <2>10, <2>11, <2>12
       DEF Next, Loop, Robot
<1>. QED
  BY <1>1, <1>2, TypeCorrect, PTL DEF Safety

\* Nobody is told TIMEOUT before the robot had the whole time to answer, if
\* print() takes whole commands (router.cpp:120-138).
THEOREM TimeoutNeverEarly == Safety => TimeoutGrantsTheTime
<1> DEFINE Granted ==
      \A c \in Calls :
        result[c] = "open" /\ result'[c] = "timeout"
          => waited >= expectDownResponseTimeout \/ spent["partial"] > 0
<1>1. TypeOK /\ PrintedBeforeTheWait /\ [Next]_vars => [Granted]_vars
  <2> SUFFICES ASSUME RegistersOK, OthersOK, PrintedBeforeTheWait, Next,
                      NEW c \in Calls, result[c] = "open", result'[c] = "timeout"
               PROVE  waited >= expectDownResponseTimeout \/ spent["partial"] > 0
    BY DEF TypeOK
  <2>1. LoopTimeout /\ IsRxTimeout
    <3>1. ASSUME NEW d \in Calls, Send(d) \/ SendWithoutResponse(d) PROVE FALSE
      BY <3>1 DEF Send, SendWithoutResponse, OthersOK
    <3>2. CASE LoopReceiveLine
      BY <3>2, LineIsNoStatus DEF LoopReceiveLine, OthersOK
    <3>3. CASE LoopTimeout
      BY <3>3 DEF LoopTimeout
    <3>4. result' # result
      OBVIOUS
    <3>. QED
      BY <3>1, <3>2, <3>3, <3>4
         DEF Next, Loop, Robot, ClientsDone, LoopSendNothing, LoopSendPart,
             LoopSendAll, LoopReceiveNothing, LoopReceivePart, Tick,
             RobotAnswers, RobotStaysSilent, RobotSendsAT, StrayCharacter
  <2>2. spent["partial"] = 0 => sinceTx <= waited
    BY <2>1 DEF LoopTimeout, IsRxTimeout, PrintedBeforeTheWait
  <2>3. sinceTx >= expectDownResponseTimeout
    BY <2>1 DEF IsRxTimeout
  <2>. QED
    BY <2>2, <2>3 DEF OthersOK
<1>. QED
  BY <1>1, TypeCorrect, WaitInvariant, PTL DEF Safety, TimeoutGrantsTheTime

-----------------------------------------------------------------------------
LEMMA TailOfSeq ==
  ASSUME NEW S, NEW s \in Seq(S), s # <<>>
  PROVE  /\ Tail(s) \in Seq(S)
         /\ Len(Tail(s)) = Len(s) - 1
         /\ Len(s) \in Nat /\ 1 \in 1 .. Len(s) /\ Head(s) = s[1]
         /\ \A j \in 1 .. Len(Tail(s)) : j + 1 \in 1 .. Len(s) /\ Tail(s)[j] = s[j + 1]
  OBVIOUS

LEMMA AppendToSeq ==
  ASSUME NEW S, NEW s \in Seq(S), NEW e \in S
  PROVE  /\ Len(s) \in Nat
         /\ \A j \in 1 .. Len(Append(s, e)) :
              \/ j \in 1 .. Len(s) /\ Append(s, e)[j] = s[j]
              \/ j = Len(s) + 1 /\ Append(s, e)[j] = e
  OBVIOUS

LEMMA DisturbedForGood ==
  ASSUME OthersOK, RegistersOK, CallbackKept, [Next]_vars, Undisturbed'
  PROVE  Undisturbed
<1> USE DEF Undisturbed
<1>1. ASSUME NEW c \in Calls, Send(c) \/ SendWithoutResponse(c) PROVE Undisturbed
  BY <1>1 DEF Send, SendWithoutResponse, OthersOK, outside
<1>2. CASE LoopReceiveLine
  <2>1. spent["at"] = 0
    BY <1>2 DEF LoopReceiveLine
  <2>2. ASSUME NEW c \in Calls, result[c] \in {"fired", "timeout"} PROVE FALSE
    <3>1. ~(expectResponse /\ c = cb)
      BY <2>2 DEF CallbackKept
    <3>2. result'[c] = result[c]
      BY <1>2, <3>1 DEF LoopReceiveLine, OthersOK
    <3>. QED
      BY <2>2, <3>2
  <2>. QED
    BY <2>1, <2>2
<1>3. CASE LoopTimeout
  <2>1. spent["at"] = 0
    BY <1>3 DEF LoopTimeout, outside
  <2>2. ~IsRxTimeout
    BY <1>3 DEF LoopTimeout, IsRxTimeout, RegistersOK, OthersOK
  <2>. QED
    BY <1>3, <2>1, <2>2 DEF LoopTimeout
<1>4. CASE RobotSendsAT
  BY <1>4 DEF RobotSendsAT, OthersOK
<1>5. CASE LoopSendPart \/ StrayCharacter
  BY <1>5 DEF LoopSendPart, StrayCharacter, OthersOK
<1>6. CASE UNCHANGED <<result, spent>>
  BY <1>6
<1>. QED
  BY <1>1, <1>2, <1>3, <1>4, <1>5, <1>6
     DEF Next, Loop, Robot, ClientsDone, LoopSendNothing, LoopSendAll,
         LoopReceiveNothing, LoopReceivePart, Tick, RobotAnswers,
         RobotStaysSilent, vars, outside

\* A caller that gets a line gets the answer to its own command, as long as
\* no call timed out or went without an answer and the robot sent nothing of
\* its own (router.cpp:85-118).
THEOREM AnswersAreOwn == Safety => []OwnAnswerIfUndisturbed
<1>1. Init => OneAnswerUnderway
  <2>1. Init => robot = <<>> /\ uart = <<>> /\ ~sendCommand
    BY DEF Init
  <2>2. Init => \A c \in Calls : result[c] \notin Lines
    BY CallsAssumption DEF Init, Lines
  <2>. QED
    BY <2>1, <2>2 DEF OneAnswerUnderway, Underway, NoLineUnderway
<1>2. TypeOK /\ CallbackKept /\ OneAnswerUnderway /\ [Next]_vars
        => OneAnswerUnderway'
  <2> SUFFICES ASSUME RegistersOK, OthersOK, CallbackKept, Underway, [Next]_vars,
                      Undisturbed, Undisturbed'
               PROVE  Underway'
    BY DisturbedForGood DEF TypeOK, OneAnswerUnderway
  <2>1. ASSUME NEW c \in Calls, Send(c) PROVE Underway'
    <3>1. robot = <<>> /\ NoLineUnderway
      BY <2>1 DEF Send, Busy, Underway, Printed
    <3>2. /\ sendCommand' /\ expectResponse' /\ lastCommand' = c /\ cb' = c
          /\ UNCHANGED <<robot, uart>>
      BY <2>1 DEF Send, Register, outside
    <3>3. \A d \in Calls : result'[d] \in Lines => result'[d] = d
      BY <2>1, LineIsNoStatus DEF Send, Underway, OthersOK
    <3>. QED
      BY <3>1, <3>2, <3>3 DEF Underway, Printed, NoLineUnderway
  <2>2. ASSUME NEW c \in Calls, SendWithoutResponse(c) PROVE Underway'
    BY <2>2 DEF SendWithoutResponse, Undisturbed, OthersOK
  <2>3. CASE LoopSendAll
    <3>1. /\ robot = <<>> /\ NoLineUnderway /\ expectResponse /\ lastCommand = cb
          /\ cb \in Calls
      BY <2>3 DEF LoopSendAll, Underway, Printed, RegistersOK
    <3>2. /\ ~sendCommand' /\ expectResponse'
          /\ UNCHANGED <<cb, uart, result>>
      BY <2>3, <3>1 DEF LoopSendAll
    <3>3. robot' = <<cb>>
      BY <2>3, <3>1, CallsAssumption DEF LoopSendAll
    <3>. QED
      BY <3>1, <3>2, <3>3 DEF Underway, Printed, NoLineUnderway
  <2>4. CASE LoopReceivePart
    <3>1. UNCHANGED <<sendCommand, expectResponse, lastCommand, cb, robot, result>>
      BY <2>4 DEF LoopReceivePart, request
    <3>2. uart' = Tail(uart) /\ uart # <<>>
      BY <2>4 DEF LoopReceivePart
    <3>3. \A j \in 1 .. Len(uart') : j + 1 \in 1 .. Len(uart) /\ uart'[j] = uart[j + 1]
      BY <3>2, TailOfSeq DEF OthersOK
    <3>4. NoLineUnderway => NoLineUnderway'
      BY <3>3 DEF NoLineUnderway
    <3>. QED
      BY <3>1, <3>3, <3>4 DEF Underway, Printed
  <2>5. CASE LoopReceiveLine
    <3>1. uart' = Tail(uart) /\ uart # <<>> /\ Head(uart) \in Lines
      BY <2>5 DEF LoopReceiveLine
    <3>2. /\ 1 \in 1 .. Len(uart) /\ uart[1] \in Lines
          /\ \A j \in 1 .. Len(uart') : j + 1 \in 1 .. Len(uart) /\ uart'[j] = uart[j + 1]
          /\ Len(uart) \in Nat /\ Len(uart') = Len(uart) - 1
      BY <3>1, TailOfSeq DEF OthersOK
    <3>3. uart[1] # "part"
      BY <3>2, CallsAssumption DEF Lines
    <3>4. uart[1] = cb /\ Printed /\ robot = <<>> /\ cb \in Calls
      BY <3>2, <3>3 DEF Underway, NoLineUnderway, RegistersOK, Printed
    <3>5. NoLineUnderway'
      <4>1. ASSUME NEW j \in 1 .. Len(uart') PROVE uart[j + 1] = "part"
        <5>1. j + 1 # 1 /\ j + 1 \in 1 .. Len(uart)
          BY <3>2
        <5>. QED
          BY <5>1, <3>2, <3>3 DEF Underway
      <4>. QED
        BY <4>1, <3>2 DEF NoLineUnderway
    <3>6. cb # "AT"
      BY <3>4, CallsAssumption
    <3>7. /\ ~expectResponse' /\ robot' = <<>> /\ result' = [result EXCEPT ![cb] = cb]
          /\ UNCHANGED <<sendCommand, lastCommand, cb>>
      BY <2>5, <3>1, <3>2, <3>4, <3>6, TailOfSeq DEF LoopReceiveLine, Printed, OthersOK
    <3>8. \A c \in Calls : result'[c] \in Lines => result'[c] = c
      BY <3>7 DEF Underway, OthersOK
    <3>. QED
      BY <3>4, <3>5, <3>7, <3>8 DEF Underway, Printed, NoLineUnderway
  <2>6. CASE LoopTimeout
    <3>1. ~IsRxTimeout
      BY <2>6 DEF LoopTimeout, IsRxTimeout, RegistersOK, OthersOK, Undisturbed
    <3>2. UNCHANGED <<sendCommand, expectResponse, lastCommand, cb, robot, uart, result>>
      BY <2>6, <3>1 DEF LoopTimeout, outside
    <3>. QED
      BY <3>2 DEF Underway, Printed, NoLineUnderway
  <2>7. CASE RobotAnswers
    <3>1. robot = <<cb>> /\ NoLineUnderway /\ Printed /\ cb \in Calls
      BY <2>7 DEF RobotAnswers, Underway, RegistersOK, Printed
    <3>2. /\ uart' = Append(uart, cb) /\ robot' = <<>>
          /\ UNCHANGED <<sendCommand, expectResponse, lastCommand, cb, result>>
      BY <2>7, <3>1 DEF RobotAnswers, request
    <3>3. \A j \in 1 .. Len(uart') :
            \/ j \in 1 .. Len(uart) /\ uart'[j] = uart[j]
            \/ j = Len(uart) + 1 /\ uart'[j] = cb
      <4>1. uart \in Seq(Lines \union {"part"}) /\ cb \in Lines \union {"part"}
        BY <3>1 DEF OthersOK, Lines
      <4>. QED
        BY <4>1, <3>2, AppendToSeq
    <3>4. \A j \in 1 .. Len(uart') :
            uart'[j] = "part" \/ (j = Len(uart) + 1 /\ uart'[j] = cb)
      BY <3>1, <3>3 DEF NoLineUnderway
    <3>. QED
      BY <3>1, <3>2, <3>4 DEF Underway, Printed
  <2>8. CASE RobotStaysSilent
    <3>1. robot' = <<>> /\ NoLineUnderway
      BY <2>8 DEF RobotStaysSilent, Underway
    <3>2. UNCHANGED <<sendCommand, expectResponse, lastCommand, cb, uart, result>>
      BY <2>8 DEF RobotStaysSilent, request
    <3>. QED
      BY <3>1, <3>2 DEF Underway, Printed, NoLineUnderway
  <2>9. CASE RobotSendsAT
    BY <2>9 DEF RobotSendsAT, Undisturbed, OthersOK
  <2>10. CASE StrayCharacter
    <3>1. /\ uart' = Append(uart, "part")
          /\ UNCHANGED <<sendCommand, expectResponse, lastCommand, cb, robot, result>>
      BY <2>10 DEF StrayCharacter, request
    <3>2. \A j \in 1 .. Len(uart') :
            \/ j \in 1 .. Len(uart) /\ uart'[j] = uart[j]
            \/ j = Len(uart) + 1 /\ uart'[j] = "part"
      <4>1. uart \in Seq(Lines \union {"part"}) /\ "part" \in Lines \union {"part"}
        BY DEF OthersOK
      <4>. QED
        BY <4>1, <3>1, AppendToSeq
    <3>3. NoLineUnderway => NoLineUnderway'
      BY <3>2 DEF NoLineUnderway
    <3>. QED
      BY <3>1, <3>2, <3>3 DEF Underway, Printed
  <2>11. CASE UNCHANGED <<sendCommand, expectResponse, lastCommand, cb, robot, uart, result>>
    BY <2>11 DEF Underway, Printed, NoLineUnderway
  <2>. QED
    BY <2>1, <2>2, <2>3, <2>4, <2>5, <2>6, <2>7, <2>8, <2>9, <2>10, <2>11
       DEF Next, Loop, Robot, ClientsDone, LoopSendNothing, LoopSendPart,
           LoopReceiveNothing, Tick, vars, request, outside
<1>3. OneAnswerUnderway => OwnAnswerIfUndisturbed
  BY DEF OneAnswerUnderway, Underway, OwnAnswerIfUndisturbed
<1>. QED
  BY <1>1, <1>2, <1>3, TypeCorrect, CallbackNeverLost, PTL DEF Safety

-----------------------------------------------------------------------------
\* The router implements the exchange service: one waiting caller at a time,
\* each accepted send() completed at most once, with a line or a timeout.
\* (That it is completed in the end is checked by TLC only.)
THEOREM RouterImplementsExchange == Safety => Abstract!Safety
<1>1. Init => Abstract!Init
  BY DEF Init, Abstract!Init, Abstract!New
<1>2. TypeOK /\ CallbackKept /\ [Next]_vars => [Abstract!Next]_result
  <2> SUFFICES ASSUME RegistersOK, CallbackKept, [Next]_vars,
                      result' # result
               PROVE  Abstract!Next
    BY DEF TypeOK
  <2> USE DEF Abstract!Next, Abstract!Becomes, Abstract!New, Abstract!Open,
              Abstract!Fired, Abstract!TimedOut
  <2>1. ASSUME NEW c \in Calls, Send(c) PROVE Abstract!Next
    <3>1. Abstract!Accept(c, "open")
      BY <2>1 DEF Send, Busy, CallbackKept, Abstract!Accept, Abstract!NobodyWaits
    <3>. QED
      BY <3>1
  <2>2. ASSUME NEW c \in Calls, SendWithoutResponse(c) PROVE Abstract!Next
    <3>1. Abstract!Accept(c, "fired")
      BY <2>2 DEF SendWithoutResponse, Busy, CallbackKept, Abstract!Accept,
                  Abstract!NobodyWaits
    <3>. QED
      BY <3>1
  <2>3. CASE LoopReceiveLine
    <3>1. expectResponse /\ cb \in Calls /\ result[cb] = "open"
      BY <2>3 DEF LoopReceiveLine, RegistersOK, CallbackKept
    <3>2. Abstract!Complete(cb, Head(uart)) /\ Head(uart) \in Lines
      BY <2>3, <3>1 DEF LoopReceiveLine, Abstract!Complete
    <3>. QED
      BY <3>1, <3>2 DEF Lines
  <2>4. CASE LoopTimeout
    <3>1. expectResponse /\ cb \in Calls /\ result[cb] = "open"
      BY <2>4 DEF LoopTimeout, IsRxTimeout, RegistersOK, CallbackKept
    <3>2. Abstract!Complete(cb, "timeout")
      BY <2>4, <3>1 DEF LoopTimeout, Abstract!Complete
    <3>. QED
      BY <3>1, <3>2
  <2>. QED
    BY <2>1, <2>2, <2>3, <2>4
       DEF Next, Loop, Robot, ClientsDone, LoopSendNothing, LoopSendPart,
           LoopSendAll, LoopReceiveNothing, LoopReceivePart, Tick,
           RobotAnswers, RobotStaysSilent, RobotSendsAT, StrayCharacter, vars
<1>. QED
  BY <1>1, <1>2, TypeCorrect, CallbackNeverLost, PTL DEF Safety, Abstract!Safety
=============================================================================
