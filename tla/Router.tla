------------------------------- MODULE Router -------------------------------
(***************************************************************************)
(* Router (router.cpp): the one owner of the serial line to the robot, as  *)
(* run by the firmware's loop task.  A pass of Router::loop is loopSend,   *)
(* loopReceive, loopTimeout; between two passes the loop task runs the     *)
(* clients, which call send and sendWithoutResponse.  The UART and the     *)
(* robot run concurrently with all of it.                                  *)
(*                                                                         *)
(* Data.  A command is the call that issued it, and the line the robot     *)
(* answers with is that same call; "AT" is a line the robot sends on its   *)
(* own, a command to the Bluetooth module the modem emulates, and "OK" is  *)
(* the reply of Cli (modem_cli.cpp).  "part" is a character that does not  *)
(* complete a line.  The two time stamps are kept as what the code derives *)
(* from them, the time since then, counted up to the timeout; RouterClock  *)
(* relates that to the 32-bit arithmetic.                                  *)
(***************************************************************************)
EXTENDS Naturals, Sequences

CONSTANTS
  Calls,                      \* calls of send and sendWithoutResponse
  expectDownResponseTimeout,  \* in ticks of the clock
  MaxAT,                      \* bound: "AT" lines the robot sends
  MaxParts,                   \* bound: stray characters
  MaxPartial                  \* bound: print() calls that send only a part

ASSUME CallsAssumption ==
  Calls \intersect {"new", "open", "fired", "timeout", "AT", "OK", "part", "none"} = {}
ASSUME TimeoutAssumption == expectDownResponseTimeout \in Nat \ {0}
ASSUME BoundsAssumption ==
  MaxAT \in Nat /\ MaxParts \in Nat /\ MaxPartial \in Nat

VARIABLES
  sendCommand,     \* a command waits to be printed
  expectResponse,  \* a callback waits for a line
  lastCommand,     \* the command accepted last
  cb,              \* the call whose callback is registered, or "none"
  sinceTx,         \* time since lastTx
  sinceRx,         \* time since lastRx
  pc,              \* where the loop task is
  uart,            \* received from the robot and not yet read
  robot,           \* commands the robot has received and not yet answered
  result,          \* what each call has come to, see Exchange
  accepted,        \* history: the commands accepted, in order
  wire,            \* history: the commands printed completely, in order
  waited,          \* history: time since the last accept
  spent            \* what the environment has used of its bounds

vars == <<sendCommand, expectResponse, lastCommand, cb, sinceTx, sinceRx, pc,
          uart, robot, result, accepted, wire, waited, spent>>
request  == <<sendCommand, expectResponse, lastCommand, cb, accepted>>
time     == <<sinceTx, sinceRx, waited>>
outside  == <<uart, robot, spent>>

Abstract == INSTANCE Exchange WITH Answers <- Calls \union {"AT"}

Lines    == Calls \union {"AT"}
Commands == Calls \union {"OK"}
Results  == Lines \union {"new", "open", "fired", "timeout"}

Later(t) == IF t < expectDownResponseTimeout THEN t + 1 ELSE t

Init ==
  /\ sendCommand = FALSE
  /\ expectResponse = FALSE
  /\ lastCommand = "none"
  /\ cb = "none"
  /\ sinceTx \in 0 .. expectDownResponseTimeout   \* both are 0 on a clock that
  /\ sinceRx = sinceTx                            \* runs since the boot
  /\ pc = "clients"
  /\ uart = <<>>                                  \* begin() drains it
  /\ robot = <<>>
  /\ result = [c \in Calls |-> "new"]
  /\ accepted = <<>>
  /\ wire = <<>>
  /\ waited = 0
  /\ spent = [kind \in {"at", "parts", "partial"} |-> 0]

-----------------------------------------------------------------------------
(* The calls of the clients.                                               *)

\* Mutants of Busy and Register: half of the condition, a forgotten callback.
BusyPrinting == sendCommand
BusyWaiting  == expectResponse
RegisterNoCallback(command, callback) ==
  /\ lastCommand' = command
  /\ sendCommand' = TRUE
  /\ accepted' = Append(accepted, command)
  /\ UNCHANGED cb

Busy == sendCommand \/ expectResponse

Register(command, callback) ==
  /\ lastCommand' = command
  /\ cb' = callback
  /\ sendCommand' = TRUE
  /\ accepted' = Append(accepted, command)

\* A refused call changes nothing: the action is the accepted one.
Send(c) ==
  /\ pc = "clients"
  /\ result[c] = "new"
  /\ ~Busy
  /\ Register(c, c)
  /\ expectResponse' = TRUE
  /\ result' = [result EXCEPT ![c] = "open"]
  /\ waited' = 0
  /\ UNCHANGED <<sinceTx, sinceRx, pc, wire, outside>>

SendWithoutResponse(c) ==
  /\ pc = "clients"
  /\ result[c] = "new"
  /\ ~Busy
  /\ Register(c, "none")
  /\ result' = [result EXCEPT ![c] = "fired"]
  /\ UNCHANGED <<expectResponse, time, pc, wire, outside>>

ClientsDone ==
  /\ pc = "clients"
  /\ pc' = "send"
  /\ UNCHANGED <<request, time, result, wire, outside>>

-----------------------------------------------------------------------------
(* Router::loop.                                                           *)

LoopSendNothing ==
  /\ pc = "send"
  /\ ~sendCommand
  /\ pc' = "receive"
  /\ UNCHANGED <<request, time, result, wire, outside>>

\* print() took less than the command: the rest stays for the next pass.
LoopSendPart ==
  /\ pc = "send"
  /\ sendCommand
  /\ spent["partial"] < MaxPartial
  /\ spent' = [spent EXCEPT !["partial"] = @ + 1]
  /\ pc' = "receive"
  /\ UNCHANGED <<request, time, result, wire, uart, robot>>

LoopSendAll ==
  /\ pc = "send"
  /\ sendCommand
  /\ sendCommand' = FALSE
  /\ sinceTx' = 0
  /\ wire' = Append(wire, lastCommand)
  /\ robot' = IF lastCommand = "OK" THEN robot ELSE Append(robot, lastCommand)
  /\ pc' = "receive"
  /\ UNCHANGED <<expectResponse, lastCommand, cb, accepted, sinceRx, waited,
                 result, uart, spent>>

LoopReceiveNothing ==
  /\ pc = "receive"
  /\ uart = <<>>
  /\ pc' = "timeout"
  /\ UNCHANGED <<request, time, result, wire, outside>>

LoopReceivePart ==
  /\ pc = "receive"
  /\ uart # <<>>
  /\ Head(uart) = "part"
  /\ uart' = Tail(uart)
  /\ sinceRx' = 0
  /\ UNCHANGED <<request, sinceTx, waited, pc, result, wire, robot, spent>>

\* The whole handling of one line: the callback if one waits, then the
\* drains, of which Cli comes first and answers an "AT" line.
LoopReceiveLine ==
  /\ pc = "receive"
  /\ uart # <<>>
  /\ Head(uart) \in Lines
  /\ uart' = Tail(uart)
  /\ sinceRx' = 0
  /\ expectResponse' = FALSE
  /\ result' = IF expectResponse THEN [result EXCEPT ![cb] = Head(uart)] ELSE result
  /\ IF Head(uart) = "AT" /\ ~sendCommand
     THEN Register("OK", "none")
     ELSE UNCHANGED <<lastCommand, cb, sendCommand, accepted>>
  /\ pc' = "timeout"
  /\ UNCHANGED <<sinceTx, waited, wire, robot, spent>>

\* Mutant of IsRxTimeout: limit is lastRx alone.
IsRxTimeoutRx == expectResponse /\ sinceRx >= expectDownResponseTimeout

\* limit is the later of lastTx and lastRx, so both lie back that long.
IsRxTimeout ==
  /\ expectResponse
  /\ sinceTx >= expectDownResponseTimeout
  /\ sinceRx >= expectDownResponseTimeout

\* Mutant of LoopTimeout: the callback is called and stays registered.
LoopTimeoutStays ==
  /\ pc = "timeout"
  /\ result' = IF IsRxTimeout THEN [result EXCEPT ![cb] = "timeout"] ELSE result
  /\ pc' = "clients"
  /\ UNCHANGED <<request, time, wire, outside>>

LoopTimeout ==
  /\ pc = "timeout"
  /\ IF IsRxTimeout
     THEN /\ expectResponse' = FALSE
          /\ result' = [result EXCEPT ![cb] = "timeout"]
     ELSE UNCHANGED <<expectResponse, result>>
  /\ pc' = "clients"
  /\ UNCHANGED <<sendCommand, lastCommand, cb, accepted, time, wire, outside>>

Loop ==
  \/ ClientsDone
  \/ LoopSendNothing \/ LoopSendPart \/ LoopSendAll
  \/ LoopReceiveNothing \/ LoopReceivePart \/ LoopReceiveLine
  \/ LoopTimeout

-----------------------------------------------------------------------------
(* The clock, the robot and the line to it.                                *)

Tick ==
  /\ sinceTx' = Later(sinceTx)
  /\ sinceRx' = Later(sinceRx)
  /\ waited' = Later(waited)
  /\ UNCHANGED <<request, pc, result, wire, outside>>

RobotAnswers ==
  /\ robot # <<>>
  /\ uart' = Append(uart, Head(robot))
  /\ robot' = Tail(robot)
  /\ UNCHANGED <<request, time, pc, result, wire, spent>>

RobotStaysSilent ==
  /\ robot # <<>>
  /\ robot' = Tail(robot)
  /\ UNCHANGED <<request, time, pc, result, wire, uart, spent>>

RobotSendsAT ==
  /\ spent["at"] < MaxAT
  /\ spent' = [spent EXCEPT !["at"] = @ + 1]
  /\ uart' = Append(uart, "AT")
  /\ UNCHANGED <<request, time, pc, result, wire, robot>>

StrayCharacter ==
  /\ spent["parts"] < MaxParts
  /\ spent' = [spent EXCEPT !["parts"] = @ + 1]
  /\ uart' = Append(uart, "part")
  /\ UNCHANGED <<request, time, pc, result, wire, robot>>

Robot == RobotAnswers \/ RobotStaysSilent \/ RobotSendsAT \/ StrayCharacter

Next ==
  \/ \E c \in Calls : Send(c) \/ SendWithoutResponse(c)
  \/ Loop
  \/ Tick
  \/ Robot

Safety == Init /\ [][Next]_vars

\* The Arduino core calls loop() for ever, and time passes.  Nobody has to
\* call, and the robot has to do nothing.
Spec == Safety /\ WF_vars(Loop) /\ WF_vars(Tick)

-----------------------------------------------------------------------------
(* Properties.                                                             *)

\* The router's own registers: whoever waits has a callback, whatever is to
\* be printed has a text.
RegistersOK ==
  /\ sendCommand \in BOOLEAN
  /\ expectResponse \in BOOLEAN
  /\ lastCommand \in Commands \union {"none"}
  /\ cb \in Calls \union {"none"}
  /\ sendCommand => lastCommand \in Commands
  /\ expectResponse => cb \in Calls

OthersOK ==
  /\ sinceTx \in 0 .. expectDownResponseTimeout
  /\ sinceRx \in 0 .. expectDownResponseTimeout
  /\ waited \in 0 .. expectDownResponseTimeout
  /\ pc \in {"clients", "send", "receive", "timeout"}
  /\ uart \in Seq(Lines \union {"part"})
  /\ robot \in Seq(Calls)
  /\ result \in [Calls -> Results]
  /\ accepted \in Seq(Commands)
  /\ wire \in Seq(Commands)
  /\ spent \in [{"at", "parts", "partial"} -> Nat]

TypeOK == RegistersOK /\ OthersOK

\* A callback that was accepted and not yet called is the registered one, and
\* the router waits for it: no later call, and no reply of Cli from inside
\* loopReceive, takes its place (router.cpp:32-58, 99-113).
CallbackKept ==
  \A c \in Calls : result[c] = "open" <=> expectResponse /\ cb = c

\* Every accepted command reaches the robot whole, once and in the order of
\* acceptance, whatever print() leaves over and whatever arrives meanwhile:
\* only the last one accepted can still be waiting (router.cpp:60-74).
PrintedInOrder ==
  accepted = IF sendCommand THEN Append(wire, lastCommand) ELSE wire

\* As long as no call gave up or went without an answer and the robot sent
\* nothing of its own, a caller that gets a line gets the answer to its own
\* command.  (Lines carry no identification: this is all the request/response
\* of esp_modem.cpp:59 rests on.)
Undisturbed ==
  /\ \A c \in Calls : result[c] \notin {"fired", "timeout"}
  /\ spent["at"] = 0

OwnAnswerIfUndisturbed ==
  Undisturbed => \A c \in Calls : result[c] \in Lines => result[c] = c

\* Why: undisturbed, at most one answer is underway, in the robot or on the
\* line, and the caller it is for is waiting.  (The strengthening the proof
\* of OwnAnswerIfUndisturbed needs.)
Printed == expectResponse /\ ~sendCommand
NoLineUnderway == \A j \in 1 .. Len(uart) : uart[j] = "part"

Underway ==
  /\ sendCommand => expectResponse /\ lastCommand = cb
  /\ ~Printed => robot = <<>> /\ NoLineUnderway
  /\ robot # <<>> => robot = <<cb>> /\ NoLineUnderway
  /\ \A j \in 1 .. Len(uart) : uart[j] \in {"part", cb}
  /\ \A j, k \in 1 .. Len(uart) : uart[j] # "part" /\ uart[k] # "part" => j = k
  /\ \A c \in Calls : result[c] \in Lines => result[c] = c

OneAnswerUnderway == Undisturbed => Underway

\* A caller is told TIMEOUT only when the robot had the whole time to answer,
\* unless print() left a part of the command over: then the time counts from
\* an earlier exchange (router.cpp:120-138).
TimeoutGrantsTheTime ==
  [][\A c \in Calls :
       result[c] = "open" /\ result'[c] = "timeout"
         => waited >= expectDownResponseTimeout \/ spent["partial"] > 0]_vars

\* Why: once a command is printed, sinceTx runs no longer than waited.  (The
\* strengthening the proof of TimeoutGrantsTheTime needs.)
PrintedBeforeTheWait ==
  expectResponse /\ spent["partial"] = 0
    => IF sendCommand THEN pc \in {"clients", "send"} ELSE sinceTx <= waited

\* The clients see an exchange service: one waiting caller at a time, each
\* accepted send() completed exactly once, and in the end completed.
ImplementsExchange == Abstract!Spec

\* No sequence of calls, answers and stray bytes leaves the router refusing
\* for ever (router.cpp:35, 49).
AcceptsAgain == []<>~Busy
=============================================================================
