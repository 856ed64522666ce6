-------------------------------- MODULE Mower --------------------------------
(***************************************************************************)
(* MowerAdapter (mower_adapter.cpp): the modem's own dealings with the     *)
(* robot, and what it learns by listening to those of its clients.  It     *)
(* polls the robot, passes commands of MQTT and Home Assistant on, reads   *)
(* the session key from every version line, and follows the state the      *)
(* robot was told to take.                                                 *)
(*                                                                         *)
(* The router is one slot, busy while a line waits to be printed or a      *)
(* caller for an answer, as in Router.  A line to the robot is its kind    *)
(* (AT+V, AT+S or AT+T, AT+C), what an AT+C sets, and its first character  *)
(* as sent, an "A" if it is not encrypted: that decides who can read it.   *)
(***************************************************************************)
EXTENDS Encrypt, Sequences

CONSTANTS
  Password,         \* the same in the settings and in the robot
  Challenges,       \* what the robot may draw at its start
  Speeds,
  Used,             \* the commands that are sent, of those below
  RequestInterval,  \* 1000 ms, in ticks
  MaxRestarts,      \* bound: restarts of the robot
  MaxLost,          \* bound: lines the robot does not answer
  MaxCommands,      \* bound: AT+C commands
  MaxUnderway       \* bound: lines printed or answered and not yet read

ASSUME PasswordAssumption == Password \in Nat
\* The cipher shifts within the printable characters only if the key is less
\* than their number (MowerProofs).
ASSUME ChallengesAssumption ==
  \A c \in Challenges : c \in Nat \ {0} /\ Password % c < Range95
ASSUME SpeedsAssumption == {"keep", "none"} \intersect Speeds = {}
ASSUME BoundsAssumption ==
  /\ RequestInterval \in Nat \ {0}
  /\ MaxRestarts \in Nat /\ MaxLost \in Nat
  /\ MaxCommands \in Nat /\ MaxUnderway \in Nat \ {0}

VARIABLES
  sendIsInitialized,
  on,              \* Encrypt::on
  key,             \* Encrypt::key
  sinceRequest,    \* time since assertSendIsInitialized set next_time
  desired,         \* _desiredState
  statusAge,       \* time since _state.timestamp
  slot,            \* what the router has to print: a sequence of no or one line
  expect,          \* a client of the router waits for an answer
  toRobot,         \* printed, not yet read by the robot
  toModem,         \* the robot's answers, not yet read by the router
  robotOn,         \* the robot wants encryption
  challenge,       \* the challenge of the robot
  told,            \* what the robot was told, in commands it could read
  boot,            \* how often the robot has started
  knownBoot,       \* history: the start the last version line came from, or 0
  unread,          \* history: an encrypted line passed before the first version line
  lost, commands   \* what has been used of the bounds

enc     == <<sendIsInitialized, on, key, knownBoot>>
modem   == <<enc, sinceRequest, desired, statusAge, unread>>
line    == <<toRobot, toModem>>
robot   == <<robotOn, challenge, told, boot>>
spent   == <<lost, commands>>
vars    == <<modem, slot, expect, line, robot, spent>>

A == 65

-----------------------------------------------------------------------------
(* Commands: the fields of an AT+C, each a value or "keep" (-1).           *)

Fields == {"op", "mower", "speed"}
Nothing == [f \in Fields |-> "none"]     \* nothing said yet
Set(field, v) == [f \in Fields |-> IF f = field THEN v ELSE "keep"]

Start == Set("op", "mow")
Stop == Set("op", "idle")
Dock == Set("op", "dock")
ChangeSpeed(s) == Set("speed", s)
MowerEnabled(b) == Set("mower", b)

AllCommands ==
  {Start, Stop, Dock, MowerEnabled("on"), MowerEnabled("off")}
    \union {ChangeSpeed(s) : s \in Speeds}
ASSUME UsedAssumption == Used \subseteq AllCommands

States == [Fields -> {"none", "mow", "idle", "dock", "on", "off"} \union Speeds]

\* Mutant of ParseATCCommand: -1 is taken for a value.
ParseATCCommandAll(d, c) == c

ParseATCCommand(d, c) == [f \in Fields |-> IF c[f] = "keep" THEN d[f] ELSE c[f]]

Keep == [f \in Fields |-> "keep"]    \* AT+V and AT+S set nothing

\* known, a history: the start of the robot whose key the modem knew when it
\* made the line, or 0; Apps if the line is an app's.
Apps == -1
Line(kind, sets, k, known) ==
  [kind |-> kind, sets |-> sets, first |-> EncryptChar(k, A), known |-> known]

RobotKey == ActiveKey(robotOn, CalculateKey(0, Password, challenge))
ModemKey == ActiveKey(on, key)
RobotUnderstands(l) == l.first = A \/ DecryptChar(RobotKey, l.first) = A

\* Mutant of ModemUnderstands: without the decryption.
ModemUnderstandsPlain(l) == l.first = A

\* parseArduMowerCommand
ModemUnderstands(l) == l.first = A \/ DecryptChar(ModemKey, l.first) = A

Keys == {0} \union {CalculateKey(0, Password, c) : c \in Challenges}

Init ==
  /\ sendIsInitialized = FALSE
  /\ on \in BOOLEAN               \* settings.general.encryption
  /\ key = 0
  /\ sinceRequest = RequestInterval
  /\ desired = Nothing
  /\ statusAge = RequestInterval
  /\ slot = <<>>
  /\ expect = FALSE
  /\ toRobot = <<>>
  /\ toModem = <<>>
  /\ robotOn \in BOOLEAN
  /\ challenge \in Challenges
  /\ told = Nothing
  /\ boot = 1
  /\ knownBoot = 0
  /\ unread = FALSE
  /\ lost = 0
  /\ commands = 0

-----------------------------------------------------------------------------
(* The router, from its callers' side.                                     *)

Busy == slot # <<>> \/ expect

Accepts == ~Busy /\ Len(toRobot) + Len(toModem) < MaxUnderway

\* sendWithoutResponse
SendWithoutResponse(l) ==
  /\ Accepts
  /\ slot' = <<l>>

-----------------------------------------------------------------------------
(* The calls of MQTT, Home Assistant and the metrics.                      *)

SendCommand(kind, sets, encrypt) ==
  SendWithoutResponse(Line(kind, sets, IF encrypt THEN ModemKey ELSE 0, knownBoot))

\* start, stop, dock, changeSpeed, mowerEnabled: refused while Busy
Command(c) ==
  /\ commands < MaxCommands
  /\ SendCommand("C", c, TRUE)
  /\ commands' = commands + 1
  /\ UNCHANGED <<modem, expect, line, robot, lost>>

\* now >= next_time
MayRequest == sinceRequest = RequestInterval

\* requestStatus and requestStats, up to assertSendIsInitialized
RequestVersion ==
  /\ ~sendIsInitialized
  /\ MayRequest
  /\ SendCommand("V", Keep, FALSE)
  /\ sinceRequest' = 0
  /\ UNCHANGED <<enc, desired, statusAge, unread, expect, line, robot, spent>>

\* next_time has moved on before the router refuses.
RequestVersionRefused ==
  /\ ~sendIsInitialized
  /\ MayRequest
  /\ Busy
  /\ sinceRequest' = 0
  /\ UNCHANGED <<enc, desired, statusAge, unread, slot, expect, line, robot, spent>>

\* Mutant of RequestStatus: without assertSendIsInitialized.
RequestStatusAtOnce ==
  /\ SendCommand("S", Keep, TRUE)
  /\ UNCHANGED <<modem, expect, line, robot, spent>>

\* the rest of requestStatus and requestStats
RequestStatus ==
  /\ sendIsInitialized
  /\ SendCommand("S", Keep, TRUE)
  /\ UNCHANGED <<modem, expect, line, robot, spent>>

-----------------------------------------------------------------------------
(* The app, by Bluetooth or HTTP, has keys of its own, of this start of    *)
(* the robot or an earlier one, and waits for the answers.                 *)

AppSends(l) ==
  /\ SendWithoutResponse(l)
  /\ expect' = TRUE
  /\ UNCHANGED <<modem, line, robot, lost>>

AppRequests(kind, k) == AppSends(Line(kind, Keep, k, Apps)) /\ UNCHANGED commands

AppCommands(c, k) ==
  /\ commands < MaxCommands
  /\ AppSends(Line("C", c, k, Apps))
  /\ commands' = commands + 1

App ==
  \/ AppRequests("V", 0)
  \/ \E k \in Keys : AppRequests("S", k) \/ \E c \in Used : AppCommands(c, k)

-----------------------------------------------------------------------------
(* The router's loop, and MowerAdapter as its drain.                       *)

\* loopSend, when it has printed the line, and drainTx
DrainTx ==
  /\ slot # <<>>
  /\ slot' = <<>>
  /\ toRobot' = Append(toRobot, slot[1])
  /\ desired' = IF slot[1].kind = "C" /\ ModemUnderstands(slot[1])
                THEN ParseATCCommand(desired, slot[1].sets) ELSE desired
  /\ unread' = (unread \/ (~sendIsInitialized /\ slot[1].first # A))
  /\ UNCHANGED <<enc, sinceRequest, statusAge, expect, toModem, robot, spent>>

\* Mutants of ParseVersionResponse: without setChallenge, without the flag.
ParseVersionResponseFlag(r) ==
  /\ on' = r.on
  /\ UNCHANGED key
  /\ sendIsInitialized' = TRUE
  /\ knownBoot' = r.boot

ParseVersionResponseNoFlag(r) ==
  /\ on' = r.on
  /\ key' = CalculateKey(key, Password, r.challenge)
  /\ knownBoot' = r.boot
  /\ UNCHANGED sendIsInitialized

ParseVersionResponse(r) ==
  /\ on' = r.on
  /\ key' = CalculateKey(key, Password, r.challenge)
  /\ sendIsInitialized' = TRUE
  /\ knownBoot' = r.boot

\* loopReceive and drainRx
DrainRx ==
  /\ toModem # <<>>
  /\ toModem' = Tail(toModem)
  /\ expect' = FALSE
  /\ IF Head(toModem).kind = "V" THEN ParseVersionResponse(Head(toModem))
                                 ELSE UNCHANGED enc
  /\ statusAge' = IF Head(toModem).kind = "S" THEN 0 ELSE statusAge
  /\ UNCHANGED <<sinceRequest, desired, unread, slot, toRobot, robot, spent>>

\* loopTimeout; the line may still come
AppGivenUp ==
  /\ expect
  /\ slot = <<>>
  /\ expect' = FALSE
  /\ UNCHANGED <<modem, slot, line, robot, spent>>

Tick ==
  /\ sinceRequest' = IF MayRequest THEN sinceRequest ELSE sinceRequest + 1
  /\ statusAge' = IF statusAge = RequestInterval THEN statusAge ELSE statusAge + 1
  /\ UNCHANGED <<enc, desired, unread, slot, expect, line, robot, spent>>

-----------------------------------------------------------------------------
(* The robot: reads what is not encrypted, or encrypted with its own key;  *)
(* it answers anything else with an error, which tells the modem as little *)
(* as the answer to an AT+C.                                               *)

Response(kind) == [kind |-> kind, on |-> robotOn, challenge |-> challenge, boot |-> boot]

RobotReads ==
  LET l == Head(toRobot) IN
  /\ toRobot # <<>>
  /\ toRobot' = Tail(toRobot)
  /\ IF RobotUnderstands(l)
     THEN /\ toModem' = Append(toModem, Response(l.kind))
          /\ told' = IF l.kind = "C" THEN ParseATCCommand(told, l.sets) ELSE told
     ELSE toModem' = Append(toModem, Response("C")) /\ UNCHANGED told
  /\ UNCHANGED <<modem, slot, expect, robotOn, challenge, boot, spent>>

RobotMisses ==
  /\ toRobot # <<>>
  /\ lost < MaxLost
  /\ lost' = lost + 1
  /\ toRobot' = Tail(toRobot)
  /\ UNCHANGED <<modem, slot, expect, toModem, robot, commands>>

\* A new challenge, and nothing left of what it was told.
RobotRestarts ==
  /\ boot <= MaxRestarts
  /\ boot' = boot + 1
  /\ challenge' \in Challenges
  /\ told' = Nothing
  /\ toRobot' = <<>>
  /\ UNCHANGED <<modem, slot, expect, toModem, robotOn, spent>>

Next ==
  \/ \E c \in Used : Command(c)
  \/ RequestVersion \/ RequestVersionRefused \/ RequestStatus
  \/ App
  \/ DrainTx \/ DrainRx \/ AppGivenUp
  \/ Tick
  \/ RobotReads \/ RobotMisses \/ RobotRestarts

Safety == Init /\ [][Next]_vars

\* The loop task runs Router::loop for ever, and time passes.  The robot
\* answers what it does not miss.  MQTT polls for ever, and again and again at
\* a moment when the router is idle (strong fairness): nothing in the code
\* sees to that, next_time moves on when the router refuses.
Spec ==
  /\ Safety
  /\ WF_vars(DrainTx) /\ WF_vars(DrainRx) /\ WF_vars(AppGivenUp) /\ WF_vars(Tick)
  /\ WF_vars(RobotReads)
  /\ SF_vars(RequestVersion) /\ SF_vars(RequestStatus)

-----------------------------------------------------------------------------
(* Properties.                                                             *)

Lines ==
  [kind : {"V", "S", "C"}, sets : Used \union {Keep}, first : Printable,
   known : {Apps} \union Nat]
Responses ==
  [kind : {"V", "S", "C"}, on : BOOLEAN, challenge : Challenges, boot : Nat]

TypeOK ==
  /\ sendIsInitialized \in BOOLEAN /\ on \in BOOLEAN /\ key \in 0 .. 94
  /\ sinceRequest \in 0 .. RequestInterval /\ statusAge \in 0 .. RequestInterval
  /\ desired \in States /\ told \in States
  /\ slot \in Seq(Lines) /\ Len(slot) <= 1
  /\ expect \in BOOLEAN
  /\ toRobot \in Seq(Lines) /\ toModem \in Seq(Responses)
  /\ robotOn \in BOOLEAN /\ challenge \in Challenges
  /\ boot \in Nat \ {0} /\ knownBoot \in 0 .. boot
  /\ unread \in BOOLEAN
  /\ lost \in Nat /\ commands \in Nat

\* Whoever asked for the version, and however late its answer comes: if the
\* last version line the modem heard is of the robot's present start, modem
\* and robot have the same key (mower_adapter.cpp:245-272, encrypt.cpp:4-9).
SameKey == knownBoot = boot => ModemKey = RobotKey

\* What the modem says itself, commands and polls, the robot can read, unless
\* it has restarted since the modem learnt the key; and polls wait until the
\* modem knows one (mower_adapter.cpp:96-151, 397-433).
OwnLinesReadable ==
  \A l \in {slot[i] : i \in 1 .. Len(slot)} \union {toRobot[i] : i \in 1 .. Len(toRobot)} :
    l.known # Apps =>
      /\ l.kind = "S" => l.known # 0
      /\ l.known \in {0, boot} => RobotUnderstands(l)

\* When the robot has read all that was printed, the modem's idea of what it
\* was told is right, whoever told it and in whatever order, unless a line
\* was encrypted before the modem knew the key, missed, or forgotten in a
\* restart of the robot (mower_adapter.cpp:79-94, 356-395).
DesiredIsTold ==
  boot = 1 /\ lost = 0 /\ ~unread /\ toRobot = <<>> => desired = told

\* The modem's status of the robot is refreshed again and again, however the
\* app uses the line (mower_adapter.cpp:137-151, 397-416), provided that
\*  - the router is not busy at every moment the modem may ask for the
\*    version: a refusal costs the interval, and
\*  - the robot does not restart or, after its last restart, an app asks for
\*    the version: sendIsInitialized is never reset.
StatusRefreshed ==
  /\ []<>(sendIsInitialized \/ (MayRequest /\ Accepts))
  /\ [](boot = 1) \/ <>[](knownBoot = boot)
  => []<>(statusAge = 0)
=============================================================================
