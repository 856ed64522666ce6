----------------------------- MODULE MowerProofs -----------------------------
(***************************************************************************)
(* Theorems about Mower, for any challenges, commands and bounds.          *)
(***************************************************************************)
EXTENDS Mower, TLAPS

-----------------------------------------------------------------------------
(* The cipher.                                                             *)

\* With a key of at most the number of printable characters, which challenges
\* up to that number give, encrypt() leaves a printable character printable
\* and decrypt() takes it back (encrypt.cpp:11-39).
THEOREM DecryptInvertsEncrypt ==
  ASSUME NEW k \in 0 .. Range95, NEW b \in Printable
  PROVE  EncryptChar(k, b) \in Printable /\ DecryptChar(k, EncryptChar(k, b)) = b
<1>1. EncryptChar(k, b) = IF b + k > 126 THEN b + k - 95 ELSE b + k
  BY DEF EncryptChar, Char, Range95, Printable
<1>2. EncryptChar(k, b) \in Printable
  BY <1>1 DEF Range95, Printable
<1>3. DecryptChar(k, EncryptChar(k, b)) = b
  <2>1. CASE k = 0
    BY <2>1 DEF EncryptChar, DecryptChar
  <2>2. CASE b + k > 126
    BY <1>1, <1>2, <2>2 DEF DecryptChar, Char, Range95, Printable
  <2>3. CASE k # 0 /\ b + k <= 126
    BY <1>1, <1>2, <2>3 DEF DecryptChar, Char, Range95, Printable
  <2> QED BY <2>1, <2>2, <2>3 DEF Range95, Printable
<1> QED BY <1>2, <1>3

\* Another key, or none, never gives the same character back: who does not
\* have the robot's present key cannot read its lines, nor it theirs.
THEOREM WrongKeyMisreads ==
  ASSUME NEW k \in 0 .. 94, NEW j \in 0 .. 94, j # k, NEW b \in Printable
  PROVE  DecryptChar(j, EncryptChar(k, b)) # b
<1>1. EncryptChar(k, b) = IF b + k > 126 THEN b + k - 95 ELSE b + k
  BY DEF EncryptChar, Char, Range95, Printable
<1>2. EncryptChar(k, b) \in Printable
  BY <1>1 DEF Printable
<1> DEFINE e == EncryptChar(k, b)
<1>3. DecryptChar(j, e) = IF e - j <= 31 THEN e - j + 95 ELSE e - j
  BY <1>2 DEF DecryptChar, Char, Range95, Printable
<1> QED BY <1>1, <1>2, <1>3 DEF Printable

-----------------------------------------------------------------------------
(* Types.                                                                  *)

\* The key a version line leads to is in range.
LEMMA KeysInRange ==
  ASSUME NEW old \in 0 .. 94, NEW c \in Challenges
  PROVE  CalculateKey(old, Password, c) \in 0 .. 94
<1>1. c \in Nat \ {0} /\ Password \in Nat /\ Password % c < 95
  BY ChallengesAssumption, PasswordAssumption DEF Range95
<1>2. Password % c \in 0 .. 94
  BY <1>1
<1> QED BY <1>1, <1>2 DEF CalculateKey

\* ParseATCCommand makes a state of a state and a command.
LEMMA ParsedIsState ==
  ASSUME NEW d \in States, NEW c \in Used \union {Keep}
  PROVE  ParseATCCommand(d, c) \in States
<1>1. \A f \in Fields : c[f] \in {"keep", "mow", "idle", "dock", "on", "off"} \union Speeds
  BY UsedAssumption DEF AllCommands, Start, Stop, Dock, ChangeSpeed, MowerEnabled, Set, Keep
<1> QED BY <1>1 DEF ParseATCCommand, States

\* The first character of a line, under any key in use.
LEMMA AIsRead ==
  ASSUME NEW k \in 0 .. 94
  PROVE  EncryptChar(k, A) \in Printable /\ DecryptChar(k, EncryptChar(k, A)) = A
<1>1. k \in 0 .. Range95 /\ A \in Printable
  BY DEF Range95, Printable, A
<1> QED BY <1>1, DecryptInvertsEncrypt

\* A line that is sent has its type; a key in range makes a printable "A".
LEMMA LineType ==
  ASSUME NEW kind \in {"V", "S", "C"}, NEW c \in Used \union {Keep},
         NEW k \in 0 .. 94, NEW n \in {Apps} \union Nat
  PROVE  Line(kind, c, k, n) \in Lines
<1>1. EncryptChar(k, A) \in Printable
  BY AIsRead
<1> DEFINE l == [kind |-> kind, sets |-> c, first |-> EncryptChar(k, A), known |-> n]
<1>2. l \in Lines
  <2> HIDE DEF Printable, Keep
  <2> QED BY <1>1 DEF Lines
<1> QED BY <1>2 DEF Line

\* In any state of the right type these are the keys in use.
LEMMA KeysOfLines ==
  /\ \A k \in Keys : k \in 0 .. 94
  /\ challenge \in Challenges => RobotKey \in 0 .. 94
  /\ key \in 0 .. 94 => ModemKey \in 0 .. 94
BY KeysInRange DEF Keys, RobotKey, ModemKey, ActiveKey

\* What the modem's variables hold, and what is in the hands of the router,
\* on the line and in the robot (mower_adapter.h:18-50).
FlagsOK ==
  /\ sendIsInitialized \in BOOLEAN /\ on \in BOOLEAN /\ unread \in BOOLEAN
  /\ expect \in BOOLEAN /\ robotOn \in BOOLEAN

ModemOK ==
  /\ key \in 0 .. 94
  /\ sinceRequest \in 0 .. RequestInterval /\ statusAge \in 0 .. RequestInterval
  /\ desired \in States

OutsideOK ==
  /\ told \in States
  /\ slot \in Seq(Lines) /\ Len(slot) <= 1
  /\ toRobot \in Seq(Lines) /\ toModem \in Seq(Responses)
  /\ challenge \in Challenges
  /\ boot \in Nat \ {0} /\ knownBoot \in 0 .. boot
  /\ lost \in Nat /\ commands \in Nat

\* The answers on the line come from the robot as it is or was.
AnswersOfThisOrEarlier ==
  \A i \in 1 .. Len(toModem) :
    /\ toModem[i].boot \in 1 .. boot
    /\ toModem[i].on = robotOn
    /\ toModem[i].boot = boot => toModem[i].challenge = challenge

\* What the modem has made of the last version line: without one there is no
\* key, and with one of the present start it is the robot's.
KeyAsLearnt ==
  /\ Password = 0 => key = 0
  /\ knownBoot = 0 => key = 0 /\ ~sendIsInitialized
  /\ knownBoot = boot => on = robotOn /\ key = CalculateKey(0, Password, challenge)

\* The modem's own lines carry the key it had when it made them.
OwnLine(l) ==
  l.known # Apps =>
    /\ l.known <= boot
    /\ l.kind = "S" => l.known # 0
    /\ l.known = 0 => l.first = A
    /\ l.known = boot => l.first \in {A, EncryptChar(RobotKey, A)}

OwnLines ==
  /\ \A i \in 1 .. Len(slot) : OwnLine(slot[i])
  /\ \A i \in 1 .. Len(toRobot) : OwnLine(toRobot[i])

\* The inductive invariant.
Facts == ModemOK /\ OutsideOK /\ AnswersOfThisOrEarlier /\ KeyAsLearnt /\ OwnLines

IInv == FlagsOK /\ Facts

-----------------------------------------------------------------------------
(* Preservation.                                                           *)

\* The robot has started, nobody has said anything.
LEMMA Initially == Init => IInv
<1> SUFFICES ASSUME Init PROVE IInv
  OBVIOUS
<1> USE DEF Init
<1>0. Nothing \in States
  BY DEF States, Nothing
<1>1. ModemOK
  BY <1>0, BoundsAssumption DEF ModemOK
<1>2. OutsideOK
  BY <1>0 DEF OutsideOK
<1>3. AnswersOfThisOrEarlier /\ KeyAsLearnt /\ OwnLines
  BY DEF AnswersOfThisOrEarlier, KeyAsLearnt, OwnLines
<1>4. FlagsOK
  BY DEF FlagsOK
<1> QED BY <1>1, <1>2, <1>3, <1>4 DEF IInv, Facts

\* A step of somebody who has the router accept a line.
LEMMA AcceptedLine ==
  ASSUME IInv, NEW l \in Lines, OwnLine(l), SendWithoutResponse(l),
         UNCHANGED <<enc, line, robot>>
  PROVE  /\ slot' \in Seq(Lines) /\ Len(slot') <= 1
         /\ AnswersOfThisOrEarlier' /\ KeyAsLearnt' /\ OwnLines'
<1> USE DEF IInv, Facts, SendWithoutResponse, enc, line, robot
<1>1. slot' = <<l>>
  OBVIOUS
<1>2. slot' \in Seq(Lines) /\ Len(slot') <= 1
  BY <1>1
<1>3. AnswersOfThisOrEarlier'
  BY DEF AnswersOfThisOrEarlier
<1>4. KeyAsLearnt'
  BY DEF KeyAsLearnt
<1>5. OwnLines'
  <2>1. \A m : OwnLine(m) => OwnLine(m)'
    BY DEF OwnLine, RobotKey
  <2> QED BY <1>1, <2>1 DEF OwnLines
<1> QED BY <1>2, <1>3, <1>4, <1>5

\* What sendCommand makes is such a line.
LEMMA MadeBySendCommand ==
  ASSUME IInv, NEW kind \in {"V", "S", "C"}, NEW c \in Used \union {Keep},
         NEW encrypt \in BOOLEAN,
         kind = "S" => sendIsInitialized
  PROVE  LET l == Line(kind, c, IF encrypt THEN ModemKey ELSE 0, knownBoot)
         IN  l \in Lines /\ OwnLine(l)
<1> DEFINE k == IF encrypt THEN ModemKey ELSE 0
<1> DEFINE l == Line(kind, c, k, knownBoot)
<1>0. knownBoot \in Nat /\ knownBoot <= boot /\ boot \in Nat
  BY DEF IInv, Facts, OutsideOK
<1>1. k \in 0 .. 94
  BY KeysOfLines DEF IInv, Facts, ModemOK
<1>2. l \in Lines
  <2>1. knownBoot \in {Apps} \union Nat
    BY <1>0
  <2> HIDE DEF k
  <2> QED BY <1>1, <2>1, LineType
<1>3. knownBoot = 0 => ModemKey = 0
  BY DEF IInv, Facts, KeyAsLearnt, ModemKey, ActiveKey
<1>4. knownBoot = boot => ModemKey = RobotKey
  BY DEF IInv, Facts, KeyAsLearnt, ModemKey, RobotKey
<1>5. k = 0 => l.first = A
  BY DEF Line, EncryptChar
<1>6. l.known = knownBoot /\ l.kind = kind /\ l.first = EncryptChar(k, A)
  BY DEF Line
<1>7. kind = "S" => knownBoot # 0
  BY DEF IInv, Facts, KeyAsLearnt
<1>8. knownBoot = 0 => l.first = A
  BY <1>3, <1>5
<1>9. knownBoot = boot => l.first \in {A, EncryptChar(RobotKey, A)}
  BY <1>4, <1>5, <1>6
<1>10. OwnLine(l)
  BY <1>0, <1>6, <1>7, <1>8, <1>9 DEF OwnLine
<1> QED BY <1>2, <1>10

\* The actions that have a line accepted.
LEMMA Sending ==
  ASSUME IInv,
         \/ \E c \in Used : Command(c)
         \/ RequestVersion \/ RequestStatus \/ App
  PROVE  Facts'
<1>1. \A kind \in {"V", "S", "C"}, c \in Used \union {Keep}, k \in 0 .. 94 :
        Line(kind, c, k, Apps) \in Lines /\ OwnLine(Line(kind, c, k, Apps))
  BY LineType DEF OwnLine, Line
<1>2. ASSUME NEW c \in Used, Command(c) PROVE Facts'
  <2> DEFINE l == Line("C", c, ModemKey, knownBoot)
  <2>1. l \in Lines /\ OwnLine(l)
    BY MadeBySendCommand
  <2>2. SendWithoutResponse(l) /\ UNCHANGED <<enc, line, robot>>
    BY <1>2 DEF Command, SendCommand, modem
  <2>3. OutsideOK' /\ ModemOK'
    BY <1>2, <2>1, <2>2, AcceptedLine
       DEF Command, IInv, Facts, OutsideOK, ModemOK, modem, enc, line, robot
  <2> QED BY <2>1, <2>2, <2>3, AcceptedLine DEF IInv, Facts
<1>3. ASSUME RequestVersion PROVE Facts'
  <2> DEFINE l == Line("V", Keep, 0, knownBoot)
  <2>1. l \in Lines /\ OwnLine(l)
    BY MadeBySendCommand
  <2>2. SendWithoutResponse(l) /\ UNCHANGED <<enc, line, robot>>
    BY <1>3 DEF RequestVersion, SendCommand
  <2>3. OutsideOK' /\ ModemOK'
    BY <1>3, <2>1, <2>2, AcceptedLine, BoundsAssumption
       DEF RequestVersion, IInv, Facts, OutsideOK, ModemOK, enc, line, robot, spent
  <2> QED BY <2>1, <2>2, <2>3, AcceptedLine DEF IInv, Facts
<1>4. ASSUME RequestStatus PROVE Facts'
  <2> DEFINE l == Line("S", Keep, ModemKey, knownBoot)
  <2>1. l \in Lines /\ OwnLine(l)
    BY <1>4, MadeBySendCommand DEF RequestStatus
  <2>2. SendWithoutResponse(l) /\ UNCHANGED <<enc, line, robot>>
    BY <1>4 DEF RequestStatus, SendCommand, modem
  <2>3. OutsideOK' /\ ModemOK'
    BY <1>4, <2>1, <2>2, AcceptedLine
       DEF RequestStatus, IInv, Facts, OutsideOK, ModemOK, modem, enc, line, robot, spent
  <2> QED BY <2>1, <2>2, <2>3, AcceptedLine DEF IInv, Facts
<1>5. ASSUME NEW l \in Lines, OwnLine(l), AppSends(l), commands' \in Nat PROVE Facts'
  <2>1. SendWithoutResponse(l) /\ UNCHANGED <<enc, line, robot>>
    BY <1>5 DEF AppSends, modem
  <2>2. OutsideOK' /\ ModemOK'
    BY <1>5, <2>1, AcceptedLine
       DEF AppSends, IInv, Facts, OutsideOK, ModemOK, modem, enc, line, robot
  <2> QED BY <1>5, <2>1, <2>2, AcceptedLine DEF IInv, Facts
<1>6. ASSUME App PROVE Facts'
  <2>1. PICK k \in Keys \union {0} :
          \/ AppRequests("V", 0) \/ AppRequests("S", k)
          \/ \E c \in Used : AppCommands(c, k)
    BY <1>6 DEF App
  <2>2. k \in 0 .. 94 /\ commands \in Nat
    BY KeysOfLines DEF IInv, Facts, OutsideOK
  <2>3. CASE AppRequests("V", 0)
    BY <1>1, <1>5, <2>2, <2>3 DEF AppRequests
  <2>4. CASE AppRequests("S", k)
    BY <1>1, <1>5, <2>2, <2>4 DEF AppRequests
  <2>5. ASSUME NEW c \in Used, AppCommands(c, k) PROVE Facts'
    BY <1>1, <1>5, <2>2, <2>5 DEF AppCommands
  <2> QED BY <2>1, <2>3, <2>4, <2>5
<1> QED BY <1>2, <1>3, <1>4, <1>6

\* The modem's handling of what is printed and received.
LEMMA Draining ==
  ASSUME IInv, DrainTx \/ DrainRx
  PROVE  Facts'
<1> USE DEF IInv, Facts
<1>1. CASE DrainTx
  <2> USE <1>1 DEF DrainTx, enc, robot, spent
  <2>1. slot[1] \in Lines /\ OwnLine(slot[1])
    BY DEF OutsideOK, OwnLines
  <2>2. desired' \in States
    BY <2>1, ParsedIsState DEF ModemOK, Lines
  <2>3. ModemOK' /\ OutsideOK'
    BY <2>1, <2>2 DEF ModemOK, OutsideOK
  <2>4. AnswersOfThisOrEarlier' /\ KeyAsLearnt'
    BY DEF AnswersOfThisOrEarlier, KeyAsLearnt
  <2>5. \A m : OwnLine(m) => OwnLine(m)'
    BY DEF OwnLine, RobotKey
  <2>6. OwnLines'
    BY <2>1, <2>5 DEF OwnLines, OutsideOK
  <2> QED BY <2>3, <2>4, <2>6
<1>2. CASE DrainRx
  <2> DEFINE r == Head(toModem)
  <2> USE <1>2 DEF DrainRx, robot, spent
  <2>1. /\ r \in Responses /\ r.boot \in 1 .. boot /\ r.on = robotOn
        /\ r.boot = boot => r.challenge = challenge
    BY DEF OutsideOK, AnswersOfThisOrEarlier
  <2>2. CalculateKey(key, Password, r.challenge) \in 0 .. 94
    BY <2>1, KeysInRange DEF ModemOK, Responses
  <2>3. /\ key' \in 0 .. 94 /\ knownBoot' \in 0 .. boot
        /\ statusAge' \in 0 .. RequestInterval
    <3>1. \/ key' = CalculateKey(key, Password, r.challenge) /\ knownBoot' = r.boot
          \/ UNCHANGED <<key, knownBoot>>
      BY DEF ParseVersionResponse, enc
    <3>2. statusAge' \in {0, statusAge}
      OBVIOUS
    <3>3. /\ key \in 0 .. 94 /\ knownBoot \in 0 .. boot
          /\ statusAge \in 0 .. RequestInterval
          /\ r.boot \in 0 .. boot
      BY <2>1 DEF ModemOK, OutsideOK
    <3>4. RequestInterval \in Nat
      BY BoundsAssumption
    <3>5. key' \in 0 .. 94
      BY <2>2, <3>1, <3>3
    <3>6. knownBoot' \in 0 .. boot
      BY <3>1, <3>3
    <3>7. statusAge' \in 0 .. RequestInterval
      BY <3>2, <3>3, <3>4
    <3> QED BY <3>5, <3>6, <3>7
  <2>7. /\ ModemOK' /\ OutsideOK'
    BY <2>3 DEF ModemOK, OutsideOK
  <2>4. AnswersOfThisOrEarlier'
    BY DEF AnswersOfThisOrEarlier, OutsideOK
  <2>5. KeyAsLearnt'
    <3>1. CASE r.kind = "V"
      <4>1. challenge # 0
        BY ChallengesAssumption DEF OutsideOK
      <4> QED BY <2>1, <3>1, <4>1 DEF KeyAsLearnt, ParseVersionResponse, CalculateKey
    <3>2. CASE r.kind # "V"
      BY <3>2 DEF KeyAsLearnt, enc
    <3> QED BY <3>1, <3>2
  <2>6. OwnLines'
    BY DEF OwnLines, OwnLine, RobotKey
  <2> QED BY <2>4, <2>5, <2>6, <2>7
<1> QED BY <1>1, <1>2

\* The robot's steps.
LEMMA RobotSteps ==
  ASSUME IInv, RobotReads \/ RobotMisses \/ RobotRestarts
  PROVE  Facts'
<1> USE DEF IInv, Facts, modem, enc, spent
<1>1. CASE RobotReads
  <2> USE <1>1 DEF RobotReads
  <2> DEFINE l == Head(toRobot)
  <2>0. /\ l \in Lines
        /\ l.kind \in {"V", "S", "C"} /\ l.sets \in Used \union {Keep}
    <3>1. l \in Lines
      BY DEF OutsideOK
    <3> QED BY <3>1 DEF Lines
  <2>1. PICK kind \in {"V", "S", "C"} : toModem' = Append(toModem, Response(kind))
    BY <2>0
  <2>2. Response(kind) \in Responses
    <3>1. robotOn \in BOOLEAN /\ challenge \in Challenges /\ boot \in Nat
      BY DEF FlagsOK, OutsideOK
    <3> QED BY <3>1 DEF Response, Responses
  <2>3. told' \in States
    BY <2>0, ParsedIsState DEF OutsideOK
  <2>4. ModemOK' /\ OutsideOK'
    BY <2>1, <2>2, <2>3 DEF ModemOK, OutsideOK
  <2>5. AnswersOfThisOrEarlier'
    BY <2>1 DEF AnswersOfThisOrEarlier, OutsideOK, Response
  <2>6. KeyAsLearnt'
    BY DEF KeyAsLearnt
  <2>7. OwnLines'
    BY DEF OwnLines, OwnLine, RobotKey, OutsideOK
  <2> QED BY <2>4, <2>5, <2>6, <2>7
<1>2. CASE RobotMisses
  <2> USE <1>2 DEF RobotMisses, robot
  <2>1. ModemOK' /\ OutsideOK'
    BY DEF ModemOK, OutsideOK
  <2>2. AnswersOfThisOrEarlier' /\ KeyAsLearnt'
    BY DEF AnswersOfThisOrEarlier, KeyAsLearnt
  <2>3. OwnLines'
    BY DEF OwnLines, OwnLine, RobotKey, OutsideOK
  <2> QED BY <2>1, <2>2, <2>3
<1>3. CASE RobotRestarts
  <2> USE <1>3 DEF RobotRestarts
  <2>1. ModemOK' /\ OutsideOK'
    BY DEF ModemOK, OutsideOK, Nothing, States
  <2>2. AnswersOfThisOrEarlier' /\ KeyAsLearnt'
    BY DEF AnswersOfThisOrEarlier, KeyAsLearnt, OutsideOK
  <2>3. OwnLines'
    <3>1. ASSUME NEW m \in Lines, OwnLine(m) PROVE OwnLine(m)'
      BY <3>1 DEF OwnLine, OutsideOK, Lines
    <3> QED BY <3>1 DEF OwnLines, OutsideOK
  <2> QED BY <2>1, <2>2, <2>3
<1> QED BY <1>1, <1>2, <1>3

\* The flags stay Boolean; a step of their own, since they take a prover
\* different from the one for the numbers.
LEMMA FlagsPreserved ==
  ASSUME IInv, [Next]_vars
  PROVE  FlagsOK'
<1> USE DEF FlagsOK
<1>0. FlagsOK
  BY DEF IInv
<1>1. CASE DrainRx
  <2>1. Head(toModem).on \in BOOLEAN
    <3>1. Head(toModem) \in Responses
      BY <1>1 DEF DrainRx, IInv, Facts, OutsideOK
    <3> QED BY <3>1 DEF Responses
  <2> QED BY <1>0, <1>1, <2>1 DEF DrainRx, ParseVersionResponse, enc, robot
<1>2. CASE DrainTx
  BY <1>0, <1>2 DEF DrainTx, enc, robot
<1>3. CASE UNCHANGED <<enc, unread, robot>> /\ expect' \in {expect, TRUE, FALSE}
  BY <1>0, <1>3 DEF enc, robot
<1>4. CASE RobotReads \/ RobotRestarts \/ UNCHANGED vars
  BY <1>0, <1>4 DEF RobotReads, RobotRestarts, modem, enc, robot, vars
<1>5. ~(DrainRx \/ DrainTx \/ RobotReads \/ RobotRestarts \/ UNCHANGED vars)
        => UNCHANGED <<enc, unread, robot>> /\ expect' \in {expect, TRUE, FALSE}
  BY DEF Next, Command, RequestVersion, RequestVersionRefused, RequestStatus, App,
         AppRequests, AppCommands, AppSends, AppGivenUp, Tick, RobotMisses, modem, spent
<1> QED BY <1>1, <1>2, <1>3, <1>4, <1>5

\* What the other steps leave alone.
LEMMA RestUnchanged ==
  ASSUME IInv, UNCHANGED <<key, on, sendIsInitialized, knownBoot, desired, slot, line, robot, spent>>,
         sinceRequest' \in 0 .. RequestInterval, statusAge' \in 0 .. RequestInterval
  PROVE  Facts'
<1> USE DEF IInv, Facts, line, robot, spent
<1>1. ModemOK' /\ OutsideOK'
  BY DEF ModemOK, OutsideOK
<1>2. AnswersOfThisOrEarlier' /\ KeyAsLearnt'
  BY DEF AnswersOfThisOrEarlier, KeyAsLearnt
<1>3. OwnLines'
  BY DEF OwnLines, OwnLine, RobotKey
<1> QED BY <1>1, <1>2, <1>3

\* IInv is inductive.
LEMMA Preserved == IInv /\ [Next]_vars => IInv'
<1> SUFFICES ASSUME IInv, [Next]_vars PROVE Facts'
  BY FlagsPreserved DEF IInv
<1>1. /\ sinceRequest \in 0 .. RequestInterval /\ statusAge \in 0 .. RequestInterval
      /\ RequestInterval \in Nat \ {0}
  BY BoundsAssumption DEF IInv, Facts, ModemOK
<1>2. CASE RequestVersionRefused
  BY <1>1, <1>2, RestUnchanged DEF RequestVersionRefused, enc
<1>3. CASE AppGivenUp \/ UNCHANGED vars
  BY <1>1, <1>3, RestUnchanged DEF AppGivenUp, modem, enc, vars
<1>4. CASE Tick
  <2>1. /\ sinceRequest' \in 0 .. RequestInterval
        /\ statusAge' \in 0 .. RequestInterval
    BY <1>1, <1>4 DEF Tick, MayRequest
  <2> QED BY <1>4, <2>1, RestUnchanged DEF Tick, enc
<1> QED BY <1>2, <1>3, <1>4, Sending, Draining, RobotSteps DEF Next

\* So it holds in every reachable state.
LEMMA AlwaysIInv == Safety => []IInv
BY Initially, Preserved, PTL DEF Safety

-----------------------------------------------------------------------------
(* Results.                                                                *)

\* Every state of MowerAdapter and of what it talks to has its type; the
\* session key is always one for which the cipher works.
THEOREM TypeCorrect == Safety => []TypeOK
<1>1. IInv => TypeOK
  BY DEF IInv, Facts, FlagsOK, ModemOK, OutsideOK, TypeOK
<1> QED BY <1>1, AlwaysIInv, PTL

\* Whatever the order of polls, apps' requests, late answers and restarts of
\* the robot: after a version line of the robot's present start modem and
\* robot have the same key (mower_adapter.cpp:245-272).
THEOREM SessionKeyShared == Safety => []SameKey
<1>1. IInv => SameKey
  BY DEF IInv, Facts, KeyAsLearnt, SameKey, ModemKey, RobotKey
<1> QED BY <1>1, AlwaysIInv, PTL

\* And the robot can read what the modem says, from the first poll to the
\* robot's next restart (mower_adapter.cpp:137-151, 397-433).
THEOREM RobotReadsTheModem == Safety => []OwnLinesReadable
<1>1. IInv => OwnLinesReadable
  <2> SUFFICES ASSUME IInv, NEW l, OwnLine(l), l.known # Apps
               PROVE  /\ l.kind = "S" => l.known # 0
                      /\ l.known \in {0, boot} => RobotUnderstands(l)
    BY DEF IInv, Facts, OwnLines, OwnLinesReadable
  <2>1. RobotKey \in 0 .. 94
    BY KeysOfLines DEF IInv, Facts, OutsideOK
  <2>2. DecryptChar(RobotKey, EncryptChar(RobotKey, A)) = A
    BY <2>1, AIsRead
  <2> QED BY <2>2 DEF OwnLine, RobotUnderstands
<1> QED BY <1>1, AlwaysIInv, PTL

-----------------------------------------------------------------------------
(* What the robot was told.                                                *)

\* What a line makes of the robot's state, if it can read it.
Heard(d, l) ==
  IF l.kind = "C" /\ RobotUnderstands(l) THEN ParseATCCommand(d, l.sets) ELSE d

\* The lines on their way lead from what the robot was told to what the
\* modem takes it to have been told.  The states on that way are a function
\* of the lines' places: a fold would need induction over the lines.
Leads(f, lines, from, to) ==
  /\ f \in [0 .. Len(lines) -> States]
  /\ f[0] = from /\ f[Len(lines)] = to
  /\ \A i \in 1 .. Len(lines) : f[i] = Heard(f[i - 1], lines[i])

FirstStart == boot = 1 /\ lost = 0 /\ ~unread

ToldAndUnderway == FirstStart => \E f : Leads(f, toRobot, told, desired)

\* Before the robot's first restart, modem and robot can read the same of what
\* is printed, but for the encrypted lines before the first version line.
LEMMA ReadAlike ==
  ASSUME IInv, boot = 1, NEW l \in Lines, sendIsInitialized \/ l.first = A
  PROVE  ModemUnderstands(l) <=> RobotUnderstands(l)
<1>1. CASE l.first = A
  BY <1>1 DEF ModemUnderstands, RobotUnderstands
<1>2. CASE sendIsInitialized
  <2>1. knownBoot = boot
    BY <1>2 DEF IInv, Facts, OutsideOK, KeyAsLearnt
  <2>2. ModemKey = RobotKey
    BY <2>1 DEF IInv, Facts, KeyAsLearnt, ModemKey, RobotKey
  <2> QED BY <2>2 DEF ModemUnderstands, RobotUnderstands
<1> QED BY <1>1, <1>2

\* One line more at the end, one less at the beginning.
LEMMA OneMore ==
  ASSUME NEW s \in Seq(Lines), NEW l \in Lines, NEW a, NEW b, NEW f,
         Leads(f, s, a, b), Heard(b, l) \in States
  PROVE  \E g : Leads(g, Append(s, l), a, Heard(b, l))
<1> DEFINE n == Len(s)
<1> DEFINE t == Append(s, l)
<1> DEFINE g == [i \in 0 .. n + 1 |-> IF i <= n THEN f[i] ELSE Heard(b, l)]
<1>1. /\ n \in Nat /\ Len(t) = n + 1 /\ t[n + 1] = l
      /\ \A i \in 1 .. n : t[i] = s[i]
  OBVIOUS
<1>2. /\ f \in [0 .. n -> States] /\ f[0] = a /\ f[n] = b
      /\ \A i \in 1 .. n : f[i] = Heard(f[i - 1], s[i])
  BY DEF Leads
<1> HIDE DEF n, t
<1>3. g \in [0 .. Len(t) -> States] /\ g[0] = a /\ g[Len(t)] = Heard(b, l)
  BY <1>1, <1>2
<1>4. ASSUME NEW i \in 1 .. Len(t) PROVE g[i] = Heard(g[i - 1], t[i])
  <2>1. CASE i <= n
    BY <1>1, <1>2, <2>1
  <2>2. CASE i = n + 1
    BY <1>1, <1>2, <2>2
  <2> QED BY <1>1, <2>1, <2>2
<1>5. Leads(g, t, a, Heard(b, l))
  <2> HIDE DEF g
  <2> QED BY <1>3, <1>4 DEF Leads
<1> QED BY <1>5 DEF t

LEMMA OneLess ==
  ASSUME NEW s \in Seq(Lines), s # <<>>, NEW a, NEW b, NEW f, Leads(f, s, a, b)
  PROVE  \E g : Leads(g, Tail(s), Heard(a, Head(s)), b)
<1> DEFINE n == Len(s)
<1> DEFINE t == Tail(s)
<1> DEFINE g == [i \in 0 .. n - 1 |-> f[i + 1]]
<1>1. /\ n \in Nat \ {0} /\ Len(t) = n - 1 /\ Head(s) = s[1]
      /\ \A i \in 1 .. n - 1 : t[i] = s[i + 1]
  OBVIOUS
<1>2. /\ f \in [0 .. n -> States] /\ f[0] = a /\ f[n] = b
      /\ \A i \in 1 .. n : f[i] = Heard(f[i - 1], s[i])
  BY DEF Leads
<1> HIDE DEF n, t
<1>3. g \in [0 .. Len(t) -> States] /\ g[Len(t)] = b
  BY <1>1, <1>2
<1>4. g[0] = Heard(a, Head(s))
  <2>1. g[0] = f[1] /\ f[1] = Heard(f[0], s[1])
    BY <1>1, <1>2
  <2> QED BY <1>1, <1>2, <2>1
<1>5. ASSUME NEW i \in 1 .. Len(t) PROVE g[i] = Heard(g[i - 1], t[i])
  <2>1. g[i] = f[i + 1] /\ g[i - 1] = f[i] /\ t[i] = s[i + 1]
    BY <1>1
  <2>2. f[i + 1] = Heard(f[i + 1 - 1], s[i + 1])
    BY <1>1, <1>2
  <2> QED BY <2>1, <2>2
<1>6. Leads(g, t, Heard(a, Head(s)), b)
  <2> HIDE DEF g
  <2> QED BY <1>3, <1>4, <1>5 DEF Leads
<1> QED BY <1>6 DEF t

\* Each step keeps a way, longer or shorter by a line.
LEMMA ToldStep == IInv /\ ToldAndUnderway /\ [Next]_vars => ToldAndUnderway'
<1> SUFFICES ASSUME IInv, ToldAndUnderway, [Next]_vars, FirstStart'
             PROVE  (\E f : Leads(f, toRobot, told, desired))'
  BY DEF ToldAndUnderway
<1>1. CASE RobotRestarts \/ RobotMisses
  BY <1>1 DEF RobotRestarts, RobotMisses, FirstStart, IInv, Facts, OutsideOK, spent, robot
<1>2. CASE DrainTx
  <2> DEFINE l == slot[1]
  <2>1. FirstStart /\ (sendIsInitialized \/ l.first = A) /\ UNCHANGED robot
    BY <1>2 DEF DrainTx, FirstStart, robot, spent, IInv, FlagsOK
  <2>2. PICK f : Leads(f, toRobot, told, desired)
    BY <2>1 DEF ToldAndUnderway
  <2>3. toRobot \in Seq(Lines) /\ l \in Lines /\ toRobot' = Append(toRobot, l)
    BY <1>2 DEF DrainTx, IInv, Facts, OutsideOK
  <2>4. desired' = Heard(desired, l)
    BY <1>2, <2>1, <2>3, ReadAlike DEF DrainTx, Heard, FirstStart
  <2>5. desired' \in States
    <3>1. l.sets \in Used \union {Keep}
      BY <2>3 DEF Lines
    <3> QED BY <1>2, <3>1, ParsedIsState DEF DrainTx, IInv, Facts, ModemOK
  <2>6. PICK g : Leads(g, toRobot', told, desired')
    BY <2>2, <2>3, <2>4, <2>5, OneMore
  <2>7. Leads(g, toRobot, told, desired)'
    BY <2>1, <2>6 DEF Leads, Heard, RobotUnderstands, RobotKey, robot
  <2> QED BY <2>7
<1>3. CASE RobotReads
  <2> DEFINE l == Head(toRobot)
  <2>1. FirstStart /\ UNCHANGED <<robotOn, challenge, desired>>
    BY <1>3 DEF RobotReads, FirstStart, modem, spent
  <2>2. PICK f : Leads(f, toRobot, told, desired)
    BY <2>1 DEF ToldAndUnderway
  <2>3. toRobot \in Seq(Lines) /\ toRobot # <<>> /\ toRobot' = Tail(toRobot)
    BY <1>3 DEF RobotReads, IInv, Facts, OutsideOK
  <2>4. told' = Heard(told, l)
    BY <1>3 DEF RobotReads, Heard
  <2>5. PICK g : Leads(g, toRobot', told', desired)
    BY <2>2, <2>3, <2>4, OneLess
  <2>6. Leads(g, toRobot, told, desired)'
    BY <2>1, <2>5 DEF Leads, Heard, RobotUnderstands, RobotKey
  <2> QED BY <2>6
<1>4. CASE UNCHANGED <<toRobot, told, desired, robotOn, challenge, boot, lost, unread>>
  <2>1. PICK f : Leads(f, toRobot, told, desired)
    BY <1>4 DEF ToldAndUnderway, FirstStart
  <2>2. Leads(f, toRobot, told, desired)'
    BY <1>4, <2>1 DEF Leads, Heard, RobotUnderstands, RobotKey
  <2> QED BY <2>2
<1>5. \/ RobotRestarts \/ RobotMisses \/ DrainTx \/ RobotReads
      \/ UNCHANGED <<toRobot, told, desired, robotOn, challenge, boot, lost, unread>>
  BY DEF Next, Command, RequestVersion, RequestVersionRefused, RequestStatus, App, AppRequests,
         AppCommands, AppSends, AppGivenUp, DrainRx, Tick, modem, line, robot, spent, vars
<1> QED BY <1>1, <1>2, <1>3, <1>4, <1>5

\* Until the robot restarts or misses a line, the modem knows what it was
\* told, whoever told it, once it has read all that was printed
\* (mower_adapter.cpp:79-94, 356-395).
THEOREM DesiredKnown == Safety => []DesiredIsTold
<1>1. Init => ToldAndUnderway
  <2> SUFFICES ASSUME Init PROVE \E f : Leads(f, toRobot, told, desired)
    BY DEF ToldAndUnderway
  <2> DEFINE f == [i \in 0 .. 0 |-> Nothing]
  <2>1. Nothing \in States
    BY DEF States, Nothing
  <2>2. toRobot = <<>> /\ told = Nothing /\ desired = Nothing
    BY DEF Init
  <2>3. Leads(f, toRobot, told, desired)
    BY <2>1, <2>2 DEF Leads
  <2> QED BY <2>3
<1>2. IInv /\ ToldAndUnderway => DesiredIsTold
  BY DEF ToldAndUnderway, FirstStart, Leads, DesiredIsTold
<1> QED BY <1>1, <1>2, AlwaysIInv, ToldStep, PTL DEF Safety
=============================================================================
