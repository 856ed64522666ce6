----------------------------- MODULE MqttProofs ------------------------------
(***************************************************************************)
(* Theorems about Mqtt, for any settings, intervals, faults and messages:  *)
(* type correctness, that a connection is set up in whole, and that the    *)
(* last request of Home Assistant wins.                                    *)
(***************************************************************************)
EXTENDS Mqtt, TLAPS

-----------------------------------------------------------------------------
(* The inductive invariant.                                                *)

\* What is left to do is the end of what connect does.
SetUpCalls == {Command_, "/online", Fan, "discovery"}
TodoOK ==
  /\ todo \in Seq(SetUpCalls)
  /\ Len(todo) <= Len(SetUp)
  /\ \A i \in 1 .. Len(todo) : todo[i] = SetUp[Len(SetUp) - Len(todo) + i]
  /\ pc = "setup" <=> todo # <<>>

\* What has been done of it, the broker has got.
SetUpSoFar ==
  LET done == Len(SetUp) - Len(todo) IN
  path =>
    /\ session
    /\ subs = IF done = 0 THEN {} ELSE IF done < 4 THEN {Command_} ELSE {Command_, Fan}
    /\ done >= 2 => online = "true"

\* What desired will be when all that is pending has been printed.
MowerToBe ==
  IF commandMower # Nothing THEN commandMower
  ELSE IF slot # <<>> /\ slot[1].kind = "mower" THEN slot[1].set
  ELSE desired.mower
SpeedToBe ==
  IF commandSpeed # Nothing THEN commandSpeed
  ELSE IF slot # <<>> /\ slot[1].kind = "speed" THEN slot[1].set
  ELSE desired.speed

\* The last request is pending, or done.
RequestUnderway ==
  /\ lastRequest = "off" /\ ~raced => MowerToBe = 0
  /\ lastRequest \in DOMAIN SpeedOf /\ ~raced
       => MowerToBe = 1 /\ SpeedToBe = SpeedOf[lastRequest]

ClientOK ==
  /\ mqttHa \in BOOLEAN
  /\ pc \in {"idle", "rest", "call", "setup", "publish", "ha"}
  /\ connected \in BOOLEAN /\ path \in BOOLEAN
  /\ path => connected /\ isConnected
  /\ session \in BOOLEAN /\ subs \subseteq Topics
  /\ online \in {"unknown", "true", "false"}
  /\ inbox \in Seq([topic : Topics, payload : Payloads \union {"stop"}])
  /\ \A i \in 1 .. Len(inbox) : inbox[i].topic = Fan => inbox[i].payload \in Payloads
  /\ missed \in BOOLEAN

TimesOK ==
  /\ lastValue \in 0 .. BackoffMax /\ untilRetry \in 0 .. BackoffMax
  /\ sinceLost \in 0 .. ReconnectWait /\ seenConnected \in BOOLEAN
  /\ kind \in Kinds \union {"none"} /\ heard \subseteq Kinds
  /\ age \in 0 .. PublishInterval + 1
  /\ sinceAsked \in 0 .. RequestInterval
  /\ wait \in 0 .. PublishInterval \/ wait \in 0 .. PropsInterval
  /\ isNew \in BOOLEAN

IInv == WifiTypeOK /\ HaTypeOK /\ ClientOK /\ TimesOK /\ TodoOK /\ SetUpSoFar /\ RequestUnderway

-----------------------------------------------------------------------------
(* Types.                                                                  *)

LEMMA SetUpSteps ==
  ASSUME mqttHa \in BOOLEAN
  PROVE  /\ SetUp \in Seq(SetUpCalls)
         /\ Len(SetUp) = IF mqttHa THEN 5 ELSE 2
         /\ SetUp[1] = Command_ /\ SetUp[2] = "/online"
         /\ mqttHa => SetUp[3] = Command_ /\ SetUp[4] = Fan /\ SetUp[5] = "discovery"
<1> DEFINE more == <<Command_, Fan, "discovery">>
<1>2. CASE mqttHa
  <2>1. SetUp = <<Command_, "/online">> \o more
    BY <1>2 DEF SetUp
  <2>2. <<Command_, "/online">> \in Seq(SetUpCalls) /\ more \in Seq(SetUpCalls)
    BY DEF SetUpCalls
  <2>. QED
    BY <1>2, <2>1, <2>2
<1>3. CASE ~mqttHa
  <2>1. SetUp = <<Command_, "/online">> \o <<>>
    BY <1>3 DEF SetUp
  <2>2. <<Command_, "/online">> \in Seq(SetUpCalls) /\ <<>> \in Seq(SetUpCalls)
    BY DEF SetUpCalls
  <2>. QED
    BY <1>3, <2>1, <2>2
<1>. QED
  BY <1>2, <1>3

-----------------------------------------------------------------------------
(* What is asked of Home Assistant's adapter.                              *)

LEMMA SpeedsAre ==
  /\ DOMAIN SpeedOf = {"min", "medium", "high", "max"}
  /\ Speeds = {20, 33, 46, 59}
  /\ \A p \in DOMAIN SpeedOf : SpeedOf[p] \in Speeds
<1>1. DOMAIN SpeedOf = {"min", "medium", "high", "max"}
  BY DEF SpeedOf
<1>2. /\ SpeedOf["min"] = 20 /\ SpeedOf["medium"] = 33
      /\ SpeedOf["high"] = 46 /\ SpeedOf["max"] = 59
  BY DEF SpeedOf
<1>. QED
  BY <1>1, <1>2 DEF Speeds

\* The report's word for a speed is the one it was asked by.
LEMMA SpeedReported ==
  ASSUME NEW d, NEW p \in DOMAIN SpeedOf, d.mower = 1, d.speed = SpeedOf[p]
  PROVE  FanSpeed(d) = p
<1>2. /\ SpeedOf["min"] = 20 /\ SpeedOf["medium"] = 33
      /\ SpeedOf["high"] = 46 /\ SpeedOf["max"] = 59
  BY DEF SpeedOf
<1>. QED
  BY <1>2, SpeedsAre DEF FanSpeed

\* The commands set what they say.
LEMMA CommandsSet ==
  ASSUME NEW c \in Commands
  PROVE  /\ c.kind = "speed" => c.set \in Speeds
         /\ c.kind = "mower" => c.set \in {0, 1}
  BY DEF Commands, Command

\* What others of the router's users send.
LEMMA OthersCommands ==
  \A k \in {"start", "stop", "dock", "status", "stats", "version"} : 
    /\ Command(k, 0) \in Commands
    /\ Command(k, 0).kind = k
  BY DEF Commands, Command

LEMMA PollCommands ==
  \A k \in Kinds : PollOf[k] \in {"status", "stats", "version"}
  BY DEF Kinds, PollOf

LEMMA SlotIsALine ==
  ASSUME NEW s \in Seq(Commands), Len(s) <= 1, s # <<>>
  PROVE  s[1] \in Commands /\ s = <<s[1]>>
<1> DEFINE n == Len(s)
<1>1. n \in Nat /\ n # 0 /\ n <= 1
  OBVIOUS
<1>2. n = 1
  <2> HIDE DEF n
  <2>. QED
    BY <1>1
<1>. QED
  BY <1>2

LEMMA ReportType ==
  ASSUME HaTypeOK
  PROVE  /\ Now \in [state : RobotStates, mower : {0, 1}, speed : {0} \union Speeds]
         /\ Report(Now) \in [state : RobotStates, fan : {"off"} \union DOMAIN SpeedOf]
<1>1. Now \in [state : RobotStates, mower : {0, 1}, speed : {0} \union Speeds]
  BY DEF HaTypeOK, Now
<1>2. \A d : FanSpeed(d) \in {"off"} \union DOMAIN SpeedOf
  BY SpeedsAre DEF FanSpeed
<1>. QED
  BY <1>1, <1>2 DEF Report

HaInv == HaTypeOK /\ RequestUnderway

\* The router prints: desired follows what was in the slot.
LEMMA PrintsKeeps ==
  ASSUME HaInv, Prints,
         UNCHANGED <<commandSpeed, commandMower, reported, view, lastRequest, raced, busy>>,
         robotState' \in RobotStates, messages' \in Nat
  PROVE  HaInv'
<1>1. /\ slot[1] \in Commands /\ slot' = <<>>
  BY DEF Prints, HaInv, HaTypeOK
<1>2. /\ slot[1].kind = "speed" => slot[1].set \in Speeds
      /\ slot[1].kind = "mower" => slot[1].set \in {0, 1}
  BY <1>1, CommandsSet
<1>3. /\ desired \in [mower : {0, 1}, speed : {0} \union Speeds]
      /\ desired'.mower = (IF slot[1].kind = "mower" THEN slot[1].set ELSE desired.mower)
      /\ desired'.speed = (IF slot[1].kind = "speed" THEN slot[1].set ELSE desired.speed)
      /\ desired' \in [mower : {0, 1}, speed : {0} \union Speeds]
  BY <1>2 DEF Prints, HaInv, HaTypeOK
<1>4. HaTypeOK'
  BY <1>1, <1>3 DEF HaInv, HaTypeOK
<1>5. MowerToBe' = MowerToBe /\ SpeedToBe' = SpeedToBe
  BY <1>1, <1>3 DEF Prints, MowerToBe, SpeedToBe
<1>. QED
  BY <1>4, <1>5 DEF HaInv, RequestUnderway

\* A command of another kind gets into the free slot.
LEMMA OtherCommandKeeps ==
  ASSUME HaInv, slot = <<>>, NEW k \in {"start", "stop", "dock", "status", "stats", "version"},
         slot' = <<Command(k, 0)>>,
         UNCHANGED <<busy, desired, robotState, ha, view, lastRequest, raced, messages>>
  PROVE  HaInv'
<1>1. slot' \in Seq(Commands) /\ Len(slot') = 1 /\ slot'[1].kind = k
  BY OthersCommands
<1>2. HaTypeOK'
  BY <1>1 DEF HaInv, HaTypeOK, ha
<1>3. MowerToBe' = MowerToBe /\ SpeedToBe' = SpeedToBe
  BY <1>1 DEF MowerToBe, SpeedToBe, ha
<1>. QED
  BY <1>2, <1>3 DEF HaInv, RequestUnderway

\* The adapter gives the router what is pending.
LEMMA LoopCommandKeeps ==
  ASSUME HaInv, LoopCommand,
         UNCHANGED <<busy, desired, robotState, lastRequest, raced, messages>>,
         reported' \in {Now, reported}, view' \in {Report(Now), view}
  PROVE  HaInv'
<1>1. \/ UNCHANGED <<slot, commandSpeed, commandMower>>
      \/ /\ slot = <<>> /\ commandSpeed # Nothing
         /\ slot' = <<Command("speed", commandSpeed)>>
         /\ commandSpeed' = Nothing /\ commandMower' = commandMower
      \/ /\ slot = <<>> /\ commandSpeed = Nothing /\ commandMower # Nothing
         /\ slot' = <<Command("mower", commandMower)>>
         /\ commandSpeed' = commandSpeed /\ commandMower' = Nothing
  BY DEF LoopCommand, Accepts
<1>2. /\ reported' \in [state : RobotStates, mower : {0, 1}, speed : {0} \union Speeds]
      /\ view' \in [state : RobotStates, fan : {"off"} \union DOMAIN SpeedOf]
  BY ReportType DEF HaInv, HaTypeOK
<1>3. /\ commandSpeed # Nothing => Command("speed", commandSpeed) \in Commands
      /\ commandMower # Nothing => Command("mower", commandMower) \in Commands
  BY DEF HaInv, HaTypeOK, Commands
<1>4. HaTypeOK'
  <2>1. slot' \in Seq(Commands) /\ Len(slot') <= 1
    <3>2. slot \in Seq(Commands) /\ Len(slot) <= 1
      BY DEF HaInv, HaTypeOK
    <3>3. slot' = slot \/ \E c \in Commands : slot' = <<c>>
      BY <1>1, <1>3
    <3>4. CASE slot' = slot
      BY <3>2, <3>4
    <3>5. ASSUME NEW c \in Commands, slot' = <<c>>
          PROVE  slot' \in Seq(Commands) /\ Len(slot') <= 1
      <4>1. <<c>> \in Seq(Commands) /\ Len(<<c>>) <= 1
        OBVIOUS
      <4>. QED
        BY <3>5, <4>1
    <3>. QED
      BY <3>3, <3>4, <3>5
  <2>2. commandSpeed' \in {Nothing} \union Speeds /\ commandMower' \in {Nothing, 0, 1}
    BY <1>1 DEF HaInv, HaTypeOK
  <2>. QED
    BY <1>2, <2>1, <2>2 DEF HaInv, HaTypeOK
<1>5. \A k, n : Command(k, n).kind = k /\ Command(k, n).set = n
  BY DEF Command
<1>6. MowerToBe' = MowerToBe /\ SpeedToBe' = SpeedToBe
  BY <1>1, <1>5 DEF MowerToBe, SpeedToBe
<1>. QED
  BY <1>4, <1>6 DEF HaInv, RequestUnderway

\* A request becomes what is to be.
LEMMA RequestKeeps ==
  ASSUME HaInv, NEW p \in Payloads, OnFanSpeedMessage(p),
         UNCHANGED <<slot, busy, desired, robotState, reported, view, messages>>
  PROVE  HaInv'
<1>1. HaTypeOK'
  <2>1. raced' \in BOOLEAN
    BY DEF OnFanSpeedMessage
  <2>2. /\ commandSpeed' \in {Nothing} \union Speeds
        /\ commandMower' \in {Nothing, 0, 1}
        /\ lastRequest' \in {"none"} \union Payloads
    BY SpeedsAre DEF HaInv, HaTypeOK, OnFanSpeedMessage
  <2>. QED
    BY <2>1, <2>2 DEF HaInv, HaTypeOK
<1>2. ASSUME p = "off" PROVE MowerToBe' = 0
  BY <1>2 DEF OnFanSpeedMessage, MowerToBe, Nothing
<1>3. ASSUME p \in DOMAIN SpeedOf, ~raced' PROVE MowerToBe' = 1 /\ SpeedToBe' = SpeedOf[p]
  <2>1. p # "off" /\ ~OffUnderway
    BY <1>3, SpeedsAre DEF OnFanSpeedMessage
  <2>2. SpeedToBe' = SpeedOf[p]
    BY <1>3, SpeedsAre DEF OnFanSpeedMessage, SpeedToBe, Nothing
  <2>3. CASE desired.mower = 0
    BY <2>1, <2>2, <2>3 DEF OnFanSpeedMessage, MowerToBe, Nothing
  <2>4. CASE desired.mower = 1
    <3>1. commandMower' = commandMower /\ commandMower \in {Nothing, 1}
      BY <2>1, <2>4 DEF OnFanSpeedMessage, OffUnderway, HaInv, HaTypeOK
    <3>2. slot # <<>> /\ slot[1].kind = "mower" => slot[1].set = 1
      <4> SUFFICES ASSUME slot # <<>>, slot[1].kind = "mower", slot[1].set # 1 PROVE FALSE
        OBVIOUS
      <4>1. slot[1] \in Commands /\ slot = <<slot[1]>>
        BY SlotIsALine DEF HaInv, HaTypeOK
      <4>2. slot[1] = Command("mower", 0)
        BY <4>1 DEF Commands, Command
      <4>. QED
        BY <2>1, <4>1, <4>2 DEF OffUnderway
    <3>3. MowerToBe' = 1
      BY <2>4, <3>1, <3>2 DEF MowerToBe
    <3>. QED
      BY <2>2, <3>3
  <2>. QED
    BY <2>2, <2>3, <2>4 DEF HaInv, HaTypeOK
<1>4. lastRequest' = p
  BY DEF OnFanSpeedMessage
<1>5. RequestUnderway'
  BY <1>2, <1>3, <1>4 DEF RequestUnderway
<1>. QED
  BY <1>1, <1>5 DEF HaInv

\* Nobody touches what is asked for.
LEMMA NothingAsked ==
  ASSUME HaInv, UNCHANGED <<slot, desired, ha, view, lastRequest, raced>>,
         busy' \in BOOLEAN, robotState' \in RobotStates, messages' \in Nat
  PROVE  HaInv'
<1>1. HaTypeOK'
  BY DEF HaInv, HaTypeOK, ha
<1>2. MowerToBe' = MowerToBe /\ SpeedToBe' = SpeedToBe
  BY DEF MowerToBe, SpeedToBe, ha
<1>. QED
  BY <1>1, <1>2 DEF HaInv, RequestUnderway

LEMMA HaStep == IInv /\ [Next]_vars => HaInv'
<1> SUFFICES ASSUME IInv, [Next]_vars PROVE HaInv'
  OBVIOUS
<1>0. HaInv
  BY DEF IInv, HaInv
<1>r. robotState \in RobotStates /\ messages \in Nat /\ busy \in BOOLEAN
  BY <1>0 DEF HaInv, HaTypeOK
<1>1. CASE UNCHANGED haVars
  BY <1>0, <1>1 DEF haVars, router, ha, HaInv, HaTypeOK, RequestUnderway, MowerToBe, SpeedToBe
<1>2. CASE RouterPrints
  BY <1>0, <1>2, <1>r, PrintsKeeps DEF RouterPrints, ha
<1>3. ASSUME NEW k \in Kinds, Answer(k) PROVE robotState' \in RobotStates
  BY <1>3, <1>r DEF Answer
<1>4. ASSUME NEW k \in Kinds, RouterPolls(k) PROVE HaInv'
  <2>1. robotState' \in RobotStates /\ messages' \in Nat
    BY <1>3, <1>4, <1>r DEF RouterPolls
  <2>. QED
    BY <1>0, <1>4, <2>1, PrintsKeeps DEF RouterPolls, ha
<1>5. ASSUME NEW k \in Kinds, RobotAnswers(k) PROVE HaInv'
  <2>1. robotState' \in RobotStates /\ messages' \in Nat
    BY <1>3, <1>5, <1>r DEF RobotAnswers
  <2>. QED
    BY <1>0, <1>r, <1>5, <2>1, NothingAsked DEF RobotAnswers, router
<1>6. CASE Deliver
  <2> DEFINE m == Head(inbox)
  <2>1. m.topic = Fan => m.payload \in Payloads
    <3>1. m = inbox[1] /\ Len(inbox) > 0
      BY <1>6 DEF Deliver, IInv, ClientOK
    <3>. QED
      BY <3>1 DEF IInv, ClientOK
  <2>2. CASE m.topic = Fan
    BY <1>0, <1>6, <2>1, <2>2, RequestKeeps DEF Deliver, OnMqttMessage
  <2>3. CASE m.topic # Fan /\ m.payload \in {"start", "stop", "dock"} /\ Accepts
    <3>1. slot = <<>> /\ slot' = <<Command(m.payload, 0)>>
      BY <1>6, <2>3 DEF Deliver, OnMqttMessage, Accepts
    <3>. QED
      BY <1>0, <1>6, <2>3, <3>1, OtherCommandKeeps DEF Deliver, OnMqttMessage, ha
  <2>4. CASE m.topic # Fan /\ ~(m.payload \in {"start", "stop", "dock"} /\ Accepts)
    BY <1>6, <1>1, <2>4 DEF Deliver, OnMqttMessage, haVars, router, ha
  <2>. QED
    BY <2>2, <2>3, <2>4
<1>7. CASE Ask
  <2>1. slot = <<>> /\ slot' = <<Command(PollOf[kind], 0)>>
    BY <1>7 DEF Ask, Accepts
  <2>2. kind \in Kinds
    BY <1>7 DEF Ask, MayAsk, Polled, Kinds
  <2>. QED
    BY <1>0, <1>7, <2>1, <2>2, PollCommands, OtherCommandKeeps DEF Ask
<1>8. CASE AskVersion
  <2>1. CASE Accepts
    <3>1. slot = <<>> /\ slot' = <<Command(PollOf["props"], 0)>>
      BY <1>8, <2>1 DEF AskVersion, Accepts
    <3>. QED
      BY <1>0, <1>8, <3>1, PollCommands, OtherCommandKeeps DEF AskVersion, Kinds
  <2>2. CASE ~Accepts
    BY <1>1, <1>8, <2>2 DEF AskVersion, haVars, router
  <2>. QED
    BY <2>1, <2>2
<1>9. CASE HaLoop \/ HaLoopFails
  BY <1>0, <1>9, LoopCommandKeeps DEF HaLoop, HaLoopFails, LoopReport
<1>10. ASSUME NEW t, NEW p, UserSends(t, p) PROVE HaInv'
  <2>1. messages' \in Nat
    BY <1>r, <1>10 DEF UserSends
  <2>. QED
    BY <1>0, <1>r, <1>10, <2>1, NothingAsked DEF UserSends, router
<1>11. CASE OthersUse \/ OthersDone
  <2>1. messages' \in Nat
    BY <1>r, <1>11 DEF OthersUse, OthersDone
  <2>2. busy' \in BOOLEAN
    BY <1>11 DEF OthersUse, OthersDone
  <2>. QED
    BY <1>0, <1>r, <1>11, <2>1, <2>2, NothingAsked DEF OthersUse, OthersDone
<1>12. ASSUME NEW b \in {0, 1}, OthersSwitch(b) PROVE HaInv'
  <2>1. lastRequest' = "none" /\ "none" \notin DOMAIN SpeedOf
    BY <1>12, SpeedsAre DEF OthersSwitch
  <2>2. HaTypeOK'
    BY <1>0, <1>r, <1>12 DEF OthersSwitch, router, ha, HaInv, HaTypeOK
  <2>. QED
    BY <2>1, <2>2 DEF HaInv, RequestUnderway
<1>13. CASE Wifi \/ ClientNotices \/ Tick \/ Breaks \/ BrokerNotices \/ Network \/ UNCHANGED vars
  BY <1>1, <1>13 DEF Wifi, ClientNotices, Tick, Breaks, BrokerNotices, Network, vars
<1>14. CASE StillConnected \/ Disconnected \/ ConnectSucceeds \/ ConnectFails \/ SetUpStep \/ SetUpFails
              \/ Publish \/ PublishFails \/ PublishNothing \/ Rest
  BY <1>1, <1>14 DEF StillConnected, Disconnected, ConnectSucceeds, ConnectFails, SetUpStep,
                    SetUpFails, Publish, PublishFails, PublishNothing, Rest
<1>. QED
  BY <1>2, <1>4, <1>5, <1>6, <1>7, <1>8, <1>9, <1>10, <1>11, <1>12, <1>13, <1>14 DEF Next, LoopTask

-----------------------------------------------------------------------------
(* The wireless network.                                                   *)

LEMMA WifiStep == IInv /\ [Next]_vars => WifiTypeOK'
<1> SUFFICES ASSUME WifiTypeOK, [Next]_vars PROVE WifiTypeOK'
  BY DEF IInv
<1>0. /\ StaAbortTimeout \in Nat /\ OffStopTimeout \in Nat
      /\ Longest \in Nat
  BY TimeoutsAssumption DEF Longest
<1>1. CASE UNCHANGED wifiVars
  BY <1>1 DEF wifiVars, adapter, network, WifiTypeOK
<1>2. CASE Wifi
  <2>1. CASE LoopSta
    <3>1. since' \in {since, 0} /\ mode' \in Modes /\ radio' \in Modes
      BY <2>1 DEF LoopSta, Begin, WifiTypeOK, Modes
    <3>2. begun' \in BOOLEAN /\ isConnected' \in BOOLEAN
      BY <2>1 DEF LoopSta, Begin, WifiTypeOK
    <3>3. wasEverConnected' \in BOOLEAN
      BY <2>1 DEF LoopSta, WifiTypeOK
    <3>. QED
      BY <1>0, <2>1, <3>1, <3>2, <3>3 DEF LoopSta, WifiTypeOK
  <2>2. CASE LoopAp
    BY <1>1, <2>2 DEF LoopAp
  <2>3. CASE LoopOff
    <3>1. since' \in {since, 0} /\ mode' \in Modes /\ radio' \in Modes
      BY <2>3 DEF LoopOff, Begin, WifiTypeOK, Modes
    <3>2. isConnected' \in BOOLEAN
      BY <2>3 DEF LoopOff, Begin, WifiTypeOK
    <3>3. stopped' \in BOOLEAN /\ begun' \in BOOLEAN
      BY <2>3 DEF LoopOff, WifiTypeOK
    <3>. QED
      BY <1>0, <2>3, <3>1, <3>2, <3>3 DEF LoopOff, WifiTypeOK
  <2>. QED
    BY <1>2, <2>1, <2>2, <2>3 DEF Wifi, LoopWifi
<1>3. CASE UNCHANGED <<wifi, adapter, network>> /\ faults' \in Nat
  BY <1>3 DEF adapter, network, WifiTypeOK
<1>4. CASE RouterPrints \/ ConnectFails \/ Breaks
  <2>1. faults' \in Nat
    BY <1>4 DEF RouterPrints, ConnectFails, Breaks, WifiTypeOK
  <2>. QED
    BY <1>3, <1>4, <2>1 DEF RouterPrints, ConnectFails, Breaks
<1>5. CASE SetUpFails \/ PublishFails \/ HaLoopFails
  <2>1. Close
    BY <1>5 DEF SetUpFails, PublishFails, HaLoopFails
  <2>2. faults' \in Nat
    BY <2>1 DEF Close, Fails, WifiTypeOK
  <2>. QED
    BY <1>3, <1>5, <2>2 DEF SetUpFails, PublishFails, HaLoopFails
<1>6. CASE Network
  <2>1. faults' \in Nat
    BY <1>6 DEF Network, StationConnects, NetworkGone, NetworkBack, WifiTypeOK
  <2>2. isConnected' \in BOOLEAN /\ inRange' \in BOOLEAN
    BY <1>6 DEF Network, StationConnects, NetworkGone, NetworkBack, WifiTypeOK
  <2>3. UNCHANGED <<wifi, adapter>>
    BY <1>6 DEF Network, StationConnects, NetworkGone, NetworkBack
  <2>. QED
    BY <2>1, <2>2, <2>3 DEF adapter, WifiTypeOK
<1>7. CASE Tick
  <2>1. since' \in 0 .. Longest
    BY <1>0, <1>7 DEF Tick, More, WifiTypeOK
  <2>. QED
    BY <1>7, <2>1 DEF Tick, network, WifiTypeOK
<1>8. CASE StillConnected \/ Disconnected \/ ConnectSucceeds \/ SetUpStep \/ Publish \/ Ask
              \/ AskVersion \/ PublishNothing \/ HaLoop \/ Rest
  BY <1>1, <1>8 DEF StillConnected, Disconnected, ConnectSucceeds, SetUpStep, Publish, Ask,
                   AskVersion, PublishNothing, HaLoop, Rest
<1>9. ASSUME NEW k \in Kinds, RouterPolls(k) \/ RobotAnswers(k) PROVE WifiTypeOK'
  BY <1>1, <1>9 DEF RouterPolls, RobotAnswers
<1>10. ASSUME NEW t, NEW p, UserSends(t, p) PROVE WifiTypeOK'
  BY <1>1, <1>10 DEF UserSends
<1>11. ASSUME NEW b \in {0, 1}, OthersSwitch(b) PROVE WifiTypeOK'
  BY <1>1, <1>11 DEF OthersSwitch
<1>12. CASE Deliver \/ ClientNotices \/ BrokerNotices \/ OthersUse \/ OthersDone \/ UNCHANGED vars
  BY <1>1, <1>12 DEF Deliver, ClientNotices, BrokerNotices, OthersUse, OthersDone, vars
<1>. QED
  BY <1>2, <1>4, <1>5, <1>6, <1>7, <1>8, <1>9, <1>10, <1>11, <1>12 DEF Next, LoopTask

-----------------------------------------------------------------------------
(* Back-off and publications.                                              *)

RetryOK ==
  /\ lastValue \in 0 .. BackoffMax /\ untilRetry \in 0 .. BackoffMax
  /\ sinceLost \in 0 .. ReconnectWait /\ seenConnected \in BOOLEAN
PubsOK ==
  /\ kind \in Kinds \union {"none"} /\ heard \subseteq Kinds
  /\ age \in 0 .. PublishInterval + 1
  /\ sinceAsked \in 0 .. RequestInterval
  /\ wait \in 0 .. PublishInterval \/ wait \in 0 .. PropsInterval
  /\ isNew \in BOOLEAN

LEMMA RetryStep == IInv /\ [Next]_vars => RetryOK'
<1> SUFFICES ASSUME RetryOK, [Next]_vars PROVE RetryOK'
  BY DEF IInv, TimesOK, RetryOK
<1>0. /\ BackoffMin \in 0 .. BackoffMax /\ BackoffMax \in Nat /\ BackoffFactor \in Nat
      /\ ReconnectWait \in Nat
  BY BackoffAssumption, IntervalsAssumption
<1>1. CASE UNCHANGED retry
  BY <1>1 DEF retry, RetryOK
<1>2. CASE StillConnected
  BY <1>0, <1>2 DEF StillConnected, RetryOK
<1>3. CASE Disconnected
  <2>1. BackoffNext \in 0 .. BackoffMax
    <3>1. lastValue * BackoffFactor \in Nat
      BY <1>0 DEF RetryOK
    <3>. QED
      BY <1>0, <3>1 DEF BackoffNext, RetryOK
  <2>2. sinceLost' \in 0 .. ReconnectWait
    BY <1>0, <1>3 DEF Disconnected, RetryOK
  <2>3. lastValue' \in 0 .. BackoffMax /\ untilRetry' \in 0 .. BackoffMax
    BY <1>3, <2>1 DEF Disconnected, RetryOK
  <2>. QED
    BY <1>3, <2>2, <2>3 DEF Disconnected, RetryOK
<1>4. CASE Tick
  <2>1. untilRetry' \in 0 .. BackoffMax /\ sinceLost' \in 0 .. ReconnectWait
    BY <1>0, <1>4 DEF Tick, Less, More, RetryOK
  <2>. QED
    BY <1>4, <2>1 DEF Tick, RetryOK
<1>5. CASE ConnectSucceeds \/ ConnectFails \/ SetUpStep \/ SetUpFails \/ Publish \/ PublishFails
              \/ Ask \/ AskVersion \/ PublishNothing \/ HaLoop \/ HaLoopFails \/ Rest
  BY <1>1, <1>5 DEF ConnectSucceeds, ConnectFails, SetUpStep, SetUpFails, Publish, PublishFails,
                   Ask, AskVersion, PublishNothing, HaLoop, HaLoopFails, Rest
<1>6. CASE Wifi \/ RouterPrints \/ Deliver \/ ClientNotices \/ Breaks \/ BrokerNotices \/ Network
              \/ OthersUse \/ OthersDone \/ UNCHANGED vars
  BY <1>1, <1>6 DEF Wifi, RouterPrints, Deliver, ClientNotices, Breaks, BrokerNotices, Network,
                   OthersUse, OthersDone, mqttOwn, vars
<1>7. ASSUME NEW k \in Kinds, RouterPolls(k) \/ RobotAnswers(k) PROVE RetryOK'
  BY <1>1, <1>7 DEF RouterPolls, RobotAnswers
<1>8. ASSUME NEW t, NEW p, UserSends(t, p) PROVE RetryOK'
  BY <1>1, <1>8 DEF UserSends
<1>9. ASSUME NEW b \in {0, 1}, OthersSwitch(b) PROVE RetryOK'
  BY <1>1, <1>9 DEF OthersSwitch, mqttOwn
<1>. QED
  BY <1>2, <1>3, <1>4, <1>5, <1>6, <1>7, <1>8, <1>9 DEF Next, LoopTask

LEMMA PubsStep == IInv /\ [Next]_vars => PubsOK'
<1> SUFFICES ASSUME PubsOK, [Next]_vars PROVE PubsOK'
  BY DEF IInv, TimesOK, PubsOK
<1>0. /\ PublishInterval \in Nat /\ PropsInterval \in Nat /\ RequestInterval \in Nat
  BY IntervalsAssumption
<1>1. CASE UNCHANGED pubs
  BY <1>1 DEF pubs, PubsOK
<1>2. CASE Publish
  <2>1. wait' \in 0 .. PublishInterval \/ wait' \in 0 .. PropsInterval
    BY <1>0, <1>2 DEF Publish, Interval
  <2>. QED
    BY <1>2, <2>1 DEF Publish, PubsOK
<1>3. CASE Ask \/ AskVersion
  <2>1. sinceAsked' \in 0 .. RequestInterval /\ UNCHANGED <<kind, heard, age, wait, isNew>>
    BY <1>0, <1>3 DEF Ask, AskVersion
  <2>. QED
    BY <2>1 DEF PubsOK
<1>4. CASE Tick
  <2>1. /\ age' \in 0 .. PublishInterval + 1
        /\ sinceAsked' \in 0 .. RequestInterval
    BY <1>0, <1>4 DEF Tick, More, PubsOK
  <2>2. wait' \in 0 .. PublishInterval \/ wait' \in 0 .. PropsInterval
    BY <1>0, <1>4 DEF Tick, Less, PubsOK
  <2>. QED
    BY <1>4, <2>1, <2>2 DEF Tick, PubsOK
<1>5. ASSUME NEW k \in Kinds, RouterPolls(k) \/ RobotAnswers(k) PROVE PubsOK'
  <2>1. Answer(k) /\ UNCHANGED <<kind, wait>>
    BY <1>5 DEF RouterPolls, RobotAnswers
  <2>2. heard' \subseteq Kinds
    BY <2>1 DEF Answer, PubsOK, Kinds
  <2>3. age' \in 0 .. PublishInterval + 1 /\ sinceAsked' \in 0 .. RequestInterval
    BY <1>0, <2>1 DEF Answer, PubsOK
  <2>4. isNew' \in BOOLEAN
    BY <2>1 DEF Answer, PubsOK
  <2>. QED
    BY <2>1, <2>2, <2>3, <2>4 DEF PubsOK
<1>6. CASE StillConnected \/ Disconnected \/ ConnectSucceeds \/ ConnectFails \/ SetUpStep
              \/ SetUpFails \/ PublishFails \/ PublishNothing \/ HaLoop \/ HaLoopFails \/ Rest
  BY <1>1, <1>6 DEF StillConnected, Disconnected, ConnectSucceeds, ConnectFails, SetUpStep,
                   SetUpFails, PublishFails, PublishNothing, HaLoop, HaLoopFails, Rest
<1>7. CASE Wifi \/ RouterPrints \/ Deliver \/ ClientNotices \/ Breaks \/ BrokerNotices \/ Network
              \/ OthersUse \/ OthersDone \/ UNCHANGED vars
  BY <1>1, <1>7 DEF Wifi, RouterPrints, Deliver, ClientNotices, Breaks, BrokerNotices, Network,
                   OthersUse, OthersDone, mqttOwn, vars
<1>8. ASSUME NEW t, NEW p, UserSends(t, p) PROVE PubsOK'
  BY <1>1, <1>8 DEF UserSends
<1>9. ASSUME NEW b \in {0, 1}, OthersSwitch(b) PROVE PubsOK'
  BY <1>1, <1>9 DEF OthersSwitch, mqttOwn
<1>. QED
  BY <1>2, <1>3, <1>4, <1>5, <1>6, <1>7, <1>8, <1>9 DEF Next, LoopTask

-----------------------------------------------------------------------------
(* The connection.                                                         *)

ConnInv == ClientOK /\ TodoOK /\ SetUpSoFar

\* Nothing of the connection changes but where the loop task is, which is not
\* in the middle of connect.
LEMMA PassGoesOn ==
  ASSUME ConnInv, pc # "setup", pc' \in {"idle", "rest", "call", "publish", "ha"},
         UNCHANGED <<mqttHa, client, session, subs, online, inbox>>,
         isConnected' = isConnected, missed' \in BOOLEAN
  PROVE  ConnInv'
<1>1. ClientOK'
  BY DEF ConnInv, ClientOK, client
<1>2. SetUp' = SetUp
  BY DEF SetUp
<1>3. TodoOK' /\ SetUpSoFar'
  BY <1>2 DEF ConnInv, TodoOK, SetUpSoFar, client
<1>. QED
  BY <1>1, <1>3 DEF ConnInv

\* The connection is broken, or closed, and the rest as it was.
LEMMA PathGone ==
  ASSUME ConnInv, path' = FALSE, connected' \in BOOLEAN, inbox' = <<>>, isConnected' \in BOOLEAN,
         UNCHANGED <<mqttHa, session, subs, online>>, missed' \in BOOLEAN,
         \/ UNCHANGED <<pc, todo>>
         \/ pc' \in {"rest", "ha"} /\ todo' = <<>>
  PROVE  ConnInv'
<1>1. ClientOK'
  <2>1. inbox' \in Seq([topic : Topics, payload : Payloads \union {"stop"}]) /\ Len(inbox') = 0
    OBVIOUS
  <2>2. pc' \in {"idle", "rest", "call", "setup", "publish", "ha"}
    BY DEF ConnInv, ClientOK
  <2>3. \A i \in 1 .. Len(inbox') : inbox'[i].topic = Fan => inbox'[i].payload \in Payloads
    BY <2>1
  <2>. QED
    BY <2>1, <2>2, <2>3 DEF ConnInv, ClientOK
<1>2. SetUp' = SetUp /\ Len(SetUp) \in Nat
  BY SetUpSteps DEF SetUp, ConnInv, ClientOK
<1>3. TodoOK'
  <2>1. CASE UNCHANGED <<pc, todo>>
    BY <1>2, <2>1 DEF ConnInv, TodoOK
  <2>2. CASE pc' \in {"rest", "ha"} /\ todo' = <<>>
    <3>1. todo' \in Seq(SetUpCalls) /\ Len(todo') = 0
      BY <2>2
    <3>. QED
      BY <1>2, <2>2, <3>1 DEF TodoOK
  <2>. QED
    BY <2>1, <2>2
<1>4. SetUpSoFar'
  BY DEF SetUpSoFar
<1>. QED
  BY <1>1, <1>3, <1>4 DEF ConnInv

\* Only what has come in changes, or nothing.
LEMMA OnlyInbox ==
  ASSUME ConnInv, UNCHANGED <<pc, mqttHa, client, session, subs, online, missed>>,
         isConnected' \in BOOLEAN, path => isConnected',
         inbox' \in Seq([topic : Topics, payload : Payloads \union {"stop"}]),
         \A i \in 1 .. Len(inbox') : inbox'[i].topic = Fan => inbox'[i].payload \in Payloads
  PROVE  ConnInv'
<1>1. ClientOK'
  BY DEF ConnInv, ClientOK, client
<1>2. SetUp' = SetUp
  BY DEF SetUp
<1>3. TodoOK' /\ SetUpSoFar'
  BY <1>2 DEF ConnInv, TodoOK, SetUpSoFar, client
<1>. QED
  BY <1>1, <1>3 DEF ConnInv

LEMMA ConnectKeeps ==
  ASSUME ConnInv, ConnectSucceeds
  PROVE  ConnInv'
<1>0. mqttHa \in BOOLEAN /\ UNCHANGED <<mqttHa, isConnected, inbox, missed>>
  BY DEF ConnInv, ClientOK, ConnectSucceeds, wifiVars, network
<1>1. SetUp' = SetUp
  BY <1>0 DEF SetUp
<1>2. /\ SetUp \in Seq(SetUpCalls) /\ Len(SetUp) \in {2, 5}
  BY <1>0, SetUpSteps
<1>3. todo' = SetUp /\ pc' = "setup"
  BY DEF ConnectSucceeds, GoTo
<1>4. todo' # <<>>
  BY <1>2, <1>3
<1>5. TodoOK'
  BY <1>1, <1>2, <1>3, <1>4 DEF TodoOK
<1>6. SetUpSoFar'
  BY <1>1, <1>2, <1>3 DEF SetUpSoFar, ConnectSucceeds
<1>7. ClientOK'
  BY <1>0, <1>3 DEF ConnectSucceeds, ConnInv, ClientOK
<1>. QED
  BY <1>5, <1>6, <1>7 DEF ConnInv

LEMMA SetUpKeeps ==
  ASSUME ConnInv, SetUpStep
  PROVE  ConnInv'
<1> DEFINE n == Len(todo)
<1> DEFINE m == Len(SetUp)
<1> DEFINE next == Head(todo)
<1>0. mqttHa \in BOOLEAN /\ UNCHANGED <<mqttHa, isConnected, inbox, missed, connected, path, session>>
  BY DEF ConnInv, ClientOK, SetUpStep, wifiVars, network
<1>1. SetUp' = SetUp
  BY <1>0 DEF SetUp
<1>2. /\ todo \in Seq(SetUpCalls) /\ todo # <<>> /\ n <= m
      /\ \A i \in 1 .. n : todo[i] = SetUp[m - n + i]
  BY DEF SetUpStep, ConnInv, TodoOK
<1>3. m = IF mqttHa THEN 5 ELSE 2
  BY <1>0, SetUpSteps
<1>4. /\ n \in 1 .. m
      /\ todo' = Tail(todo) /\ todo' \in Seq(SetUpCalls) /\ Len(todo') = n - 1
      /\ \A i \in 1 .. n - 1 : todo'[i] = todo[i + 1]
      /\ next = todo[1]
  BY <1>2, <1>3 DEF SetUpStep
<1> HIDE DEF n, m, next
<1>5. next = SetUp[m - n + 1]
  BY <1>2, <1>4
<1>6. pc' = "setup" <=> n # 1
  BY DEF SetUpStep, AfterSetUp, AfterConnect, n
<1>7. todo' = <<>> <=> n = 1
  BY <1>4
<1>8. TodoOK'
  <2>1. ASSUME NEW i \in 1 .. n - 1 PROVE todo'[i] = SetUp[m - (n - 1) + i]
    <3>1. todo'[i] = todo[i + 1] /\ i + 1 \in 1 .. n
      BY <1>4
    <3>2. todo[i + 1] = SetUp[m - n + (i + 1)]
      BY <1>2, <3>1
    <3>3. m - n + (i + 1) = m - (n - 1) + i
      BY <1>3, <1>4
    <3>. QED
      BY <3>1, <3>2, <3>3
  <2>2. n - 1 <= m
    BY <1>2, <1>3, <1>4
  <2>. QED
    BY <1>1, <1>4, <1>6, <1>7, <2>1, <2>2 DEF TodoOK, m
<1>9. SetUpSoFar'
  <2> SUFFICES ASSUME path
               PROVE  /\ session
                      /\ subs' = IF m - (n - 1) = 0 THEN {}
                                 ELSE IF m - (n - 1) < 4 THEN {Command_} ELSE {Command_, Fan}
                      /\ m - (n - 1) >= 2 => online' = "true"
    BY <1>0, <1>1, <1>4 DEF SetUpSoFar, m
  <2>1. /\ session
        /\ subs = IF m - n = 0 THEN {} ELSE IF m - n < 4 THEN {Command_} ELSE {Command_, Fan}
        /\ m - n >= 2 => online = "true"
    BY DEF ConnInv, SetUpSoFar, m, n
  <2>2. /\ subs' = IF next \in {Command_, Fan} THEN subs \union {next} ELSE subs
        /\ online' = IF next = "/online" THEN "true" ELSE online
    BY DEF SetUpStep, next
  <2>3. m - n \in 0 .. 4 /\ m - (n - 1) = m - n + 1
    BY <1>3, <1>4
  <2>4. /\ m - n = 0 => next = Command_
        /\ m - n = 1 => next = "/online"
        /\ m - n = 2 => next = Command_
        /\ m - n = 3 => next = Fan
        /\ m - n = 4 => next = "discovery"
    BY <1>0, <1>3, <1>4, <1>5, SetUpSteps
  <2>5. Command_ # Fan /\ "/online" \notin {Command_, Fan} /\ "discovery" \notin {Command_, Fan}
    BY DEF Command_, Fan
  <2>. QED
    BY <2>1, <2>2, <2>3, <2>4, <2>5
<1>10. ClientOK'
  <2>1. pc' \in {"ha", "publish", "setup"}
    BY DEF SetUpStep, AfterSetUp, AfterConnect
  <2>2. subs' \subseteq Topics /\ online' \in {"unknown", "true", "false"}
    BY DEF SetUpStep, ConnInv, ClientOK, Topics
  <2>. QED
    BY <1>0, <2>1, <2>2 DEF ConnInv, ClientOK
<1>. QED
  BY <1>8, <1>9, <1>10 DEF ConnInv
LEMMA ConnStep == IInv /\ [Next]_vars => ConnInv'
<1> SUFFICES ASSUME IInv, [Next]_vars PROVE ConnInv'
  OBVIOUS
<1>0. ConnInv /\ ClientOK /\ TodoOK
  BY DEF IInv, ConnInv
<1>1. isConnected' \in BOOLEAN
  BY WifiStep DEF WifiTypeOK
<1>2. /\ inbox \in Seq([topic : Topics, payload : Payloads \union {"stop"}])
      /\ \A i \in 1 .. Len(inbox) : inbox[i].topic = Fan => inbox[i].payload \in Payloads
      /\ missed \in BOOLEAN /\ connected \in BOOLEAN /\ path \in BOOLEAN
      /\ isConnected \in BOOLEAN /\ (path => isConnected)
  BY <1>0 DEF ClientOK, IInv, WifiTypeOK
<1>3. ASSUME UNCHANGED <<pc, mqttHa, client, session, subs, online, missed, inbox, network>>
      PROVE  ConnInv'
  BY <1>0, <1>1, <1>2, <1>3, OnlyInbox DEF network
<1>4. CASE UNCHANGED mqttOwn /\ UNCHANGED network
  BY <1>3, <1>4 DEF mqttOwn, broker
<1>5. CASE Wifi \/ Network
  <2>1. /\ path' = (path /\ isConnected')
        /\ inbox' = IF path' THEN inbox ELSE <<>>
        /\ UNCHANGED <<mqttHa, pc, connected, todo, session, subs, online, missed>>
    BY <1>5 DEF Wifi, Network
  <2>2. CASE path'
    <3>1. path /\ isConnected' /\ path' = path /\ inbox' = inbox
      BY <1>1, <1>2, <2>1, <2>2
    <3>. QED
      BY <1>0, <1>1, <1>2, <2>1, <3>1, OnlyInbox DEF client
  <2>3. CASE ~path'
    <3>1. path' = FALSE /\ inbox' = <<>>
      BY <1>1, <1>2, <2>1, <2>3
    <3>. QED
      BY <1>0, <1>1, <1>2, <2>1, <3>1, PathGone
  <2>. QED
    BY <2>2, <2>3
<1>6. CASE StillConnected \/ Disconnected \/ ConnectFails \/ Publish \/ Ask \/ AskVersion
              \/ PublishNothing \/ Rest
  <2>1. pc # "setup" /\ pc' \in {"idle", "rest", "call", "publish", "ha"}
    BY <1>6 DEF StillConnected, Disconnected, ConnectFails, Publish, Ask, AskVersion,
                PublishNothing, Rest, GoTo, AfterConnect
  <2>2. UNCHANGED <<mqttHa, client, session, subs, online, inbox, missed, isConnected>>
    BY <1>6 DEF StillConnected, Disconnected, ConnectFails, Publish, Ask, AskVersion,
                PublishNothing, Rest, broker, wifiVars, network
  <2>. QED
    BY <1>0, <1>2, <2>1, <2>2, PassGoesOn
<1>7. CASE HaLoop
  <2>1. missed' \in BOOLEAN
    BY <1>7 DEF HaLoop
  <2>2. /\ pc # "setup" /\ pc' = "rest"
        /\ UNCHANGED <<mqttHa, client, session, subs, online, inbox, isConnected>>
    BY <1>7 DEF HaLoop, GoTo, broker, wifiVars, network
  <2>. QED
    BY <1>0, <2>1, <2>2, PassGoesOn
<1>8. CASE ConnectSucceeds
  BY <1>0, <1>8, ConnectKeeps
<1>9. CASE SetUpStep
  BY <1>0, <1>9, SetUpKeeps
<1>10. CASE SetUpFails \/ PublishFails \/ HaLoopFails
  <2>1. Close /\ pc' \in {"rest", "ha"} /\ UNCHANGED <<mqttHa, session, subs, online, missed>>
    BY <1>10 DEF SetUpFails, PublishFails, HaLoopFails, GoTo
  <2>2. path' = FALSE /\ connected' = FALSE /\ todo' = <<>> /\ inbox' = <<>>
    BY <2>1 DEF Close
  <2>. QED
    BY <1>0, <1>1, <1>2, <2>1, <2>2, PathGone
<1>11. CASE Breaks
  BY <1>0, <1>1, <1>2, <1>11, PathGone DEF Breaks
<1>12. CASE Deliver
  <2>1. /\ inbox # <<>> /\ inbox' = Tail(inbox)
        /\ UNCHANGED <<pc, mqttHa, client, session, subs, online, missed, isConnected>>
    BY <1>12 DEF Deliver, wifiVars, network
  <2>2. /\ inbox' \in Seq([topic : Topics, payload : Payloads \union {"stop"}])
        /\ \A i \in 1 .. Len(inbox') : inbox'[i] = inbox[i + 1] /\ i + 1 \in 1 .. Len(inbox)
    BY <1>2, <2>1
  <2>3. \A i \in 1 .. Len(inbox') : inbox'[i].topic = Fan => inbox'[i].payload \in Payloads
    BY <1>2, <2>2
  <2>. QED
    BY <1>0, <1>1, <1>2, <2>1, <2>2, <2>3, OnlyInbox
<1>13. ASSUME NEW t \in Topics, NEW p \in Payloads \union {"stop"}, UserSends(t, p),
              t = Fan => p \in Payloads
       PROVE  ConnInv'
  <2> DEFINE m == [topic |-> t, payload |-> p]
  <2>1. UNCHANGED <<pc, mqttHa, client, session, subs, online, missed, isConnected>>
    BY <1>13 DEF UserSends, wifiVars, network
  <2>2. m \in [topic : Topics, payload : Payloads \union {"stop"}] /\ m.topic = t /\ m.payload = p
    OBVIOUS
  <2>3. inbox' = inbox \/ inbox' = Append(inbox, m)
    BY <1>13 DEF UserSends
  <2> HIDE DEF m
  <2>4. inbox' \in Seq([topic : Topics, payload : Payloads \union {"stop"}])
    <3> DEFINE M == [topic : Topics, payload : Payloads \union {"stop"}]
    <3>1. inbox \in Seq(M) /\ m \in M
      BY <1>2, <2>2
    <3> HIDE DEF M
    <3>2. inbox' \in Seq(M)
      BY <2>3, <3>1
    <3>. QED
      BY <3>2 DEF M
  <2>5. ASSUME NEW i \in 1 .. Len(inbox'), inbox'[i].topic = Fan
        PROVE  inbox'[i].payload \in Payloads
    <3>1. CASE inbox' = inbox
      BY <1>2, <2>5, <3>1
    <3>2. CASE inbox' = Append(inbox, m)
      <4>1. (i \in 1 .. Len(inbox) /\ inbox'[i] = inbox[i]) \/ inbox'[i] = m
        BY <1>2, <2>2, <3>2
      <4>. QED
        BY <1>2, <1>13, <2>2, <2>5, <4>1
    <3>. QED
      BY <2>3, <3>1, <3>2
  <2>. QED
    BY <1>0, <1>1, <1>2, <2>1, <2>4, <2>5, OnlyInbox
<1>14. CASE ClientNotices
  <2>1. /\ pc # "setup" /\ ~path /\ connected' = FALSE
        /\ UNCHANGED <<pc, mqttHa, path, todo, session, subs, online, inbox, missed, isConnected>>
    BY <1>14 DEF ClientNotices, broker, wifiVars, network
  <2>2. ClientOK'
    BY <1>0, <2>1 DEF ClientOK
  <2>3. SetUp' = SetUp
    BY <2>1 DEF SetUp
  <2>4. TodoOK' /\ SetUpSoFar'
    BY <1>0, <2>1, <2>3 DEF TodoOK, SetUpSoFar
  <2>. QED
    BY <2>2, <2>4 DEF ConnInv
<1>15. CASE BrokerNotices
  <2>1. /\ ~path /\ session' = FALSE /\ subs' = {} /\ online' = "false"
        /\ UNCHANGED <<pc, mqttHa, connected, path, todo, inbox, missed, isConnected>>
    BY <1>15 DEF BrokerNotices, client, wifiVars, network
  <2>2. ClientOK'
    BY <1>0, <2>1 DEF ClientOK
  <2>3. SetUp' = SetUp
    BY <2>1 DEF SetUp
  <2>4. TodoOK' /\ SetUpSoFar'
    BY <1>0, <2>1, <2>3 DEF TodoOK, SetUpSoFar
  <2>. QED
    BY <2>2, <2>4 DEF ConnInv
<1>16. CASE Tick
  <2>0. /\ pc \in {"rest", "call", "setup"} /\ pc' = IF pc = "rest" THEN "idle" ELSE pc
        /\ UNCHANGED <<mqttHa, client, session, subs, online, inbox, missed, isConnected, network>>
    BY <1>16 DEF Tick, broker, network
  <2>1. CASE pc = "setup"
    <3>1. pc' = pc
      BY <2>0, <2>1
    <3>. QED
      BY <1>3, <2>0, <3>1
  <2>2. CASE pc # "setup"
    <3>1. pc' \in {"idle", "rest", "call", "publish", "ha"}
      BY <2>0, <2>2
    <3>. QED
      BY <1>0, <1>2, <2>0, <2>2, <3>1, PassGoesOn
  <2>. QED
    BY <2>1, <2>2
<1>17. CASE RouterPrints
  BY <1>3, <1>17 DEF RouterPrints, broker
<1>18. ASSUME NEW k \in Kinds, RouterPolls(k) \/ RobotAnswers(k) PROVE ConnInv'
  BY <1>3, <1>18 DEF RouterPolls, RobotAnswers, broker, wifiVars
<1>19. CASE OthersUse \/ OthersDone \/ UNCHANGED vars
  BY <1>4, <1>19 DEF OthersUse, OthersDone, vars, wifiVars
<1>20. ASSUME NEW b \in {0, 1}, OthersSwitch(b) PROVE ConnInv'
  BY <1>4, <1>20 DEF OthersSwitch, wifiVars
<1>21. ASSUME NEW p \in Payloads, UserSends(Fan, p) PROVE ConnInv'
  BY <1>13, <1>21 DEF Topics
<1>22. CASE UserSends(Command_, "stop")
  <2>1. Command_ # Fan
    BY DEF Command_, Fan
  <2>. QED
    BY <1>13, <1>22, <2>1 DEF Topics
<1>. QED
  BY <1>5, <1>6, <1>7, <1>8, <1>9, <1>10, <1>11, <1>12, <1>14, <1>15, <1>16, <1>17, <1>18, <1>19,
     <1>20, <1>21, <1>22 DEF Next, LoopTask

-----------------------------------------------------------------------------
(* The theorems.                                                           *)

LEMMA IInvInit == Init => IInv
<1> SUFFICES ASSUME Init PROVE IInv
  OBVIOUS
<1>1. PICK s \in Scenarios :
        /\ wifi = s.wifi /\ mqttHa = s.ha /\ kind = s.kind
        /\ inRange = s.inRange /\ faults = s.faults /\ messages = s.messages
  BY DEF Init
<1>2. /\ wifi \in WifiSettings /\ mqttHa \in BOOLEAN /\ kind \in Kinds \union {"none"}
      /\ inRange \in BOOLEAN /\ faults \in Nat /\ messages \in Nat
  BY <1>1, ScenariosAssumption
<1>3. WifiTypeOK
  <2>1. mode \in Modes /\ radio \in Modes
    BY <1>2 DEF Init, WifiInit, ModeOf, WifiSettings, Modes
  <2>2. 0 \in 0 .. Longest
    BY TimeoutsAssumption DEF Longest
  <2>. QED
    BY <1>2, <2>1, <2>2 DEF Init, WifiInit, WifiTypeOK
<1>4. HaTypeOK
  <2>1. slot \in Seq(Commands) /\ Len(slot) <= 1
    BY DEF Init, HaInit
  <2>2. /\ desired \in [mower : {0, 1}, speed : {0} \union Speeds]
        /\ robotState \in RobotStates
        /\ commandSpeed \in {Nothing} \union Speeds /\ commandMower \in {Nothing, 0, 1}
        /\ lastRequest \in {"none"} \union Payloads
        /\ busy \in BOOLEAN /\ raced \in BOOLEAN
    BY RobotStatesAssumption DEF Init, HaInit
  <2>3. reported \in [state : RobotStates, mower : {0, 1}, speed : {0} \union Speeds]
    BY <2>2 DEF Init, HaInit, Now
  <2>4. view \in [state : RobotStates, fan : {"off"} \union DOMAIN SpeedOf]
    BY <2>2 DEF Init, HaInit, Report, Now, FanSpeed
  <2>. QED
    BY <1>2, <2>1, <2>2, <2>3, <2>4 DEF HaTypeOK
<1>5. ClientOK
  <2>1. inbox \in Seq([topic : Topics, payload : Payloads \union {"stop"}]) /\ Len(inbox) = 0
    BY DEF Init
  <2>2. /\ pc = "idle" /\ ~connected /\ ~path /\ ~session /\ ~missed
        /\ subs = {} /\ online = "unknown"
    BY DEF Init
  <2>3. /\ connected \in BOOLEAN /\ path \in BOOLEAN
        /\ session \in BOOLEAN /\ missed \in BOOLEAN
    BY DEF Init
  <2>. QED
    BY <1>2, <2>1, <2>2, <2>3 DEF ClientOK
<1>6. TimesOK
  <2>1. 0 \in 0 .. BackoffMax
    BY BackoffAssumption
  <2>2. /\ 0 \in 0 .. ReconnectWait /\ 0 \in 0 .. RequestInterval
        /\ 0 \in 0 .. PublishInterval + 1 /\ 0 \in 0 .. PublishInterval
    BY IntervalsAssumption
  <2>3. seenConnected \in BOOLEAN /\ isNew \in BOOLEAN /\ heard \subseteq Kinds
    BY DEF Init
  <2>. QED
    BY <1>2, <2>1, <2>2, <2>3 DEF Init, TimesOK
<1>7. TodoOK
  <2>1. todo \in Seq(SetUpCalls) /\ Len(todo) = 0
    BY DEF Init
  <2>. QED
    BY <1>2, <2>1, SetUpSteps DEF Init, TodoOK
<1>8. SetUpSoFar /\ RequestUnderway
  BY SpeedsAre DEF Init, HaInit, SetUpSoFar, RequestUnderway
<1>. QED
  BY <1>3, <1>4, <1>5, <1>6, <1>7, <1>8 DEF IInv

LEMMA Invariant == Safety => []IInv
<1>1. IInv /\ [Next]_vars => IInv'
  BY HaStep, WifiStep, RetryStep, PubsStep, ConnStep
  DEF IInv, HaInv, ConnInv, RetryOK, PubsOK, TimesOK
<1>. QED
  BY IInvInit, <1>1, PTL DEF Safety

\* Every variable has its type; what remains of connect is always the end of
\* its steps, and nothing remains outside of it (mqtt_adapter.cpp:175-228).
THEOREM TypeCorrect == Safety => []TypeOK
<1>1. IInv => TypeOK
  <2> SUFFICES ASSUME IInv PROVE TypeOK
    OBVIOUS
  <2> DEFINE n == Len(todo)
  <2> DEFINE m == Len(SetUp)
  <2>1. mqttHa \in BOOLEAN
    BY DEF IInv, ClientOK
  <2>2. /\ todo \in Seq(SetUpCalls) /\ n <= m
        /\ \A i \in 1 .. n : todo[i] = SetUp[m - n + i]
    BY DEF IInv, TodoOK
  <2>3. SetUp \in Seq(SetUpCalls) /\ m \in {2, 5}
    BY <2>1, SetUpSteps
  <2>4. n \in 0 .. m
    BY <2>2, <2>3
  <2>5. todo = SubSeq(SetUp, m + 1 - n, m)
    <3> DEFINE s == SubSeq(SetUp, m + 1 - n, m)
    <3> HIDE DEF n
    <3>1. s \in Seq(SetUpCalls) /\ Len(s) = n /\ \A i \in 1 .. n : s[i] = SetUp[m - n + i]
      BY <2>3, <2>4
    <3>2. Len(todo) = n
      BY DEF n
    <3> HIDE DEF s
    <3>3. s = todo
      BY <2>2, <3>1, <3>2
    <3>. QED
      BY <3>3 DEF s
  <2>6. \E k \in 0 .. Len(SetUp) : todo = SubSeq(SetUp, Len(SetUp) + 1 - k, Len(SetUp))
    BY <2>4, <2>5
  <2>. QED
    BY <2>6 DEF IInv, ClientOK, TimesOK, TodoOK, TypeOK
<1>. QED
  BY Invariant, <1>1, PTL

\* A connection that connect has accepted has all its subscriptions and has
\* said "true" on /online, wherever an earlier attempt failed
\* (mqtt_adapter.cpp:175-228).
THEOREM SetUpInWhole == Safety => []SubscribedAndOnline
<1>1. IInv => SubscribedAndOnline
  <2> SUFFICES ASSUME IInv, path, pc # "setup"
               PROVE  session /\ online = "true"
                        /\ subs = {Command_} \union IF mqttHa THEN {Fan} ELSE {}
    BY DEF SubscribedAndOnline
  <2>1. mqttHa \in BOOLEAN /\ todo = <<>>
    BY DEF IInv, ClientOK, TodoOK
  <2>2. Len(SetUp) - Len(todo) = IF mqttHa THEN 5 ELSE 2
    BY <2>1, SetUpSteps
  <2> DEFINE done == Len(SetUp) - Len(todo)
  <2>0. /\ session
        /\ subs = IF done = 0 THEN {} ELSE IF done < 4 THEN {Command_} ELSE {Command_, Fan}
        /\ done >= 2 => online = "true"
    BY DEF IInv, SetUpSoFar
  <2> HIDE DEF done
  <2>3. /\ session /\ online = "true"
        /\ subs = IF mqttHa THEN {Command_, Fan} ELSE {Command_}
    <3>1. CASE mqttHa
      <4>1. done = 5
        BY <2>2, <3>1 DEF done
      <4>. QED
        BY <2>0, <3>1, <4>1
    <3>2. CASE ~mqttHa
      <4>1. done = 2
        BY <2>2, <3>2 DEF done
      <4>. QED
        BY <2>0, <3>2, <4>1
    <3>. QED
      BY <2>1, <3>1, <3>2
  <2>4. {Command_, Fan} = {Command_} \union {Fan} /\ {Command_} = {Command_} \union {}
    OBVIOUS
  <2>. QED
    BY <2>1, <2>3, <2>4
<1>. QED
  BY Invariant, <1>1, PTL

\* What Home Assistant asked last is what the mower does when nothing is
\* pending any more, whoever kept the router busy meanwhile (mqtt_ha.cpp:17-23,
\* 97-126).
THEOREM LastRequestIsKept == Safety => []LastRequestWins
<1>1. IInv => LastRequestWins
  <2> SUFFICES ASSUME IInv, ~Pending, slot = <<>>, ~raced,
                      lastRequest \in {"off"} \union DOMAIN SpeedOf
               PROVE  FanSpeed(desired) = lastRequest
    BY DEF LastRequestWins
  <2>1. MowerToBe = desired.mower /\ SpeedToBe = desired.speed
    BY DEF Pending, MowerToBe, SpeedToBe
  <2>2. CASE lastRequest = "off"
    BY <2>1, <2>2 DEF IInv, RequestUnderway, FanSpeed
  <2>3. CASE lastRequest \in DOMAIN SpeedOf
    BY <2>1, <2>3, SpeedReported DEF IInv, RequestUnderway
  <2>. QED
    BY <2>2, <2>3
<1>. QED
  BY Invariant, <1>1, PTL
=============================================================================
