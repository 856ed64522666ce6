-------------------------------- MODULE Mqtt --------------------------------
(***************************************************************************)
(* MqttAdapter (mqtt_adapter.cpp, backoff.cpp), with the WiFi and Home     *)
(* Assistant adapters: the passes of the loop task that keep the modem     *)
(* connected to a broker, publish what it knows of the robot and take      *)
(* commands.                                                               *)
(*                                                                         *)
(* Broker, network and the client library are external: each call into the *)
(* library may fail and then closes the connection; a connection may break *)
(* at any time, and either end notices when it does.  A pass takes no      *)
(* time: mqttAdapter.loop(millis()) reads the clock once.                  *)
(***************************************************************************)
EXTENDS Wifi, HomeAssistant

CONSTANTS
  Scenarios,         \* settings.wifi, settings.mqtt.ha, the publication looked
                     \* at if there are any, and what may happen around the modem
  ReconnectWait,     \* 1000 ms after the connection was lost
  BackoffMin, BackoffMax, BackoffFactor,
  PublishInterval,   \* of the state and the statistics
  PropsInterval,
  RequestInterval    \* 1000 ms between two polls

Kinds == {"state", "props", "stats"}
ASSUME ScenariosAssumption ==
  Scenarios \subseteq [wifi : WifiSettings, ha : BOOLEAN, kind : Kinds \union {"none"},
                      inRange : BOOLEAN, faults : Nat, messages : Nat]
ASSUME BackoffAssumption ==
  /\ BackoffMin \in Nat /\ BackoffMax \in Nat /\ BackoffFactor \in Nat
  /\ BackoffMin <= BackoffMax
ASSUME IntervalsAssumption ==
  /\ ReconnectWait \in Nat /\ PublishInterval \in Nat \ {0}
  /\ PropsInterval \in Nat \ {0} /\ RequestInterval \in Nat

VARIABLES
  mqttHa,        \* settings.mqtt.ha
  pc,            \* the next call of the pass
  todo,          \* what remains of connect after the connection is made
  connected,     \* client.connected()
  path,          \* the connection is intact
  lastValue,     \* Backoff::last_value, 0 if not active
  untilRetry,    \* next_time of connect, as the time until then
  sinceLost,     \* time since first_disconnected
  seenConnected, \* first_disconnected < last_connected
  session,       \* the broker's idea of the connection
  subs,          \* what it is subscribed to
  online,        \* history: the last message seen on /online
  inbox,         \* sent by the broker, not yet delivered
  missed,        \* history: a report was sent into a broken connection
  kind,          \* the publication looked at, or "none" if there are none
  heard,         \* which of _state, _props and _stats the robot has ever sent
  age,           \* time since the timestamp
  wait,          \* next_time of the publication
  sinceAsked,    \* time since last_time of the poll
  isNew          \* timestamp # last_published

client  == <<connected, path, todo>>
retry   == <<lastValue, untilRetry, sinceLost, seenConnected>>
broker  == <<session, subs, online, inbox>>
pubs    == <<kind, heard, age, wait, sinceAsked, isNew>>
mqttOwn == <<mqttHa, pc, client, retry, broker, missed, pubs>>
vars    == <<wifiVars, haVars, mqttOwn>>

Command_ == "/command"
Fan == "/ha/set_fan_speed"

Init ==
  /\ \E s \in Scenarios :
       /\ wifi = s.wifi /\ mqttHa = s.ha /\ kind = s.kind
       /\ inRange = s.inRange /\ faults = s.faults /\ messages = s.messages
  /\ WifiInit /\ HaInit
  /\ pc = "idle"
  /\ todo = <<>>
  /\ connected = FALSE /\ path = FALSE
  /\ lastValue = 0 /\ untilRetry = 0 /\ sinceLost = 0 /\ seenConnected = FALSE
  /\ session = FALSE /\ subs = {} /\ online = "unknown" /\ inbox = <<>>
  /\ missed = FALSE
  /\ heard = {}
  /\ age = 0 /\ wait = 0 /\ sinceAsked = 0
  /\ isNew = FALSE

GoTo(from, to) == pc = from /\ pc' = to

\* A call into the client library fails, and closes the connection.
Fails == path => faults > 0

Close ==
  /\ Fails
  /\ faults' = IF path THEN faults - 1 ELSE faults
  /\ connected' = FALSE
  /\ path' = FALSE
  /\ todo' = <<>>
  /\ inbox' = <<>>

-----------------------------------------------------------------------------
(* The rest of the loop task, in any order with the steps of MQTT.         *)

Wifi ==
  /\ LoopWifi
  /\ path' = (path /\ isConnected')
  /\ inbox' = IF path' THEN inbox ELSE <<>>
  /\ UNCHANGED <<haVars, mqttHa, pc, connected, todo, retry, session, subs, online, missed, pubs>>

Polled == kind \in {"state", "stats"}

\* drainRx.  The version starts the polls.
Answer(k) ==
  /\ heard' = IF kind = k \/ (kind # "none" /\ k = "props") THEN heard \union {k} ELSE heard
  /\ age' = IF k = kind THEN 0 ELSE age
  /\ isNew' = (isNew \/ (k = kind /\ ~Polled))
  /\ sinceAsked' = IF k = "props" /\ k \notin heard /\ Polled THEN RequestInterval ELSE sinceAsked
  /\ IF k = "state" THEN robotState' \in RobotStates \ {0} ELSE UNCHANGED robotState

PollOf == [state |-> "status", props |-> "version", stats |-> "stats"]
IsPoll(c) == \E k \in Kinds : c.kind = PollOf[k]

\* A command, or a poll the robot does not answer.
RouterPrints ==
  /\ Prints
  /\ IsPoll(slot[1]) => faults > 0
  /\ faults' = IF IsPoll(slot[1]) THEN faults - 1 ELSE faults
  /\ UNCHANGED <<wifi, adapter, network, busy, robotState, ha, view, lastRequest, raced, messages,
                 mqttHa, pc, client, retry, broker, missed, pubs>>

RouterPolls(k) ==
  /\ slot = <<Command(PollOf[k], 0)>>
  /\ Prints
  /\ Answer(k)
  /\ UNCHANGED <<wifiVars, busy, ha, view, lastRequest, raced, messages,
                 mqttHa, pc, client, retry, broker, missed, kind, wait>>

\* To a poll of another client, or late.
RobotAnswers(k) ==
  /\ messages > 0
  /\ messages' = messages - 1
  /\ Answer(k)
  /\ UNCHANGED <<wifiVars, router, desired, ha, view, lastRequest, raced,
                 mqttHa, pc, client, retry, broker, missed, kind, wait>>

-----------------------------------------------------------------------------
(* client.loop, and onMqttMessage                                          *)

\* client.loop delivers what has come.  A command the router refuses is dropped.
OnMqttMessage(m) ==
  IF m.topic = Fan
  THEN OnFanSpeedMessage(m.payload) /\ UNCHANGED slot
  ELSE /\ slot' = IF m.payload \in {"start", "stop", "dock"} /\ Accepts
                  THEN <<Command(m.payload, 0)>> ELSE slot
       /\ UNCHANGED <<commandSpeed, commandMower, lastRequest, raced>>

\* Also while subscribe waits for the broker's answer.
Deliver ==
  /\ pc = "idle" \/ (pc = "setup" /\ Head(todo) \in {Command_, Fan})
  /\ connected /\ path /\ inbox # <<>>
  /\ inbox' = Tail(inbox)
  /\ OnMqttMessage(Head(inbox))
  /\ UNCHANGED <<wifiVars, busy, desired, robotState, reported, view, messages,
                 mqttHa, pc, client, retry, session, subs, online, missed, pubs>>

\* The keep alive, or another call, finds the connection broken.
ClientNotices ==
  /\ pc # "setup"
  /\ connected /\ ~path
  /\ connected' = FALSE
  /\ UNCHANGED <<wifiVars, haVars, mqttHa, pc, path, todo, retry, broker, missed, pubs>>

-----------------------------------------------------------------------------
(* connect                                                                 *)

\* Mutant of BackoffNext: one factor too far.
BackoffNextUnbounded ==
  IF lastValue = 0 THEN BackoffMin ELSE lastValue * BackoffFactor

BackoffNext ==
  IF lastValue = 0 THEN BackoffMin
  ELSE IF lastValue * BackoffFactor > BackoffMax THEN BackoffMax
  ELSE lastValue * BackoffFactor

AfterConnect == IF kind = "none" THEN "ha" ELSE "publish"

StillConnected ==
  /\ GoTo("idle", AfterConnect)
  /\ connected /\ inbox = <<>>
  /\ seenConnected' = TRUE
  /\ lastValue' = 0
  /\ UNCHANGED <<wifiVars, haVars, mqttHa, client, untilRetry, sinceLost, broker, missed, pubs>>

\* Not for some time after the connection was lost, nor before the back-off
\* allows it.
Disconnected ==
  LET lost == IF seenConnected THEN 0 ELSE sinceLost
      may  == lost >= ReconnectWait /\ untilRetry = 0
  IN
  /\ GoTo("idle", IF may THEN "call" ELSE "rest")
  /\ ~connected
  /\ sinceLost' = lost
  /\ seenConnected' = FALSE
  /\ lastValue' = IF may THEN BackoffNext ELSE lastValue
  /\ untilRetry' = IF may THEN BackoffNext ELSE untilRetry
  /\ UNCHANGED <<wifiVars, haVars, mqttHa, client, broker, missed, pubs>>

\* Mutant of SetUp: back on line only the first time.
SetUpOnce ==
  <<Command_>> \o (IF online = "unknown" THEN <<"/online">> ELSE <<>>)
    \o IF mqttHa THEN <<Command_, Fan, "discovery">> ELSE <<>>

\* what follows client.connect
SetUp ==
  <<Command_, "/online">> \o IF mqttHa THEN <<Command_, Fan, "discovery">> ELSE <<>>

\* client.connect, with the will.  A session the broker still holds ends, and
\* its will is published.
ConnectSucceeds ==
  /\ GoTo("call", "setup")
  /\ isConnected
  /\ connected' = TRUE
  /\ path' = TRUE
  /\ todo' = SetUp
  /\ session' = TRUE
  /\ subs' = {}
  /\ online' = IF session THEN "false" ELSE online
  /\ UNCHANGED <<wifiVars, haVars, mqttHa, retry, inbox, missed, pubs>>

ConnectFails ==
  /\ GoTo("call", "rest")
  /\ isConnected => faults > 0
  /\ faults' = IF isConnected THEN faults - 1 ELSE faults
  /\ UNCHANGED <<wifi, adapter, network, haVars, mqttHa, client, retry, broker, missed, pubs>>

AfterSetUp == IF Len(todo) = 1 THEN AfterConnect ELSE "setup"

\* subscribe waits for the broker's answer; publish does not.
SetUpStep ==
  LET next == Head(todo) IN
  /\ pc = "setup"
  /\ pc' = AfterSetUp
  /\ path \/ next \notin {Command_, Fan}
  /\ todo' = Tail(todo)
  /\ subs' = IF path /\ next \in {Command_, Fan} THEN subs \union {next} ELSE subs
  /\ online' = IF path /\ next = "/online" THEN "true" ELSE online
  /\ UNCHANGED <<wifiVars, haVars, mqttHa, connected, path, retry, session, inbox, missed, pubs>>

SetUpFails ==
  /\ GoTo("setup", "rest")
  /\ Close
  /\ UNCHANGED <<wifi, adapter, network, haVars, mqttHa, retry, session, subs, online, missed, pubs>>

-----------------------------------------------------------------------------
(* publishState, publishProps or publishStats: one of them is looked at,   *)
(* the others are like other users of router and client.                   *)

\* The state and the properties are not published before the robot has sent
\* them; the statistics are, as long as they count as fresh.
Due ==
  IF kind = "props" THEN (isNew \/ wait = 0) /\ kind \in heard
  ELSE wait = 0 /\ age <= PublishInterval /\ (kind = "state" => kind \in heard)

Interval == IF kind = "props" THEN PropsInterval ELSE PublishInterval

Publish ==
  /\ GoTo("publish", "ha")
  /\ Due /\ connected
  /\ wait' = Interval
  /\ isNew' = FALSE
  /\ UNCHANGED <<wifiVars, haVars, mqttHa, client, retry, broker, missed,
                 kind, heard, age, sinceAsked>>

PublishFails ==
  /\ GoTo("publish", "ha")
  /\ Due /\ connected
  /\ Close
  /\ UNCHANGED <<wifi, adapter, network, haVars, mqttHa, retry, session, subs, online, missed, pubs>>

\* Mutant of MayAsk: only until the robot has answered once.
MayAskOnce ==
  /\ Polled /\ wait = 0 /\ kind \notin heard
  /\ sinceAsked >= RequestInterval

MayAsk ==
  /\ Polled /\ wait = 0 /\ age > PublishInterval
  /\ sinceAsked >= RequestInterval

\* requestStatus, requestStats
Ask ==
  /\ GoTo("publish", "ha")
  /\ MayAsk /\ Accepts /\ "props" \in heard
  /\ slot' = <<Command(PollOf[kind], 0)>>
  /\ sinceAsked' = 0
  /\ UNCHANGED <<wifiVars, busy, desired, robotState, ha, view, lastRequest, raced, messages,
                 mqttHa, client, retry, broker, missed, kind, heard, age, wait, isNew>>

\* Before the robot has told its version that is what the modem asks for; an
\* attempt costs its second even if it is refused.
AskVersion ==
  /\ GoTo("publish", "ha")
  /\ MayAsk /\ "props" \notin heard
  /\ slot' = IF Accepts THEN <<Command(PollOf["props"], 0)>> ELSE slot
  /\ sinceAsked' = 0
  /\ UNCHANGED <<wifiVars, busy, desired, robotState, ha, view, lastRequest, raced, messages,
                 mqttHa, client, retry, broker, missed, kind, heard, age, wait, isNew>>

\* Nothing is due, or it is refused.
PublishNothing ==
  /\ GoTo("publish", "ha")
  /\ ~(Due /\ connected)
  /\ MayAsk => "props" \in heard /\ ~Accepts
  /\ UNCHANGED <<wifiVars, haVars, mqttHa, client, retry, broker, missed, pubs>>

-----------------------------------------------------------------------------
(* ha.loop                                                                 *)

HaLoop ==
  /\ GoTo("ha", "rest")
  /\ LoopCommand
  /\ LoopReport(connected, connected /\ path)
  /\ missed' = (missed \/ (connected /\ ~path /\ Now # reported))
  /\ UNCHANGED <<wifiVars, busy, desired, robotState, lastRequest, raced, messages,
                 mqttHa, client, retry, broker, pubs>>

HaLoopFails ==
  /\ GoTo("ha", "rest")
  /\ connected /\ Now # reported
  /\ Close
  /\ LoopCommand
  /\ LoopReport(FALSE, FALSE)
  /\ UNCHANGED <<wifi, adapter, network, busy, desired, robotState, lastRequest, raced, messages,
                 mqttHa, retry, session, subs, online, missed, pubs>>

-----------------------------------------------------------------------------
(* Around the modem.                                                       *)

Less(n) == IF n = 0 THEN 0 ELSE n - 1
More(n, most) == IF n >= most THEN n ELSE n + 1

\* Between two passes, and while a call blocks.
Tick ==
  /\ pc \in {"rest", "call", "setup"}
  /\ pc' = IF pc = "rest" THEN "idle" ELSE pc
  /\ since' = IF Timed THEN More(since, Longest) ELSE since
  /\ untilRetry' = Less(untilRetry)
  /\ sinceLost' = More(sinceLost, ReconnectWait)
  /\ age' = IF ~Polled THEN age ELSE More(age, PublishInterval + 1)
  /\ wait' = Less(wait)
  /\ sinceAsked' = IF ~Polled THEN sinceAsked ELSE More(sinceAsked, RequestInterval)
  /\ UNCHANGED <<wifi, mode, stopped, begun, wasEverConnected, radio, network, faults, haVars,
                 mqttHa, client, lastValue, seenConnected, broker, missed,
                 kind, heard, isNew>>

Rest == GoTo("rest", "idle") /\ UNCHANGED <<wifiVars, haVars, mqttHa, client, retry, broker, missed, pubs>>

Breaks ==
  /\ path
  /\ faults > 0
  /\ faults' = faults - 1
  /\ path' = FALSE
  /\ inbox' = <<>>
  /\ UNCHANGED <<wifi, adapter, network, haVars, mqttHa, pc, connected, todo, retry,
                 session, subs, online, missed, pubs>>

BrokerNotices ==
  /\ session /\ ~path
  /\ session' = FALSE
  /\ subs' = {}
  /\ online' = "false"
  /\ UNCHANGED <<wifiVars, haVars, mqttHa, pc, client, retry, inbox, missed, pubs>>

Network ==
  /\ StationConnects \/ NetworkGone \/ NetworkBack
  /\ path' = (path /\ isConnected')
  /\ inbox' = IF path' THEN inbox ELSE <<>>
  /\ UNCHANGED <<haVars, mqttHa, pc, connected, todo, retry, session, subs, online, missed, pubs>>

\* What nobody is subscribed to is lost.
UserSends(t, p) ==
  /\ messages > 0
  /\ t \in subs
  /\ messages' = messages - 1
  /\ inbox' = IF path THEN Append(inbox, [topic |-> t, payload |-> p]) ELSE inbox
  /\ UNCHANGED <<wifiVars, router, desired, robotState, ha, view, lastRequest, raced,
                 mqttHa, pc, client, retry, session, subs, online, missed, pubs>>

\* The other clients: they keep the router busy, and switch the mower motor.
OthersUse ==
  /\ slot = <<>> /\ ~busy
  /\ messages > 0
  /\ messages' = messages - 1
  /\ busy' = TRUE
  /\ UNCHANGED <<wifiVars, slot, desired, robotState, ha, view, lastRequest, raced, mqttOwn>>

OthersDone ==
  /\ busy
  /\ busy' = FALSE
  /\ UNCHANGED <<wifiVars, slot, desired, robotState, ha, view, lastRequest, raced, messages, mqttOwn>>

OthersSwitch(b) ==
  /\ slot = <<>>
  /\ messages > 0
  /\ messages' = messages - 1
  /\ desired' = [desired EXCEPT !.mower = b]
  /\ lastRequest' = "none"
  /\ UNCHANGED <<wifiVars, router, robotState, ha, view, raced, mqttOwn>>

LoopTask ==
  \/ StillConnected \/ Disconnected
  \/ ConnectSucceeds \/ ConnectFails \/ SetUpStep \/ SetUpFails
  \/ Publish \/ PublishFails \/ Ask \/ AskVersion \/ PublishNothing \/ HaLoop \/ HaLoopFails \/ Rest

Next ==
  \/ Wifi \/ LoopTask \/ RouterPrints \/ Deliver \/ ClientNotices
  \/ \E k \in Kinds : RouterPolls(k) \/ RobotAnswers(k)
  \/ Tick \/ Breaks \/ BrokerNotices \/ Network
  \/ \E p \in Payloads : UserSends(Fan, p)
  \/ UserSends(Command_, "stop")
  \/ OthersUse \/ OthersDone \/ \E b \in {0, 1} : OthersSwitch(b)

Safety == Init /\ [][Next]_vars

\* The loop task runs for ever, time passes, the router prints, the library
\* delivers and finds out about broken connections, other clients' exchanges
\* end.  The radio gets time enough to connect at last.
Fairness ==
  /\ WF_vars(Wifi) /\ WF_vars(LoopTask) /\ SF_vars(Tick)
  /\ WF_vars(RouterPrints \/ \E k \in Kinds : RouterPolls(k))
  /\ WF_vars(Deliver) /\ WF_vars(ClientNotices) /\ WF_vars(OthersDone)
  /\ SF_vars(Network /\ isConnected')
Spec == Safety /\ Fairness

-----------------------------------------------------------------------------
(* Properties.                                                             *)

Topics == {Command_, Fan}
TypeOK ==
  /\ WifiTypeOK /\ HaTypeOK
  /\ mqttHa \in BOOLEAN
  /\ pc \in {"idle", "rest", "call", "setup", "publish", "ha"}
  /\ connected \in BOOLEAN /\ path \in BOOLEAN
  /\ path => connected /\ isConnected
  /\ \E n \in 0 .. Len(SetUp) : todo = SubSeq(SetUp, Len(SetUp) + 1 - n, Len(SetUp))
  /\ pc = "setup" <=> todo # <<>>
  /\ lastValue \in 0 .. BackoffMax /\ untilRetry \in 0 .. BackoffMax
  /\ sinceLost \in 0 .. ReconnectWait /\ seenConnected \in BOOLEAN
  /\ session \in BOOLEAN /\ subs \subseteq Topics
  /\ online \in {"unknown", "true", "false"}
  /\ inbox \in Seq([topic : Topics, payload : Payloads \union {"stop"}])
  /\ missed \in BOOLEAN
  /\ kind \in Kinds \union {"none"} /\ heard \subseteq Kinds
  /\ age \in 0 .. PublishInterval + 1
  /\ sinceAsked \in 0 .. RequestInterval
  /\ wait \in 0 .. PublishInterval \/ wait \in 0 .. PropsInterval
  /\ isNew \in BOOLEAN

\* Whatever failed before: a connection that connect has accepted has its
\* subscriptions, and the last word on /online is "true"
\* (mqtt_adapter.cpp:175-228).
SubscribedAndOnline ==
  path /\ pc # "setup" => session /\ online = "true" /\ subs = {Command_} \union IF mqttHa THEN {Fan} ELSE {}

\* When nothing is pending, the mower does what Home Assistant asked last,
\* unless another client has switched it since, or the request came while an
\* "off" was under way: the adapter looks at what the robot has been told so
\* far, and does not switch the motor on again (mqtt_ha.cpp:17-23, 97-126).
LastRequestWins ==
  ~Pending /\ slot = <<>> /\ lastRequest \in {"off"} \union DOMAIN SpeedOf /\ ~raced
  => FanSpeed(desired) = lastRequest

\* A modem whose network is there in the end is on line in the end, whatever
\* failed and however long it was gone, does all that was asked for, and Home
\* Assistant knows; unless a report was lost in a broken connection: it is not
\* repeated before something changes (wifi_adapter.cpp, mqtt_adapter.cpp:175-228,
\* mqtt_ha.cpp:17-95).
OnlineAgain ==
  ModeOf(wifi) = "STA" /\ <>[]inRange
  => []<>(/\ path /\ online = "true"
          /\ ~Pending /\ slot = <<>>
          /\ missed \/ view = Report(Now))

\* A station that has never found its network is an access point again and
\* again, to be set up anew; one that has been connected never is, however
\* long the network is gone (wifi_adapter.cpp:49-114).
WayIn ==
  ModeOf(wifi) = "STA" /\ [](~wasEverConnected) => []<>(radio = "AP")

\* While the modem is on line the robot's state is published again and again,
\* though each time it has to be asked for first (mqtt_adapter.cpp:54-89).
StatePublished ==
  kind = "state" /\ <>[]connected => []<>(wait = PublishInterval)
=============================================================================
