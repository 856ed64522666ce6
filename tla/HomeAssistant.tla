---------------------------- MODULE HomeAssistant ----------------------------
(***************************************************************************)
(* HomeAssistant::Adapter (mqtt_ha.cpp): reports robot state and speed,    *)
(* and keeps what is asked of it until the router takes it.                *)
(*                                                                         *)
(* The router is a slot for one command, as in Mower: what it accepts is   *)
(* printed later, and only then desiredState follows.  Job and battery     *)
(* voltage are one value; speeds are in cm/s.  The actions here are parts  *)
(* of those in Mqtt.                                                       *)
(***************************************************************************)
EXTENDS Integers, Sequences

CONSTANTS
  Payloads,      \* what Home Assistant may ask for
  RobotStates    \* 0, none, and what the robot may answer

ASSUME PayloadsAssumption == Payloads \subseteq STRING
ASSUME RobotStatesAssumption == 0 \in RobotStates /\ RobotStates \subseteq Nat

VARIABLES
  slot,             \* what the router has to print: a sequence of no or one command
  busy,             \* others use the router
  desired,          \* desiredStateP()
  robotState,       \* stateP()
  commandSpeed,     \* pending, or Nothing
  commandMower,
  reported,         \* job, batteryVoltage, speed, mowerEnabled, as last sent
  view,             \* history: what Home Assistant was shown last
  lastRequest,      \* history: the last request received, or "none"
  raced,            \* history: it came too soon after an "off"
  messages          \* bound: commands of Home Assistant and of others to come

router == <<slot, busy>>
ha     == <<commandSpeed, commandMower, reported>>
haVars == <<router, desired, robotState, ha, view, lastRequest, raced, messages>>

Nothing == -1
SpeedOf == [min |-> 20, medium |-> 33, high |-> 46, max |-> 59]
Speeds == {SpeedOf[p] : p \in DOMAIN SpeedOf}

\* set is a speed, or 0 and 1 for the mower motor; AT+C of other kinds and
\* polls set nothing here
Command(kind, set) == [kind |-> kind, set |-> set]
Commands ==
  {Command("speed", s) : s \in Speeds} \union {Command("mower", b) : b \in {0, 1}}
    \union {Command(k, 0) : k \in {"start", "stop", "dock", "status", "stats", "version"}}

\* fan_speed of the report
FanSpeed(d) ==
  IF d.mower = 0 THEN "off"
  ELSE IF d.speed <= 25 THEN "min"
  ELSE IF d.speed <= 40 THEN "medium"
  ELSE IF d.speed <= 50 THEN "high"
  ELSE "max"

Report(r) == [state |-> r.state, fan |-> FanSpeed(r)]
Now == [state |-> robotState, mower |-> desired.mower, speed |-> desired.speed]

HaInit ==
  /\ slot = <<>>
  /\ busy = FALSE
  /\ desired = [mower |-> 0, speed |-> 0]
  /\ robotState = 0
  /\ commandSpeed = Nothing
  /\ commandMower = Nothing
  /\ reported = Now
  /\ view = Report(Now)
  /\ lastRequest = "none"
  /\ raced = FALSE

-----------------------------------------------------------------------------
(* The router.                                                             *)

Accepts == slot = <<>> /\ ~busy

\* loopSend, drainTx and parseATCCommand
Prints ==
  /\ slot # <<>>
  /\ slot' = <<>>
  /\ desired' = CASE slot[1].kind = "speed" -> [desired EXCEPT !.speed = slot[1].set]
                  [] slot[1].kind = "mower" -> [desired EXCEPT !.mower = slot[1].set]
                  [] OTHER -> desired

-----------------------------------------------------------------------------
(* The adapter.                                                            *)

Pending == commandSpeed # Nothing \/ commandMower # Nothing

\* what the request meets before the mower motor is known to be off
OffUnderway == commandMower = 0 \/ slot = <<Command("mower", 0)>>

\* Mutant of OnFanSpeedMessage: a speed does not switch the mower motor on.
OnFanSpeedMessageSpeedOnly(p) ==
  /\ commandMower' = IF p = "off" THEN 0 ELSE commandMower
  /\ commandSpeed' = IF p \in DOMAIN SpeedOf THEN SpeedOf[p] ELSE commandSpeed
  /\ lastRequest' = p
  /\ raced' = (p # "off" /\ OffUnderway)

\* A payload that names no speed switches the mower motor on as well.
OnFanSpeedMessage(p) ==
  /\ commandMower' = IF p = "off" THEN 0
                     ELSE IF desired.mower = 0 THEN 1 ELSE commandMower
  /\ commandSpeed' = IF p \in DOMAIN SpeedOf THEN SpeedOf[p] ELSE commandSpeed
  /\ lastRequest' = p
  /\ raced' = (p # "off" /\ OffUnderway)

\* The router that has taken the speed refuses the mower motor in this pass.
LoopCommand ==
  LET speed == Accepts /\ commandSpeed # Nothing
      mower == Accepts /\ commandSpeed = Nothing /\ commandMower # Nothing
  IN
  /\ slot' = IF speed THEN <<Command("speed", commandSpeed)>>
             ELSE IF mower THEN <<Command("mower", commandMower)>> ELSE slot
  /\ commandSpeed' = IF speed THEN Nothing ELSE commandSpeed
  /\ commandMower' = IF mower THEN Nothing ELSE commandMower

\* Mutant of LoopReport: reported moves on although tx has failed.
LoopReportForgets(sent, seen) ==
  /\ reported' = Now
  /\ view' = IF seen /\ Now # reported THEN Report(Now) ELSE view

\* sent: tx says so; seen: Home Assistant got it
LoopReport(sent, seen) ==
  /\ reported' = IF sent THEN Now ELSE reported
  /\ view' = IF seen /\ Now # reported THEN Report(Now) ELSE view

HaTypeOK ==
  /\ slot \in Seq(Commands) /\ Len(slot) <= 1
  /\ busy \in BOOLEAN /\ raced \in BOOLEAN
  /\ desired \in [mower : {0, 1}, speed : {0} \union Speeds]
  /\ robotState \in RobotStates
  /\ commandSpeed \in {Nothing} \union Speeds
  /\ commandMower \in {Nothing, 0, 1}
  /\ reported \in [state : RobotStates, mower : {0, 1}, speed : {0} \union Speeds]
  /\ view \in [state : RobotStates, fan : {"off"} \union DOMAIN SpeedOf]
  /\ lastRequest \in {"none"} \union Payloads
  /\ messages \in Nat
=============================================================================
