-------------------------------- MODULE Wifi --------------------------------
(***************************************************************************)
(* Wifi::Adapter (wifi_adapter.cpp): the station of a wireless network, or *)
(* an access point.  A station that has not found its network after a      *)
(* while is an access point for a while, and tries again.                  *)
(*                                                                         *)
(* The two time stamps are one, the time since the mode began: only one of *)
(* them is looked at.  The radio and the network around it are external.   *)
(***************************************************************************)
EXTENDS Integers

CONSTANTS
  StaAbortTimeout,  \* 1 min, in ticks
  OffStopTimeout    \* 5 min

ASSUME TimeoutsAssumption == StaAbortTimeout \in Nat /\ OffStopTimeout \in Nat

Modes == {"STA", "AP", "OFF"}
WifiSettings == [mode : Modes, staSettingsValid : BOOLEAN]

VARIABLES
  wifi,              \* settings.wifi
  mode,              \* _mode
  since,             \* time since the mode began
  stopped, begun,    \* loopOff: stopped, and stopFor # _offTimeoutStart
  wasEverConnected,
  radio,             \* what WiFi.mode was set to
  isConnected,       \* WiFi.isConnected()
  inRange,           \* the network of the settings is there
  faults             \* bound: what may yet fail, of the network and calls into it

adapter  == <<mode, since, stopped, begun, wasEverConnected, radio>>
network  == <<isConnected, inRange>>
wifiVars == <<wifi, adapter, network, faults>>

Longest == IF StaAbortTimeout < OffStopTimeout THEN OffStopTimeout ELSE StaAbortTimeout + 1

\* mode()
ModeOf(w) == IF w.mode = "STA" /\ ~w.staSettingsValid THEN "OFF" ELSE w.mode

\* begin: OFF is an access point for a while
WifiInit ==
  /\ mode = ModeOf(wifi)
  /\ radio = IF mode = "STA" THEN "STA" ELSE "AP"
  /\ since = 0
  /\ stopped = FALSE
  /\ begun = FALSE
  /\ wasEverConnected = FALSE
  /\ isConnected = FALSE

\* beginSta, beginOff, after stop
Begin(m) ==
  /\ mode' = m
  /\ radio' = IF m = "STA" THEN "STA" ELSE "AP"
  /\ since' = 0
  /\ isConnected' = FALSE

\* Mutant of LoopSta: it gives up only what it once had.
LoopStaStays ==
  LET givesUp == wasEverConnected /\ ~isConnected /\ since > StaAbortTimeout IN
  /\ mode = "STA"
  /\ IF givesUp THEN Begin("OFF") /\ begun' = TRUE
                ELSE UNCHANGED <<mode, radio, since, isConnected, begun>>
  /\ wasEverConnected' = (wasEverConnected \/ isConnected)
  /\ UNCHANGED <<wifi, stopped, inRange, faults>>

LoopSta ==
  LET givesUp == ~wasEverConnected /\ ~isConnected /\ since > StaAbortTimeout IN
  /\ mode = "STA"
  /\ IF givesUp THEN Begin("OFF") /\ begun' = TRUE
                ELSE UNCHANGED <<mode, radio, since, isConnected, begun>>
  /\ wasEverConnected' = (wasEverConnected \/ isConnected)
  /\ UNCHANGED <<wifi, stopped, inRange, faults>>

LoopAp == mode = "AP" /\ UNCHANGED wifiVars

LoopOff ==
  LET over == stopped /\ ~begun
      ends == ~over /\ since >= OffStopTimeout
  IN
  /\ mode = "OFF"
  /\ begun' = FALSE
  /\ stopped' = (over \/ ends)
  /\ IF ~ends THEN UNCHANGED <<mode, radio, since, isConnected>>
     ELSE IF ModeOf(wifi) = "STA" THEN Begin("STA")
     ELSE radio' = "OFF" /\ UNCHANGED <<mode, since, isConnected>>
  /\ UNCHANGED <<wifi, wasEverConnected, inRange, faults>>

LoopWifi == LoopSta \/ LoopAp \/ LoopOff

\* Somebody looks at the time.
Timed ==
  \/ mode = "OFF" /\ (begun \/ ~stopped)
  \/ mode = "STA" /\ ~wasEverConnected

-----------------------------------------------------------------------------
(* The radio connects by itself, and again after the network was gone      *)
(* (setAutoReconnect).                                                     *)

StationConnects ==
  /\ radio = "STA" /\ inRange /\ ~isConnected
  /\ isConnected' = TRUE
  /\ UNCHANGED <<wifi, adapter, inRange, faults>>

NetworkGone ==
  /\ inRange
  /\ faults > 0
  /\ faults' = faults - 1
  /\ inRange' = FALSE
  /\ isConnected' = FALSE
  /\ UNCHANGED <<wifi, adapter>>

NetworkBack ==
  /\ ~inRange
  /\ inRange' = TRUE
  /\ UNCHANGED <<wifi, adapter, isConnected, faults>>

WifiTypeOK ==
  /\ wifi \in WifiSettings
  /\ mode \in Modes /\ radio \in Modes
  /\ since \in 0 .. Longest
  /\ stopped \in BOOLEAN /\ begun \in BOOLEAN /\ wasEverConnected \in BOOLEAN
  /\ isConnected \in BOOLEAN /\ inRange \in BOOLEAN
  /\ faults \in Nat
=============================================================================
