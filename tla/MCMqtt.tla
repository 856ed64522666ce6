------------------------------- MODULE MCMqtt -------------------------------
(***************************************************************************)
(* Mqtt on a small instance: with Home Assistant and no publications, or   *)
(* with publications and without Home Assistant's topic; a station with    *)
(* settings that may be invalid, or an access point.                       *)
(***************************************************************************)

EXTENDS Mqtt

Station == [mode |-> "STA", staSettingsValid |-> TRUE]
Invalid == [Station EXCEPT !.staSettingsValid = FALSE]
AccessPoint == [Station EXCEPT !.mode = "AP"]

Scenario(w, ha_, kind_, range, f, m) ==
  [wifi |-> w, ha |-> ha_, kind |-> kind_, inRange |-> range, faults |-> f, messages |-> m]

MCScenarios ==
  {Scenario(Station, TRUE, "none", TRUE, 1, 1), Scenario(Station, TRUE, "none", TRUE, 0, 2),
   Scenario(Station, FALSE, "props", TRUE, 0, 1), Scenario(Station, FALSE, "state", FALSE, 0, 1),
   Scenario(Station, FALSE, "stats", TRUE, 1, 0),
   Scenario(Invalid, TRUE, "none", TRUE, 0, 0), Scenario(AccessPoint, TRUE, "none", TRUE, 0, 0)}
=============================================================================
