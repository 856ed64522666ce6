----------------------------- MODULE RouterRace -----------------------------
(***************************************************************************)
(* The router called from two tasks.  Prometheus::Adapter::metrics runs in *)
(* the web server's task and calls MowerAdapter::requestStats, hence       *)
(* Router::sendWithoutResponse, while the loop task runs Router and the    *)
(* other clients.  Nothing orders the two: the test of sendCommand and     *)
(* expectResponse and the assignments after it are two steps.              *)
(***************************************************************************)
EXTENDS Router

VARIABLE metrics   \* the call the web task is in the middle of, or "none"

raceVars == <<vars, metrics>>

RaceInit == Init /\ metrics = "none"

\* router.cpp:49, seen to be idle
MetricsTests(c) ==
  /\ metrics = "none"
  /\ result[c] = "new"
  /\ ~Busy
  /\ metrics' = c
  /\ UNCHANGED vars

\* router.cpp:52-55, the assignments
MetricsRegisters ==
  /\ metrics # "none"
  /\ result[metrics] = "new"
  /\ Register(metrics, "none")
  /\ result' = [result EXCEPT ![metrics] = "fired"]
  /\ metrics' = "none"
  /\ UNCHANGED <<expectResponse, time, pc, wire, outside>>

RaceNext ==
  \/ Next /\ UNCHANGED metrics
  \/ \E c \in Calls : MetricsTests(c)
  \/ MetricsRegisters

RaceSpec == RaceInit /\ [][RaceNext]_raceVars

\* What router.cpp:34 says of a call ("reject until idle"): a command is
\* accepted only when nothing waits to be printed or answered.  With two
\* tasks a command is accepted over another one's, whose text, or whose
\* callback, is then lost.
RejectUntilIdle == [][(accepted' # accepted) => ~Busy]_raceVars
=============================================================================
