----------------------------- MODULE RouterClock ----------------------------
(***************************************************************************)
(* The clock arithmetic of Router: lastTx, lastRx and millis() are 32-bit  *)
(* counters that wrap, isRxTimeout compares them with >= (router.cpp:120-  *)
(* 138).  Router.tla works with the true time since the last transmission  *)
(* and reception; this module says when the two agree.                     *)
(***************************************************************************)
EXTENDS Naturals

CONSTANTS
  Wrap,                       \* 2^32 in the firmware
  expectDownResponseTimeout,
  MaxUptime                   \* bound: the clock ticks this often

ASSUME ClockAssumption ==
  /\ Wrap \in Nat \ {0}
  /\ expectDownResponseTimeout \in 1 .. Wrap - 1
  /\ MaxUptime \in Nat

VARIABLES
  millis,           \* what _millis() returns
  lastTx, lastRx,   \* the time stamps the router keeps
  expectResponse,
  uptime,           \* the true time since the boot
  txAt, rxAt        \* the true times lastTx and lastRx stand for

clockVars == <<millis, lastTx, lastRx, expectResponse, uptime, txAt, rxAt>>

U32(n) == n % Wrap

Init ==
  /\ millis = 0
  /\ uptime = 0
  /\ lastTx = 0 /\ txAt = 0
  /\ lastRx = 0 /\ rxAt = 0
  /\ expectResponse = FALSE

Tick ==
  /\ uptime < MaxUptime
  /\ uptime' = uptime + 1
  /\ millis' = U32(millis + 1)
  /\ UNCHANGED <<lastTx, lastRx, expectResponse, txAt, rxAt>>

\* send() and the loopSend that prints the whole command
Transmit ==
  /\ ~expectResponse
  /\ expectResponse' = TRUE
  /\ lastTx' = millis
  /\ txAt' = uptime
  /\ UNCHANGED <<millis, uptime, lastRx, rxAt>>

\* loopReceive reads a character; it may complete the line waited for.
ReceiveCharacter ==
  /\ lastRx' = millis
  /\ rxAt' = uptime
  /\ expectResponse' \in {expectResponse, FALSE}
  /\ UNCHANGED <<millis, uptime, lastTx, txAt>>

\* Mutant of IsRxTimeout: the limit is not moved on by what is received.
IsRxTimeoutTx ==
  /\ expectResponse
  /\ millis >= U32(lastTx + expectDownResponseTimeout)

IsRxTimeout ==
  LET limit == IF lastTx > lastRx THEN lastTx ELSE lastRx
  IN  /\ expectResponse
      /\ millis >= U32(limit + expectDownResponseTimeout)

LoopTimeout ==
  /\ IsRxTimeout
  /\ expectResponse' = FALSE
  /\ UNCHANGED <<millis, uptime, lastTx, lastRx, txAt, rxAt>>

Next == Tick \/ Transmit \/ ReceiveCharacter \/ LoopTimeout

Spec == Init /\ [][Next]_clockVars

-----------------------------------------------------------------------------
\* The line was silent, in both directions, for the whole timeout.
Silence ==
  /\ uptime - txAt >= expectDownResponseTimeout
  /\ uptime - rxAt >= expectDownResponseTimeout

\* router.cpp:6: "expect an answer from ArduMower within
\* expectDownResponseTimeout ms or respond to caller with Error::TIMEOUT".
\* The caller is given up when, and only when, the line was silent that long.
TimeoutIsSilence == expectResponse => (IsRxTimeout <=> Silence)
=============================================================================
