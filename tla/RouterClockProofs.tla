-------------------------- MODULE RouterClockProofs --------------------------
(***************************************************************************)
(* Until the counter comes within the timeout of its end, the comparison   *)
(* of isRxTimeout is the comparison of true times, for every width of the  *)
(* counter and every timeout.                                              *)
(***************************************************************************)
EXTENDS RouterClock, TLAPS

LEMMA NoWrap ==
  ASSUME NEW n \in Nat, n < Wrap PROVE U32(n) = n
BY ClockAssumption DEF U32

\* Before the wrap the stamps are the true times.
Stamps ==
  /\ uptime \in 0 .. MaxUptime
  /\ millis = uptime
  /\ txAt \in 0 .. uptime /\ lastTx = txAt
  /\ rxAt \in 0 .. uptime /\ lastRx = rxAt

LEMMA StampsAreTrue ==
  ASSUME MaxUptime + expectDownResponseTimeout < Wrap
  PROVE  Spec => []Stamps
<1>1. Init => Stamps
  BY ClockAssumption DEF Init, Stamps
<1>2. Stamps /\ [Next]_clockVars => Stamps'
  <2> SUFFICES ASSUME Stamps, [Next]_clockVars PROVE Stamps'
    OBVIOUS
  <2> USE DEF Stamps
  <2>1. CASE Tick
    <3>1. uptime + 1 \in Nat /\ uptime + 1 < Wrap
      BY <2>1, ClockAssumption DEF Tick
    <3>2. millis' = uptime + 1
      BY <2>1, <3>1, NoWrap DEF Tick
    <3>. QED
      BY <2>1, <3>2, ClockAssumption DEF Tick
  <2>2. CASE Transmit
    BY <2>2 DEF Transmit
  <2>3. CASE ReceiveCharacter
    BY <2>3 DEF ReceiveCharacter
  <2>4. CASE LoopTimeout
    BY <2>4 DEF LoopTimeout
  <2>5. CASE UNCHANGED clockVars
    BY <2>5 DEF clockVars
  <2>. QED
    BY <2>1, <2>2, <2>3, <2>4, <2>5 DEF Next
<1>. QED
  BY <1>1, <1>2, PTL DEF Spec

\* Up to expectDownResponseTimeout before the counter wraps, a caller is given
\* up when and only when the line was silent for the timeout (router.cpp:6,
\* 120-138).  RouterClockWrap shows that the bound is needed.
THEOREM TimeoutIsSilenceUntilWrap ==
  ASSUME MaxUptime + expectDownResponseTimeout < Wrap
  PROVE  Spec => []TimeoutIsSilence
<1>1. Stamps => TimeoutIsSilence
  <2> SUFFICES ASSUME Stamps, expectResponse PROVE IsRxTimeout <=> Silence
    BY DEF TimeoutIsSilence
  <2> DEFINE limit == IF lastTx > lastRx THEN lastTx ELSE lastRx
  <2>1. limit \in Nat /\ limit <= MaxUptime
    BY ClockAssumption DEF Stamps
  <2>2. U32(limit + expectDownResponseTimeout) = limit + expectDownResponseTimeout
    BY <2>1, NoWrap, ClockAssumption
  <2>3. IsRxTimeout <=> millis >= limit + expectDownResponseTimeout
    BY <2>2 DEF IsRxTimeout
  <2>. QED
    BY <2>3, ClockAssumption DEF Stamps, Silence
<1>. QED
  BY <1>1, StampsAreTrue, PTL
=============================================================================
