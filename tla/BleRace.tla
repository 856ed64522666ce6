------------------------------- MODULE BleRace -------------------------------
(***************************************************************************)
(* BleAdapter with one step more: loopBleTx looks at expectNotify and then *)
(* assigns the status, and the NimBLE host task may run in between.        *)
(***************************************************************************)
EXTENDS BleAdapter

\* ble_adapter.cpp:164, a confirmation is still to come
TestExpectNotify ==
  /\ pc = "notified"
  /\ expectNotify > 0
  /\ pc' = "expecting"
  /\ UNCHANGED <<router, app, status, expectNotify, strings, since, peer,
                 unconfirmed, stream, overtaken>>

\* ble_adapter.cpp:166
WaitForNotify ==
  /\ pc = "expecting"
  /\ status' = "BLENOTIFY"
  /\ pc' = "others"
  /\ Overtaken
  /\ UNCHANGED <<router, app, expectNotify, strings, since, peer, unconfirmed, stream>>

RaceNext ==
  \/ TestExpectNotify \/ WaitForNotify
  \/ Next /\ (pc = "notified" /\ expectNotify > 0 => pc' = pc)

RaceSpec == Init /\ [][RaceNext]_vars

\* ble_adapter.cpp:288 says of a confirmation that meets another status than
\* BLENOTIFY: "when client confirms before the ->notify() call returns", and
\* loopBleTx goes on by itself.  So whoever waits in BLENOTIFY has a
\* confirmation to come.  One that arrives after the look at expectNotify and
\* before the assignment is taken for one of those, and the wait never ends.
AwaitsAConfirmation == status = "BLENOTIFY" /\ ~overtaken => expectNotify > 0
=============================================================================
