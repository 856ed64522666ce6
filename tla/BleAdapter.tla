----------------------------- MODULE BleAdapter ------------------------------
(***************************************************************************)
(* BleAdapter (ble_adapter.cpp): commands the app writes over Bluetooth LE,*)
(* passed to the router one at a time, and the responses, notified in      *)
(* pieces of BLE_MTU bytes.  The loop task runs the status machine and the *)
(* router's callback; the NimBLE host task runs the other callbacks and    *)
(* may do so at any time.  Each case of the status machine is one step,    *)
(* except where the code itself reckons with a callback in between:        *)
(* startAdvertising and loopBleTx look again after the call into NimBLE.   *)
(*                                                                         *)
(* link counts the connects and disconnects: a connection is open while it *)
(* is odd.  A command stands for the line written, <<c, i>> for piece i of *)
(* the response to c, "part" for characters that do not complete a line.   *)
(***************************************************************************)
EXTENDS Naturals, Sequences, SequencesExt

CONSTANTS
  Commands,   \* lines written by the app
  MaxLink,    \* bound: connects and disconnects
  MaxPieces,  \* bound: pieces of a response
  MaxParts    \* bound: writes that leave the line incomplete

ASSUME BleAssumption ==
  /\ Commands \intersect {"new", "open", "fired", "timeout", "line", "part", "none"} = {}
  /\ MaxLink \in Nat /\ MaxPieces \in Nat \ {0} /\ MaxParts \in Nat

VARIABLES
  result, busy,     \* the router, as in HttpAdapter
  pin,              \* settings.bluetooth.pin_enabled
  status,           \* BLE_STATUS_...
  expectNotify,
  receivedFromBle,
  sendToMower,
  sendToBle,        \* the pieces left
  pc,               \* where the loop task is
  since,            \* link when the loop task entered the case it is in
  link,             \* see above
  authenticated,
  advertising,
  unconfirmed,      \* notifications the host has not confirmed
  from,             \* history: the link a command was written on, or 0
  order,            \* history: the commands written on each link
  pieces,           \* history: how many pieces the response to each command has
  got,              \* history: the pieces received on each link
  parts,            \* history: incomplete writes
  overtaken         \* history: a step of the loop task was for another link

vars == <<result, busy, pin, status, expectNotify, receivedFromBle, sendToMower,
          sendToBle, pc, since, link, authenticated, advertising, unconfirmed,
          from, order, pieces, got, parts, overtaken>>
router  == <<result, busy>>
strings == <<receivedFromBle, sendToMower, sendToBle>>
app     == <<pin, from, order, parts>>
peer    == <<link, authenticated, advertising>>
stream  == <<pieces, got>>

Exchange == INSTANCE Exchange WITH Calls <- Commands, Answers <- {"line"}

Links == 1 .. MaxLink
Connected == link % 2 = 1

Init ==
  /\ Exchange!Init
  /\ busy = FALSE
  /\ pin \in BOOLEAN
  /\ status = "IDLE"
  /\ expectNotify = 0
  /\ receivedFromBle = <<>> /\ sendToMower = "none" /\ sendToBle = <<>>
  /\ pc = "ble"
  /\ since = 0
  /\ link = 0
  /\ authenticated = FALSE
  /\ advertising = TRUE       \* begin() starts it
  /\ unconfirmed = 0
  /\ from = [c \in Commands |-> 0]
  /\ order = [l \in Links |-> <<>>]
  /\ pieces = [c \in Commands |-> 0]
  /\ got = [l \in Links |-> <<>>]
  /\ parts = 0
  /\ overtaken = FALSE

-----------------------------------------------------------------------------
(* The loop task: BleAdapter::loop.                                        *)

LoopIdle ==
  /\ pc = "ble" /\ status = "IDLE"
  /\ advertising' = TRUE
  /\ since' = link
  /\ pc' = "advertised"
  /\ UNCHANGED <<router, app, status, expectNotify, strings, link, authenticated,
                 unconfirmed, stream, overtaken>>

Overtaken == overtaken' = (overtaken \/ link # since)

\* Mutant of Advertised: the status is not looked at again.
AdvertisedAlways ==
  /\ pc = "advertised"
  /\ status' = "ADVERTISING"
  /\ pc' = "others"
  /\ overtaken' = (overtaken \/ (status = "IDLE" /\ link # since))
  /\ UNCHANGED <<router, app, expectNotify, strings, since, peer, unconfirmed, stream>>

Advertised ==
  /\ pc = "advertised"
  /\ status' = IF status = "IDLE" THEN "ADVERTISING" ELSE status
  /\ pc' = "others"
  /\ overtaken' = (overtaken \/ (status = "IDLE" /\ link # since))
  /\ UNCHANGED <<router, app, expectNotify, strings, since, peer, unconfirmed, stream>>

LoopConnected ==
  /\ pc = "ble" /\ status = "CONNECTED"
  /\ status' = IF receivedFromBle # <<>> THEN "RXBLE" ELSE status
  /\ pc' = "others"
  /\ UNCHANGED <<router, app, expectNotify, strings, since, peer, unconfirmed,
                 stream, overtaken>>

\* Mutant of FirstLine: lastIndexOf.
LastLine(s) ==
  LET ends == {i \in 1 .. Len(s) : s[i] # "part"}
  IN  IF ends = {} THEN Len(s) ELSE CHOOSE i \in ends : \A j \in ends : i >= j

\* Up to and with the first complete line; all, when there is none.
FirstLine(s) ==
  LET ends == {i \in 1 .. Len(s) : s[i] # "part"}
  IN  IF ends = {} THEN Len(s) ELSE CHOOSE i \in ends : \A j \in ends : i <= j

\* Mutant of Rest: receivedFromBle is emptied.
RestNothing(s) == <<>>

Rest(s) == SubSeq(s, FirstLine(s) + 1, Len(s))

LoopBleRx ==
  /\ pc = "ble" /\ status = "RXBLE"
  /\ LET n == FirstLine(receivedFromBle)
     IN  IF n > 0 /\ receivedFromBle[n] # "part"
         THEN sendToMower' = receivedFromBle[n] /\ status' = "TXROUTER"
         ELSE UNCHANGED <<sendToMower, status>>
  /\ receivedFromBle' = Rest(receivedFromBle)
  /\ pc' = "others"
  /\ UNCHANGED <<router, app, expectNotify, sendToBle, since, peer, unconfirmed,
                 stream, overtaken>>

LoopRouterTx ==
  /\ pc = "ble" /\ status = "TXROUTER"
  /\ ~busy
  /\ Exchange!Accept(sendToMower, Exchange!Open)
  /\ busy' = TRUE
  /\ status' = "RXROUTER"
  /\ pc' = "others"
  /\ UNCHANGED <<app, expectNotify, strings, since, peer, unconfirmed, stream, overtaken>>

LoopRouterRefuses ==
  /\ pc = "ble" /\ status = "TXROUTER"
  /\ busy
  /\ pc' = "others"
  /\ UNCHANGED <<router, app, status, expectNotify, strings, since, peer,
                 unconfirmed, stream, overtaken>>

\* One round of loopBleTx, the first of which reads the status, up to the
\* return of notify().
InBleTx == \/ pc = "ble" /\ status = "TXBLE"
           \/ pc = "txble"

LoopBleTxNotify ==
  /\ InBleTx
  /\ sendToBle # <<>>
  /\ since' = IF pc = "ble" THEN link ELSE since
  /\ overtaken' = (overtaken \/ link # since')
  /\ sendToBle' = Tail(sendToBle)
  /\ expectNotify' = expectNotify + 1
  /\ IF Connected
     THEN /\ unconfirmed' = unconfirmed + 1
          /\ got' = [got EXCEPT ![link] = Append(@, Head(sendToBle))]
     ELSE UNCHANGED <<unconfirmed, got>>
  /\ pc' = "notified"
  /\ UNCHANGED <<router, app, status, receivedFromBle, sendToMower, peer, pieces>>

\* Mutant of LoopBleTxNotified: the next piece is sent at once.
LoopBleTxNotWaiting ==
  /\ pc = "notified"
  /\ pc' = "txble"
  /\ Overtaken
  /\ UNCHANGED <<router, app, status, expectNotify, strings, since, peer,
                 unconfirmed, stream>>

LoopBleTxNotified ==
  /\ pc = "notified"
  /\ IF expectNotify > 0
     THEN status' = "BLENOTIFY" /\ pc' = "others"
     ELSE pc' = "txble" /\ UNCHANGED status
  /\ Overtaken
  /\ UNCHANGED <<router, app, expectNotify, strings, since, peer, unconfirmed, stream>>

LoopBleTxDone ==
  /\ InBleTx
  /\ sendToBle = <<>>
  /\ status' = "CONNECTED"
  /\ pc' = "others"
  /\ overtaken' = (overtaken \/ (pc = "txble" /\ link # since))
  /\ UNCHANGED <<router, app, expectNotify, strings, since, peer, unconfirmed, stream>>

LoopWait ==
  /\ pc = "ble"
  /\ status \in {"ADVERTISING", "PAIRING", "RXROUTER", "BLENOTIFY"}
  /\ pc' = "others"
  /\ UNCHANGED <<router, app, status, expectNotify, strings, since, peer,
                 unconfirmed, stream, overtaken>>

LoopBle ==
  \/ LoopIdle \/ Advertised \/ LoopConnected \/ LoopBleRx
  \/ LoopRouterTx \/ LoopRouterRefuses
  \/ LoopBleTxNotify \/ LoopBleTxNotified \/ LoopBleTxDone \/ LoopWait

-----------------------------------------------------------------------------
(* The loop task: the other clients of the router, and the router.         *)

Others ==
  /\ pc = "others"
  /\ busy' \in {busy, TRUE}
  /\ pc' = "router"
  /\ UNCHANGED <<result, app, status, expectNotify, strings, since, peer,
                 unconfirmed, stream, overtaken>>

\* The callback of send(): whatever the status is, and whatever err is.
RouterAnswers(c, a, n) ==
  /\ pc = "router"
  /\ Exchange!Complete(c, a)
  /\ busy' \in BOOLEAN
  /\ pieces' = [pieces EXCEPT ![c] = n]
  /\ sendToBle' = [i \in 1 .. n |-> <<c, i>>]
  /\ status' = "TXBLE"
  /\ overtaken' = (overtaken \/ link # from[c])
  /\ pc' = "ble"
  /\ UNCHANGED <<app, expectNotify, receivedFromBle, sendToMower, since, peer,
                 unconfirmed, got>>

RouterIdle ==
  /\ pc = "router"
  /\ Exchange!NobodyWaits
  /\ busy' = FALSE
  /\ pc' = "ble"
  /\ UNCHANGED <<result, app, status, expectNotify, strings, since, peer,
                 unconfirmed, stream, overtaken>>

RouterBusy ==
  /\ pc = "router"
  /\ busy
  /\ pc' = "ble"
  /\ UNCHANGED <<router, app, status, expectNotify, strings, since, peer,
                 unconfirmed, stream, overtaken>>

RouterReports ==
  \E c \in Commands :
    \/ \E n \in 1 .. MaxPieces : RouterAnswers(c, "line", n)
    \/ RouterAnswers(c, Exchange!TimedOut, 1)

-----------------------------------------------------------------------------
(* The NimBLE host task and the app.                                       *)

Reset ==
  /\ receivedFromBle' = <<>>
  /\ sendToBle' = <<>>
  /\ sendToMower' = "none"
  /\ expectNotify' = 0

OnConnect ==
  /\ ~Connected /\ advertising
  /\ link < MaxLink
  /\ link' = link + 1
  /\ advertising' = FALSE
  /\ authenticated' = FALSE
  /\ Reset
  /\ status' = IF pin THEN "PAIRING" ELSE "CONNECTED"
  /\ unconfirmed' = 0
  /\ UNCHANGED <<router, app, pc, since, stream, overtaken>>

OnAuthenticationComplete ==
  /\ Connected /\ pin /\ ~authenticated
  /\ authenticated' = TRUE
  /\ status' = "CONNECTED"
  /\ UNCHANGED <<router, app, expectNotify, strings, pc, since, link, advertising,
                 unconfirmed, stream, overtaken>>

\* Mutants of OnDisconnect: the status is kept, or taken for advertising.
OnDisconnectKeepsStatus ==
  /\ Connected
  /\ link < MaxLink
  /\ link' = link + 1
  /\ Reset
  /\ unconfirmed' = 0
  /\ UNCHANGED <<router, app, status, pc, since, authenticated, advertising,
                 stream, overtaken>>
OnDisconnectAdvertising ==
  /\ Connected
  /\ link < MaxLink
  /\ link' = link + 1
  /\ Reset
  /\ status' = "ADVERTISING"
  /\ unconfirmed' = 0
  /\ UNCHANGED <<router, app, pc, since, authenticated, advertising, stream, overtaken>>

OnDisconnect ==
  /\ Connected
  /\ link < MaxLink
  /\ link' = link + 1
  /\ Reset
  /\ status' = "IDLE"
  /\ unconfirmed' = 0
  /\ UNCHANGED <<router, app, pc, since, authenticated, advertising, stream, overtaken>>

Received(s) ==
  /\ Connected /\ (pin => authenticated)
  /\ receivedFromBle' = receivedFromBle \o s
  /\ status' = IF status = "CONNECTED" THEN "RXBLE" ELSE status
  /\ UNCHANGED <<router, pin, expectNotify, sendToMower, sendToBle, pc, since,
                 peer, unconfirmed, stream, overtaken>>

OnWrite(c) ==
  /\ from[c] = 0
  /\ Received(<<c>>)
  /\ from' = [from EXCEPT ![c] = link]
  /\ order' = [order EXCEPT ![link] = Append(@, c)]
  /\ UNCHANGED parts

OnWritePart ==
  /\ parts < MaxParts
  /\ parts' = parts + 1
  /\ Received(<<"part">>)
  /\ UNCHANGED <<from, order>>

OnNotify ==
  /\ unconfirmed > 0
  /\ unconfirmed' = unconfirmed - 1
  /\ expectNotify' = IF expectNotify > 0 THEN expectNotify - 1 ELSE expectNotify
  /\ status' = IF status = "BLENOTIFY" THEN "TXBLE" ELSE status
  /\ UNCHANGED <<router, app, strings, pc, since, peer, stream, overtaken>>

Host ==
  \/ OnConnect \/ OnAuthenticationComplete \/ OnDisconnect
  \/ \E c \in Commands : OnWrite(c)
  \/ OnWritePart \/ OnNotify

Loop == LoopBle \/ Others \/ RouterReports \/ RouterIdle \/ RouterBusy

Next == Loop \/ Host

\* The loop task runs for ever; Router answers, and gets idle, in the end
\* (ImplementsExchange and AcceptsAgain there); the host confirms what it was
\* given to notify.  Nobody has to connect, write or disconnect.
Spec ==
  /\ Init /\ [][Next]_vars
  /\ WF_vars(Loop) /\ SF_vars(RouterReports) /\ SF_vars(RouterIdle)
  /\ WF_vars(OnNotify)

-----------------------------------------------------------------------------
(* Properties.  They speak of behaviours in which no step of the loop task *)
(* was for a connection that had ended meanwhile: a response that comes    *)
(* after its connection has ended, or notify() and startAdvertising()      *)
(* returning to another connection, puts the status machine in a state     *)
(* that is not the new connection's (README).                              *)

TypeOK ==
  /\ result \in [Commands -> {"new", "open", "line", "timeout"}]
  /\ busy \in BOOLEAN /\ pin \in BOOLEAN
  /\ status \in {"IDLE", "ADVERTISING", "PAIRING", "CONNECTED", "RXBLE",
                 "TXROUTER", "RXROUTER", "TXBLE", "BLENOTIFY"}
  /\ expectNotify \in Nat /\ unconfirmed \in Nat
  /\ receivedFromBle \in Seq(Commands \union {"part"})
  /\ sendToMower \in Commands \union {"none"}
  /\ status = "TXROUTER" => sendToMower \in Commands
  /\ sendToBle \in Seq(Commands \X (1 .. MaxPieces))
  /\ pc \in {"ble", "advertised", "notified", "txble", "others", "router"}
  /\ link \in 0 .. MaxLink /\ since \in 0 .. MaxLink

\* A response that is still to come stands for no piece that can be received.
Response(c) ==
  IF pieces[c] = 0 THEN << <<c, 0>> >> ELSE [i \in 1 .. pieces[c] |-> <<c, i>>]
Responses(l) == FlattenSeq([i \in 1 .. Len(order[l]) |-> Response(order[l][i])])

\* What the app receives on a connection is the responses to the commands it
\* wrote on that connection, in order, each piece once and none missing
\* (ble_adapter.cpp:126-183, 281-306).
OwnResponsesInOrder ==
  ~overtaken => \A l \in Links : IsPrefix(got[l], Responses(l))

\* The next piece is notified only when the one before is confirmed, whether
\* that happens before or after notify() returns
\* (ble_adapter.cpp:159-169, 281-294).
OnePieceAtATime == ~overtaken => unconfirmed <= 1

\* The elements of s that are in S, in order.
Only(s, S) == FlattenSeq([i \in 1 .. Len(s) |-> IF s[i] \in S THEN <<s[i]>> ELSE <<>>])

\* Whatever the app has written and the adapter not yet answered is in one
\* of its hands, in order: no line gets lost between the status machine and
\* the callbacks (ble_adapter.cpp:126-142, 173-183, 296-306).
Pending(l) == Only(order[l], {c \in Commands : result[c] = "new"})
InHand ==
  (IF status = "TXROUTER" THEN <<sendToMower>> ELSE <<>>) \o Only(receivedFromBle, Commands)
NoLineLost ==
  ~overtaken /\ Connected => Pending(link) = InHand

\* An app that stays connected gets the whole response to each line it has
\* written (ble_adapter.cpp:68-116).
EveryLineIsAnswered ==
  \A c \in Commands :
    from[c] # 0 ~> \/ link # from[c] \/ overtaken
                   \/ pieces[c] > 0 /\ Contains(got[from[c]], <<c, pieces[c]>>)

\* With nobody connected the modem gets discoverable again
\* (ble_adapter.cpp:82-84, 185-201, 231-235).
DiscoverableAgain == ~Connected ~> advertising \/ Connected \/ overtaken
=============================================================================
