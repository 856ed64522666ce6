------------------------------ MODULE BleProofs ------------------------------
(***************************************************************************)
(* For any lines, number of connections and size of the responses: the     *)
(* type invariant of BleAdapter, that one piece of a response is underway  *)
(* at a time, that the app receives on a connection the responses to what  *)
(* it wrote on it, in order, and that no line is lost on the way to the    *)
(* router.  The last two follow from how far the lines of the connection   *)
(* have come (Progress): a first part is answered, at most one more is     *)
(* with the router, and the rest is in a hand of the adapter.              *)
(***************************************************************************)
EXTENDS BleAdapter, SequenceLemmas

Safety == Init /\ [][Next]_vars

\* Whoever may write on the connection.
Admitted == Connected /\ (pin => authenticated)

\* Before the first connection nothing has happened.
UntouchedAtFirst ==
  link = 0 => /\ status \in {"IDLE", "ADVERTISING"}
              /\ \A c \in Commands : result[c] # "open"
              /\ pc \notin {"notified", "txble"}

\* Only what was written gets to the router.
Written == {c \in Commands : from[c] # 0}
OnlyWritten ==
  /\ receivedFromBle \in Seq(Written \union {"part"})
  /\ sendToMower \in Written \union {"none"}
  /\ \A c \in Commands : result[c] = "open" => c \in Written

OneCall == \A c, d \in Commands : result[c] = "open" /\ result[d] = "open" => c = d

\* A command of this connection was written by who may write, and while the
\* router has it the status machine waits for the router.
WaitsForTheRouter ==
  \A c \in Commands :
    /\ from[c] \in 0 .. link
    /\ from[c] = link /\ link # 0
         => Admitted /\ (result[c] = "open" => status = "RXROUTER")

\* Pieces are sent to who may write, by the one loop of loopBleTx.
SendsOnTheLink ==
  /\ status \in {"TXBLE", "BLENOTIFY"} => Admitted
  /\ since <= link
  /\ pc \in {"notified", "txble"} /\ link = since => status = "TXBLE"

\* The adapter counts what the host has not confirmed, and while there is
\* something it is in or waits after notify().
Counted ==
  /\ expectNotify = unconfirmed
  /\ unconfirmed <= 1
  /\ unconfirmed > 0 => \/ status = "BLENOTIFY"
                       \/ (pc = "notified" /\ link = since)

Undisturbed == WaitsForTheRouter /\ SendsOnTheLink /\ Counted

IInv ==
  /\ TypeOK
  /\ overtaken \in BOOLEAN /\ authenticated \in BOOLEAN
  /\ from \in [Commands -> Nat]
  /\ UntouchedAtFirst /\ OnlyWritten /\ OneCall
  /\ ~overtaken => Undisturbed

-----------------------------------------------------------------------------
USE BleAssumption

LEMMA TypeInit == Init => TypeOK
<1> SUFFICES ASSUME Init PROVE TypeOK
  OBVIOUS
<1>1. result \in [Commands -> {"new", "open", "line", "timeout"}]
  BY DEF Init, Exchange!Init, Exchange!New
<1>2. receivedFromBle \in Seq(Commands \union {"part"})
  BY DEF Init
<1>3. sendToBle \in Seq(Commands \X (1 .. MaxPieces))
  BY DEF Init
<1>4. link \in 0 .. MaxLink /\ since \in 0 .. MaxLink
  BY DEF Init
<1>5. status = "IDLE" /\ sendToMower = "none" /\ pc = "ble"
  BY DEF Init
<1>6. busy \in BOOLEAN /\ pin \in BOOLEAN /\ expectNotify \in Nat /\ unconfirmed \in Nat
  BY DEF Init
<1>. QED
  BY <1>1, <1>2, <1>3, <1>4, <1>5, <1>6 DEF TypeOK

\* The first line ends with the first character that is not a part, or all are.
LEMMA FirstLineIs ==
  ASSUME NEW S, NEW s \in Seq(S)
  PROVE  LET n == FirstLine(s)
         IN  \/ n \in 1 .. Len(s) /\ s[n] # "part" /\ \A i \in 1 .. n - 1 : s[i] = "part"
             \/ n = Len(s) /\ \A i \in 1 .. n : s[i] = "part"
<1> DEFINE ends == {i \in 1 .. Len(s) : s[i] # "part"}
<1>1. CASE ends = {}
  BY <1>1 DEF FirstLine
<1>2. CASE ends # {}
  <2>1. \E i \in ends : \A j \in ends : i <= j
    <3>1. ends \subseteq Nat
      OBVIOUS
    <3> HIDE DEF ends
    <3>. QED
      BY <1>2, <3>1, Least
  <2> DEFINE n == CHOOSE i \in ends : \A j \in ends : i <= j
  <2>2. n \in ends /\ \A j \in ends : n <= j
    <3> HIDE DEF ends
    <3>. QED
      BY <2>1
  <2>3. FirstLine(s) = n
    BY <1>2 DEF FirstLine
  <2> HIDE DEF n
  <2>. QED
    BY <2>2, <2>3
<1>. QED
  BY <1>1, <1>2

\* So it is a part of the characters, and so is what is left.
LEMMA FirstLineInside ==
  ASSUME NEW S, NEW s \in Seq(S)
  PROVE  FirstLine(s) \in 0 .. Len(s)
  BY FirstLineIs

LEMMA RestType ==
  ASSUME NEW S, NEW s \in Seq(S)
  PROVE  Rest(s) \in Seq(S)
  BY FirstLineInside DEF Rest

LEMMA TypeStep == TypeOK /\ [Next]_vars => TypeOK'
<1> SUFFICES ASSUME TypeOK, [Next]_vars PROVE TypeOK'
  OBVIOUS
<1> USE DEF TypeOK, router, app, strings, peer, stream
<1>1. CASE LoopIdle
  BY <1>1 DEF LoopIdle
<1>2. CASE Advertised
  BY <1>2 DEF Advertised
<1>3. CASE LoopConnected
  BY <1>3 DEF LoopConnected
<1>4. CASE LoopBleRx
  <2>1. receivedFromBle' \in Seq(Commands \union {"part"})
    BY <1>4, RestType DEF LoopBleRx
  <2>2. FirstLine(receivedFromBle) \in 0 .. Len(receivedFromBle)
    BY FirstLineInside
  <2>. QED
    BY <1>4, <2>1, <2>2 DEF LoopBleRx
<1>5. CASE LoopRouterTx
  <2>1. result' = [result EXCEPT ![sendToMower] = "open"]
    BY <1>5 DEF LoopRouterTx, Exchange!Accept, Exchange!Becomes, Exchange!Open
  <2>2. result' \in [Commands -> {"new", "open", "line", "timeout"}]
    BY <2>1
  <2>. QED
    BY <1>5, <2>2 DEF LoopRouterTx
<1>6. CASE LoopRouterRefuses
  BY <1>6 DEF LoopRouterRefuses
<1>7. CASE LoopBleTxNotify
  <2>1. sendToBle' \in Seq(Commands \X (1 .. MaxPieces))
    BY <1>7 DEF LoopBleTxNotify
  <2>2. since' \in 0 .. MaxLink
    BY <1>7 DEF LoopBleTxNotify
  <2>3. unconfirmed' \in Nat /\ expectNotify' \in Nat
    BY <1>7 DEF LoopBleTxNotify
  <2>. QED
    BY <1>7, <2>1, <2>2, <2>3 DEF LoopBleTxNotify
<1>8. CASE LoopBleTxNotified
  BY <1>8 DEF LoopBleTxNotified, Overtaken
<1>9. CASE LoopBleTxDone
  BY <1>9 DEF LoopBleTxDone, InBleTx
<1>10. CASE LoopWait
  BY <1>10 DEF LoopWait
<1>11. CASE Others
  BY <1>11 DEF Others
<1>12. CASE RouterReports
  <2>1. PICK c \in Commands, a \in {"line", "timeout"}, n \in 1 .. MaxPieces : RouterAnswers(c, a, n)
    BY <1>12 DEF RouterReports, Exchange!TimedOut
  <2>2. result' \in [Commands -> {"new", "open", "line", "timeout"}]
    BY <2>1 DEF RouterAnswers, Exchange!Complete, Exchange!Becomes
  <2>3. sendToBle' \in Seq(Commands \X (1 .. MaxPieces))
    BY <2>1 DEF RouterAnswers
  <2>. QED
    BY <2>1, <2>2, <2>3 DEF RouterAnswers
<1>13. CASE RouterIdle
  BY <1>13 DEF RouterIdle
<1>14. CASE RouterBusy
  BY <1>14 DEF RouterBusy
<1>15. CASE OnConnect
  <2>1. receivedFromBle' \in Seq(Commands \union {"part"})
    BY <1>15 DEF OnConnect, Reset
  <2>2. sendToBle' \in Seq(Commands \X (1 .. MaxPieces))
    BY <1>15 DEF OnConnect, Reset
  <2>. QED
    BY <1>15, <2>1, <2>2 DEF OnConnect, Reset
<1>16. CASE OnAuthenticationComplete
  BY <1>16 DEF OnAuthenticationComplete
<1>17. CASE OnDisconnect
  <2>1. receivedFromBle' \in Seq(Commands \union {"part"})
    BY <1>17 DEF OnDisconnect, Reset
  <2>2. sendToBle' \in Seq(Commands \X (1 .. MaxPieces))
    BY <1>17 DEF OnDisconnect, Reset
  <2>. QED
    BY <1>17, <2>1, <2>2 DEF OnDisconnect, Reset
<1>18. ASSUME NEW c \in Commands, OnWrite(c) PROVE TypeOK'
  BY <1>18 DEF OnWrite, Received
<1>19. CASE OnWritePart
  BY <1>19 DEF OnWritePart, Received
<1>20. CASE OnNotify
  BY <1>20 DEF OnNotify
<1>21. CASE UNCHANGED vars
  BY <1>21 DEF vars
<1>. QED
  BY <1>1, <1>2, <1>3, <1>4, <1>5, <1>6, <1>7, <1>8, <1>9, <1>10, <1>11,
     <1>12, <1>13, <1>14, <1>15, <1>16, <1>17, <1>18, <1>19, <1>20, <1>21
     DEF Next, Loop, LoopBle, Host

-----------------------------------------------------------------------------
THEOREM TypeCorrect == Safety => []TypeOK
<1>1. Init => TypeOK
  BY TypeInit
<1>2. TypeOK /\ [Next]_vars => TypeOK'
  BY TypeStep
<1>. QED
  BY <1>1, <1>2, PTL DEF Safety

LEMMA IInvInit == Init => IInv
<1> SUFFICES ASSUME Init PROVE IInv
  OBVIOUS
<1>1. TypeOK
  BY TypeInit
<1>2. \A c \in Commands : result[c] = "new" /\ from[c] = 0
  BY DEF Init, Exchange!Init, Exchange!New
<1>3. from \in [Commands -> Nat]
  BY DEF Init
<1>4. Undisturbed
  BY <1>2 DEF Init, Undisturbed, WaitsForTheRouter, SendsOnTheLink, Counted
<1>5. OnlyWritten /\ OneCall
  BY <1>2 DEF Init, OnlyWritten, OneCall
<1>6. UntouchedAtFirst
  BY <1>2 DEF Init, UntouchedAtFirst
<1>7. overtaken \in BOOLEAN /\ authenticated \in BOOLEAN
  BY DEF Init
<1>. QED
  BY <1>1, <1>3, <1>4, <1>5, <1>6, <1>7 DEF IInv

-----------------------------------------------------------------------------
(* Each part of the invariant is kept.                                     *)

\* Four of the steps add to the histories.
Remembered == <<result, from, order, pieces, got>>
LEMMA WhoRemembers ==
  ASSUME TypeOK, [Next]_vars
  PROVE  \/ LoopRouterTx \/ LoopBleTxNotify \/ RouterReports
         \/ \E c \in Commands : OnWrite(c)
         \/ UNCHANGED Remembered /\ link' \in {link, link + 1}
<1> USE DEF Remembered, router, app, peer, stream, TypeOK
<1>1. CASE LoopBle
  BY <1>1 DEF LoopBle, LoopIdle, Advertised, LoopConnected, LoopBleRx, LoopRouterRefuses,
     LoopBleTxNotified, LoopBleTxDone, LoopWait
<1>2. CASE Others \/ RouterIdle \/ RouterBusy
  BY <1>2 DEF Others, RouterIdle, RouterBusy
<1>3. CASE OnConnect \/ OnAuthenticationComplete \/ OnDisconnect \/ OnWritePart \/ OnNotify
  BY <1>3 DEF OnConnect, OnAuthenticationComplete, OnDisconnect, OnWritePart, OnNotify, Received
<1>4. CASE UNCHANGED vars
  BY <1>4 DEF vars
<1>. QED
  BY <1>1, <1>2, <1>3, <1>4 DEF Next, Loop, Host

LEMMA OvertakenForGood ==
  ASSUME overtaken \in BOOLEAN, [Next]_vars, ~overtaken'
  PROVE  ~overtaken
  BY DEF Next, Loop, LoopBle, LoopIdle, Advertised, LoopConnected, LoopBleRx, LoopRouterTx,
     LoopRouterRefuses, LoopBleTxNotify, LoopBleTxNotified, LoopBleTxDone, LoopWait, Overtaken,
     Others, RouterReports, RouterAnswers, RouterIdle, RouterBusy,
     Host, OnConnect, OnAuthenticationComplete, OnDisconnect, OnWrite, OnWritePart, OnNotify,
     Received, vars

LEMMA FlagsStep ==
  ASSUME IInv, [Next]_vars
  PROVE  overtaken' \in BOOLEAN /\ authenticated' \in BOOLEAN /\ from' \in [Commands -> Nat]
<1>t. /\ TypeOK /\ overtaken \in BOOLEAN /\ authenticated \in BOOLEAN
      /\ from \in [Commands -> Nat] /\ link \in Nat
  BY DEF IInv, TypeOK
<1> USE DEF router, app, strings, peer, stream
<1>1. CASE LoopBle
  BY <1>t, <1>1 DEF LoopBle, LoopIdle, Advertised, LoopConnected, LoopBleRx, LoopRouterTx,
     LoopRouterRefuses, LoopBleTxNotify, LoopBleTxNotified, Overtaken, LoopBleTxDone, LoopWait
<1>2. CASE Others \/ RouterReports \/ RouterIdle \/ RouterBusy
  BY <1>t, <1>2 DEF Others, RouterReports, RouterAnswers, RouterIdle, RouterBusy
<1>3. CASE Host
  BY <1>t, <1>3 DEF Host, OnConnect, OnAuthenticationComplete, OnDisconnect, OnWrite, OnWritePart,
     Received, OnNotify
<1>4. CASE UNCHANGED vars
  BY <1>t, <1>4 DEF vars
<1>. QED
  BY <1>1, <1>2, <1>3, <1>4 DEF Next, Loop

LEMMA UntouchedStep ==
  ASSUME IInv, [Next]_vars
  PROVE  UntouchedAtFirst'
<1>t. TypeOK /\ UntouchedAtFirst /\ OnlyWritten
  BY DEF IInv
<1> USE <1>t DEF UntouchedAtFirst, TypeOK, router, app, strings, peer, stream
<1>1. CASE LoopIdle \/ Advertised \/ LoopConnected \/ LoopBleRx \/ LoopRouterRefuses \/ LoopWait
  BY <1>1 DEF LoopIdle, Advertised, LoopConnected, LoopBleRx, LoopRouterRefuses, LoopWait
<1>2. CASE LoopRouterTx
  BY <1>2 DEF LoopRouterTx
<1>3. CASE LoopBleTxNotify \/ LoopBleTxNotified \/ LoopBleTxDone
  BY <1>3 DEF LoopBleTxNotify, LoopBleTxNotified, LoopBleTxDone, InBleTx
<1>4. CASE Others \/ RouterIdle \/ RouterBusy
  BY <1>4 DEF Others, RouterIdle, RouterBusy
<1>5. CASE RouterReports
  BY <1>5 DEF RouterReports, RouterAnswers, Exchange!Complete, Exchange!Open
<1>6. CASE Host
  <2>1. OnNotify \/ link' # 0
    <3>1. Connected => link # 0
      BY DEF Connected
    <3>2. CASE OnConnect \/ OnDisconnect
      BY <3>2 DEF OnConnect, OnDisconnect
    <3>3. CASE OnAuthenticationComplete \/ OnWritePart \/ \E c \in Commands : OnWrite(c)
      BY <3>1, <3>3 DEF OnAuthenticationComplete, OnWritePart, OnWrite, Received
    <3>. QED
      BY <1>6, <3>2, <3>3 DEF Host
  <2>. QED
    BY <2>1 DEF OnNotify
<1>7. CASE UNCHANGED vars
  BY <1>7 DEF vars
<1>. QED
  BY <1>1, <1>2, <1>3, <1>4, <1>5, <1>6, <1>7 DEF Next, Loop, LoopBle

LEMMA OneCallStep ==
  ASSUME IInv, [Next]_vars
  PROVE  OneCall'
<1>t. TypeOK /\ OneCall
  BY DEF IInv
<1>1. CASE LoopRouterTx
  <2>1. /\ \A d \in Commands : result[d] # "open"
        /\ result' = [result EXCEPT ![sendToMower] = "open"]
    BY <1>1 DEF LoopRouterTx, Exchange!Accept, Exchange!NobodyWaits, Exchange!Becomes, Exchange!Open
  <2>. QED
    BY <1>t, <2>1 DEF OneCall, TypeOK
<1>2. CASE RouterReports
  <2>1. \A d \in Commands : result'[d] = "open" => result[d] = "open"
    BY <1>t, <1>2 DEF RouterReports, RouterAnswers, Exchange!Complete, Exchange!Becomes, Exchange!TimedOut, TypeOK
  <2>. QED
    BY <1>t, <2>1 DEF OneCall
<1>3. CASE UNCHANGED result
  BY <1>t, <1>3 DEF OneCall
<1>. QED
  BY <1>t, <1>1, <1>2, <1>3, WhoRemembers
     DEF Remembered, LoopBleTxNotify, OnWrite, Received, router

LEMMA OnlyWrittenStep ==
  ASSUME IInv, [Next]_vars
  PROVE  OnlyWritten'
<1>t. /\ TypeOK /\ from \in [Commands -> Nat]
      /\ receivedFromBle \in Seq(Written \union {"part"})
      /\ sendToMower \in Written \union {"none"}
      /\ \A c \in Commands : result[c] = "open" => c \in Written
  BY DEF IInv, OnlyWritten
<1> USE DEF router, app, strings, peer, stream
<1>1. CASE LoopBleRx
  <2>1. Written' = Written /\ result' = result
    BY <1>1 DEF LoopBleRx, Written
  <2>2. Rest(receivedFromBle) \in Seq(Written \union {"part"})
    BY <1>t, RestType
  <2>3. FirstLine(receivedFromBle) \in 0 .. Len(receivedFromBle)
    BY <1>t, FirstLineInside
  <2>4. sendToMower' \in Written \union {"none"}
    BY <1>1, <1>t, <2>3 DEF LoopBleRx
  <2>. QED
    BY <1>1, <1>t, <2>1, <2>2, <2>4 DEF LoopBleRx, OnlyWritten
<1>2. CASE LoopRouterTx
  <2>1. /\ sendToMower \in Commands
        /\ result' = [result EXCEPT ![sendToMower] = "open"]
    BY <1>2, <1>t DEF LoopRouterTx, TypeOK, Exchange!Accept, Exchange!Becomes, Exchange!Open
  <2>2. UNCHANGED <<Written, receivedFromBle, sendToMower>>
    BY <1>2 DEF LoopRouterTx, Written
  <2>. QED
    BY <1>t, <2>1, <2>2 DEF OnlyWritten, TypeOK
<1>3. CASE RouterReports
  <2>1. \A d \in Commands : result'[d] = "open" => result[d] = "open"
    BY <1>t, <1>3 DEF RouterReports, RouterAnswers, Exchange!Complete, Exchange!Becomes, Exchange!TimedOut, TypeOK
  <2>2. UNCHANGED <<Written, receivedFromBle, sendToMower>>
    BY <1>3 DEF RouterReports, RouterAnswers, Written
  <2>. QED
    BY <1>t, <2>1, <2>2 DEF OnlyWritten
<1>4. ASSUME NEW c \in Commands, OnWrite(c) PROVE OnlyWritten'
  <2>1. Connected /\ link # 0
    BY <1>t, <1>4 DEF OnWrite, Received, Connected, TypeOK
  <2>2. Written' = Written \union {c}
    BY <1>t, <1>4, <2>1 DEF OnWrite, Written
  <2>3. receivedFromBle' \in Seq(Written' \union {"part"})
    BY <1>t, <1>4, <2>2 DEF OnWrite, Received
  <2>. QED
    BY <1>t, <1>4, <2>2, <2>3 DEF OnWrite, Received, OnlyWritten
<1>5. CASE OnWritePart
  <2>1. UNCHANGED <<Written, result, sendToMower>>
    BY <1>5 DEF OnWritePart, Received, Written
  <2>2. receivedFromBle' \in Seq(Written \union {"part"})
    BY <1>t, <1>5 DEF OnWritePart, Received
  <2>. QED
    BY <1>t, <2>1, <2>2 DEF OnlyWritten
<1>6. CASE OnConnect \/ OnDisconnect
  <2>1. UNCHANGED <<Written, result>> /\ sendToMower' = "none" /\ receivedFromBle' = <<>>
    BY <1>6 DEF OnConnect, OnDisconnect, Reset, Written
  <2>. QED
    BY <1>t, <2>1 DEF OnlyWritten
<1>7. CASE UNCHANGED <<from, result, receivedFromBle, sendToMower>>
  BY <1>t, <1>7 DEF OnlyWritten, Written
<1>8. CASE LoopBle
  BY <1>1, <1>2, <1>7, <1>8 DEF LoopBle, LoopIdle, Advertised, LoopConnected, LoopRouterRefuses,
     LoopBleTxNotify, LoopBleTxNotified, LoopBleTxDone, LoopWait
<1>9. CASE Others \/ RouterIdle \/ RouterBusy \/ OnAuthenticationComplete \/ OnNotify \/ UNCHANGED vars
  BY <1>7, <1>9 DEF Others, RouterIdle, RouterBusy, OnAuthenticationComplete, OnNotify, vars
<1>. QED
  BY <1>3, <1>4, <1>5, <1>6, <1>8, <1>9 DEF Next, Loop, Host

LEMMA WaitsStep ==
  ASSUME IInv, Undisturbed, [Next]_vars, ~overtaken'
  PROVE  WaitsForTheRouter'
<1>t. TypeOK /\ from \in [Commands -> Nat] /\ UntouchedAtFirst /\ OnlyWritten /\ OneCall
  BY DEF IInv
<1> USE <1>t DEF TypeOK, Undisturbed, WaitsForTheRouter, SendsOnTheLink, Admitted, Connected,
                 router, app, strings, peer, stream
<1>1. CASE LoopIdle \/ Advertised \/ LoopConnected \/ LoopBleRx \/ LoopRouterRefuses \/ LoopWait
  BY <1>1 DEF LoopIdle, Advertised, LoopConnected, LoopBleRx, LoopRouterRefuses, LoopWait
<1>2. CASE LoopRouterTx
  <2>1. /\ sendToMower \in Commands /\ status' = "RXROUTER"
        /\ result' = [result EXCEPT ![sendToMower] = "open"]
        /\ UNCHANGED <<from, link, pin, authenticated>>
    BY <1>2 DEF LoopRouterTx, Exchange!Accept, Exchange!Becomes, Exchange!Open
  <2>. QED
    BY <2>1
<1>3. CASE LoopBleTxNotify \/ LoopBleTxNotified \/ LoopBleTxDone
  <2>1. UNCHANGED <<result, from, link, pin, authenticated>>
    BY <1>3 DEF LoopBleTxNotify, LoopBleTxNotified, LoopBleTxDone
  <2>2. status = "TXBLE" \/ status' = status
    BY <1>3 DEF LoopBleTxNotify, LoopBleTxNotified, LoopBleTxDone, InBleTx, Overtaken
  <2>. QED
    BY <2>1, <2>2
<1>4. CASE Others \/ RouterIdle \/ RouterBusy
  <2>1. UNCHANGED <<result, status, from, link, pin, authenticated>>
    BY <1>4 DEF Others, RouterIdle, RouterBusy
  <2>. QED
    BY <2>1
<1>5. CASE RouterReports
  <2>1. PICK c \in Commands, a \in {"line", "timeout"}, n \in 1 .. MaxPieces : RouterAnswers(c, a, n)
    BY <1>5 DEF RouterReports, Exchange!TimedOut
  <2>2. \A d \in Commands : result'[d] # "open"
    BY <2>1 DEF OneCall, RouterAnswers, Exchange!Complete, Exchange!Open, Exchange!Becomes
  <2>3. UNCHANGED <<from, link, pin, authenticated>>
    BY <2>1 DEF RouterAnswers
  <2>. QED
    BY <2>2, <2>3
<1>6. CASE OnConnect \/ OnDisconnect
  <2>1. UNCHANGED <<result, from>> /\ link' = link + 1
    BY <1>6 DEF OnConnect, OnDisconnect
  <2>. QED
    BY <2>1
<1>7. CASE OnAuthenticationComplete \/ OnNotify
  BY <1>7 DEF OnAuthenticationComplete, OnNotify
<1>8. CASE OnWritePart
  BY <1>8 DEF OnWritePart, Received
<1>9. ASSUME NEW c \in Commands, OnWrite(c) PROVE WaitsForTheRouter'
  <2>1. /\ Admitted /\ link \in Nat
        /\ from' = [from EXCEPT ![c] = link]
        /\ UNCHANGED <<result, link, pin, authenticated>>
        /\ status = "RXROUTER" => status' = "RXROUTER"
    BY <1>9 DEF OnWrite, Received
  <2>2. result[c] # "open"
    BY <1>9 DEF OnWrite, OnlyWritten, Written
  <2>. QED
    BY <2>1, <2>2
<1>10. CASE UNCHANGED vars
  BY <1>10 DEF vars
<1>. QED
  BY <1>1, <1>2, <1>3, <1>4, <1>5, <1>6, <1>7, <1>8, <1>9, <1>10 DEF Next, Loop, LoopBle, Host

LEMMA SendsStep ==
  ASSUME IInv, Undisturbed, [Next]_vars, ~overtaken'
  PROVE  SendsOnTheLink'
<1>t. TypeOK /\ UntouchedAtFirst /\ OnlyWritten
  BY DEF IInv
<1> USE <1>t DEF TypeOK, Undisturbed, WaitsForTheRouter, SendsOnTheLink, Admitted, Connected,
                 router, app, strings, peer, stream
<1>1. CASE LoopIdle \/ Advertised \/ LoopConnected \/ LoopBleRx \/ LoopRouterTx \/ LoopRouterRefuses
           \/ LoopWait
  BY <1>1 DEF LoopIdle, Advertised, LoopConnected, LoopBleRx, LoopRouterTx, LoopRouterRefuses, LoopWait
<1>2. CASE LoopBleTxNotify
  BY <1>2 DEF LoopBleTxNotify, InBleTx
<1>3. CASE LoopBleTxNotified
  BY <1>3 DEF LoopBleTxNotified, Overtaken
<1>4. CASE LoopBleTxDone
  BY <1>4 DEF LoopBleTxDone
<1>5. CASE Others \/ RouterIdle \/ RouterBusy
  <2>1. UNCHANGED <<status, link, since, pin, authenticated>> /\ pc' \in {"router", "ble"}
    BY <1>5 DEF Others, RouterIdle, RouterBusy
  <2>. QED
    BY <2>1
<1>6. CASE RouterReports
  <2>1. PICK c \in Commands, a \in {"line", "timeout"}, n \in 1 .. MaxPieces : RouterAnswers(c, a, n)
    BY <1>6 DEF RouterReports, Exchange!TimedOut
  <2>2. from[c] = link /\ from[c] # 0
    BY <2>1 DEF RouterAnswers, Exchange!Complete, Exchange!Open, OnlyWritten, Written
  <2>3. UNCHANGED <<link, since, pin, authenticated>> /\ pc' = "ble"
    BY <2>1 DEF RouterAnswers
  <2>. QED
    BY <2>2, <2>3
<1>7. CASE OnConnect \/ OnDisconnect
  <2>1. link' = link + 1 /\ since' = since /\ status' \notin {"TXBLE", "BLENOTIFY"}
    BY <1>7 DEF OnConnect, OnDisconnect
  <2>. QED
    BY <2>1
<1>8. CASE OnAuthenticationComplete
  BY <1>8 DEF OnAuthenticationComplete
<1>9. CASE OnWritePart \/ \E c \in Commands : OnWrite(c)
  <2>1. /\ UNCHANGED <<link, since, pc, pin, authenticated>>
        /\ status' = status \/ (status = "CONNECTED" /\ status' = "RXBLE")
    BY <1>9 DEF OnWritePart, OnWrite, Received
  <2>. QED
    BY <2>1
<1>10. CASE OnNotify
  BY <1>10 DEF OnNotify
<1>11. CASE UNCHANGED vars
  BY <1>11 DEF vars
<1>. QED
  BY <1>1, <1>2, <1>3, <1>4, <1>5, <1>6, <1>7, <1>8, <1>9, <1>10, <1>11 DEF Next, Loop, LoopBle, Host

LEMMA CountedStep ==
  ASSUME IInv, Undisturbed, [Next]_vars, ~overtaken'
  PROVE  Counted'
<1>t. TypeOK /\ UntouchedAtFirst /\ OnlyWritten
  BY DEF IInv
<1> USE <1>t DEF TypeOK, Undisturbed, SendsOnTheLink, Counted, router, app, strings, peer, stream
<1>1. CASE LoopIdle \/ Advertised \/ LoopConnected \/ LoopBleRx \/ LoopRouterTx \/ LoopRouterRefuses
           \/ LoopWait
  BY <1>1 DEF LoopIdle, Advertised, LoopConnected, LoopBleRx, LoopRouterTx, LoopRouterRefuses, LoopWait
<1>2. CASE LoopBleTxNotify
  <2>1. link = since' /\ pc # "notified" /\ since' = IF pc = "ble" THEN link ELSE since
    BY <1>2 DEF LoopBleTxNotify, InBleTx
  <2>2. status = "TXBLE"
    BY <1>2, <2>1 DEF LoopBleTxNotify, InBleTx
  <2>3. unconfirmed = 0 /\ Connected
    BY <2>1, <2>2 DEF Admitted
  <2>. QED
    BY <1>2, <2>1, <2>3 DEF LoopBleTxNotify
<1>3. CASE LoopBleTxNotified
  BY <1>3 DEF LoopBleTxNotified, Overtaken
<1>4. CASE LoopBleTxDone
  BY <1>4 DEF LoopBleTxDone, InBleTx
<1>5. CASE Others \/ RouterIdle \/ RouterBusy
  <2>1. UNCHANGED <<status, link, since, expectNotify, unconfirmed>> /\ pc # "notified"
    BY <1>5 DEF Others, RouterIdle, RouterBusy
  <2>. QED
    BY <2>1
<1>6. CASE RouterReports
  <2>1. PICK c \in Commands, a \in {"line", "timeout"}, n \in 1 .. MaxPieces : RouterAnswers(c, a, n)
    BY <1>6 DEF RouterReports, Exchange!TimedOut
  <2>2. from[c] = link /\ from[c] # 0 /\ result[c] = "open"
    BY <2>1 DEF RouterAnswers, Exchange!Complete, Exchange!Open, OnlyWritten, Written
  <2>3. status = "RXROUTER" /\ pc = "router"
    BY <2>1, <2>2 DEF RouterAnswers, WaitsForTheRouter
  <2>4. UNCHANGED <<expectNotify, unconfirmed>>
    BY <2>1 DEF RouterAnswers
  <2>. QED
    BY <2>3, <2>4
<1>7. CASE OnConnect \/ OnDisconnect
  BY <1>7 DEF OnConnect, OnDisconnect, Reset
<1>8. CASE OnAuthenticationComplete
  BY <1>8 DEF OnAuthenticationComplete, Admitted
<1>9. CASE OnWritePart \/ \E c \in Commands : OnWrite(c)
  <2>1. /\ UNCHANGED <<link, since, pc, expectNotify, unconfirmed>>
        /\ status' = status \/ status = "CONNECTED"
    BY <1>9 DEF OnWritePart, OnWrite, Received
  <2>. QED
    BY <2>1
<1>10. CASE OnNotify
  BY <1>10 DEF OnNotify
<1>11. CASE UNCHANGED vars
  BY <1>11 DEF vars
<1>. QED
  BY <1>1, <1>2, <1>3, <1>4, <1>5, <1>6, <1>7, <1>8, <1>9, <1>10, <1>11 DEF Next, Loop, LoopBle, Host

LEMMA IInvStep == IInv /\ [Next]_vars => IInv'
<1> SUFFICES ASSUME IInv, [Next]_vars PROVE IInv'
  OBVIOUS
<1>1. TypeOK'
  BY TypeStep DEF IInv
<1>2. UntouchedAtFirst' /\ OnlyWritten' /\ OneCall'
  BY UntouchedStep, OnlyWrittenStep, OneCallStep
<1>3. ASSUME ~overtaken' PROVE Undisturbed'
  <2>1. Undisturbed
    BY <1>3, OvertakenForGood DEF IInv
  <2>. QED
    BY <1>3, <2>1, WaitsStep, SendsStep, CountedStep DEF Undisturbed
<1>. QED
  BY <1>1, <1>2, <1>3, FlagsStep DEF IInv

LEMMA Invariant == Safety => []IInv
<1>1. Init => IInv
  BY IInvInit
<1>2. IInv /\ [Next]_vars => IInv'
  BY IInvStep
<1>. QED
  BY <1>1, <1>2, PTL DEF Safety

\* A piece is notified only when the host has confirmed the one before
\* (ble_adapter.cpp:159-169, 281-294).
THEOREM PiecesOneAtATime == Safety => []OnePieceAtATime
<1>1. IInv => OnePieceAtATime
  BY DEF IInv, Undisturbed, Counted, OnePieceAtATime
<1>. QED
  BY <1>1, Invariant, PTL

-----------------------------------------------------------------------------
(* Lines among characters.                                                 *)

LEMMA OnlyParts ==
  ASSUME NEW T, NEW S, NEW s \in Seq(T)
  PROVE  [i \in 1 .. Len(s) |-> IF s[i] \in S THEN <<s[i]>> ELSE <<>>] \in Seq(Seq(T))
<1>1. \A i \in 1 .. Len(s) : (IF s[i] \in S THEN <<s[i]>> ELSE <<>>) \in Seq(T)
  OBVIOUS
<1>. QED
  BY <1>1

LEMMA OnlyConcat ==
  ASSUME NEW T, NEW S
  PROVE  \A s, t \in Seq(T) : Only(s \o t, S) = Only(s, S) \o Only(t, S)
<1> SUFFICES ASSUME NEW s \in Seq(T), NEW t \in Seq(T)
             PROVE  Only(s \o t, S) = Only(s, S) \o Only(t, S)
  OBVIOUS
<1> DEFINE f(q) == [i \in 1 .. Len(q) |-> IF q[i] \in S THEN <<q[i]>> ELSE <<>>]
<1>1. f(s) \in Seq(Seq(T)) /\ f(t) \in Seq(Seq(T))
  BY OnlyParts
<1>2. f(s \o t) = f(s) \o f(t)
  <2>1. /\ Len(s \o t) = Len(s) + Len(t) /\ Len(s) \in Nat /\ Len(t) \in Nat
        /\ \A i \in 1 .. Len(s) + Len(t) : (s \o t)[i] = IF i <= Len(s) THEN s[i] ELSE t[i - Len(s)]
    OBVIOUS
  <2>. QED
    BY <2>1
<1>3. FlattenSeq(f(s) \o f(t)) = FlattenSeq(f(s)) \o FlattenSeq(f(t))
  <2> HIDE DEF f
  <2>. QED
    BY <1>1, FlattenConcat
<1>. QED
  BY <1>2, <1>3 DEF Only

LEMMA OnlyOne ==
  ASSUME NEW T, NEW S, NEW x \in T
  PROVE  Only(<<x>>, S) = IF x \in S THEN <<x>> ELSE <<>>
<1> DEFINE q == IF x \in S THEN <<x>> ELSE <<>>
<1>1. q \in Seq(T)
  OBVIOUS
<1>2. [i \in 1 .. Len(<<x>>) |-> IF <<x>>[i] \in S THEN <<(<<x>>[i])>> ELSE <<>>] = <<q>>
  OBVIOUS
<1>3. FlattenSeq(<<q>>) = q
  <2> HIDE DEF q
  <2>. QED
    BY <1>1, FlattenOne
<1>. QED
  BY <1>2, <1>3 DEF Only

LEMMA OnlyType ==
  ASSUME NEW T, NEW S, NEW s \in Seq(T)
  PROVE  Only(s, S) \in Seq(T)
  BY OnlyParts, FlattenType DEF Only

LEMMA OnlyAppend ==
  ASSUME NEW T, NEW S, NEW s \in Seq(T), NEW x \in T
  PROVE  Only(Append(s, x), S) = IF x \in S THEN Append(Only(s, S), x) ELSE Only(s, S)
<1>1. Append(s, x) = s \o <<x>> /\ <<x>> \in Seq(T)
  OBVIOUS
<1>2. Only(s \o <<x>>, S) = Only(s, S) \o Only(<<x>>, S)
  BY <1>1, OnlyConcat
<1>3. Only(<<x>>, S) = IF x \in S THEN <<x>> ELSE <<>>
  BY OnlyOne
<1>4. Only(s, S) \in Seq(T)
  BY OnlyType
<1> DEFINE only == Only(s, S)
<1>5. only \o <<x>> = Append(only, x) /\ only \o <<>> = only
  <2> HIDE DEF only
  <2>1. only \in Seq(T)
    BY <1>4 DEF only
  <2>. QED
    BY <2>1
<1>. QED
  BY <1>1, <1>2, <1>3, <1>5

\* None of a sequence, or all of it.
LEMMA OnlyNone ==
  ASSUME NEW T, NEW S
  PROVE  \A s \in Seq(T) : (\A i \in 1 .. Len(s) : s[i] \notin S) => Only(s, S) = <<>>
<1> DEFINE P == {n \in Nat : \A s \in Seq(T) :
                   Len(s) = n /\ (\A i \in 1 .. Len(s) : s[i] \notin S) => Only(s, S) = <<>>}
<1>1. 0 \in P
  BY FlattenEmpty DEF Only
<1>2. ASSUME NEW n \in Nat, n \in P PROVE n + 1 \in P
  <2> SUFFICES ASSUME NEW s \in Seq(T), Len(s) = n + 1, \A i \in 1 .. Len(s) : s[i] \notin S
               PROVE  Only(s, S) = <<>>
    OBVIOUS
  <2> DEFINE front == SubSeq(s, 1, n)
  <2>1. /\ front \in Seq(T) /\ Len(front) = n /\ s[n + 1] \in T /\ s[n + 1] \notin S
        /\ s = Append(front, s[n + 1])
        /\ \A i \in 1 .. Len(front) : front[i] \notin S
    OBVIOUS
  <2>2. Only(front, S) = <<>>
    BY <1>2, <2>1
  <2> HIDE DEF front, P
  <2>3. Only(Append(front, s[n + 1]), S) = Only(front, S)
    BY <2>1, OnlyAppend
  <2>. QED
    BY <2>1, <2>2, <2>3
<1>3. Nat \subseteq P
  <2> HIDE DEF P
  <2>. QED
    BY <1>1, <1>2, Induction
<1>. QED
  BY <1>3

LEMMA OnlyAll ==
  ASSUME NEW T, NEW S
  PROVE  \A s \in Seq(T) : (\A i \in 1 .. Len(s) : s[i] \in S) => Only(s, S) = s
<1> DEFINE P == {n \in Nat : \A s \in Seq(T) :
                   Len(s) = n /\ (\A i \in 1 .. Len(s) : s[i] \in S) => Only(s, S) = s}
<1>1. 0 \in P
  BY FlattenEmpty DEF Only
<1>2. ASSUME NEW n \in Nat, n \in P PROVE n + 1 \in P
  <2> SUFFICES ASSUME NEW s \in Seq(T), Len(s) = n + 1, \A i \in 1 .. Len(s) : s[i] \in S
               PROVE  Only(s, S) = s
    OBVIOUS
  <2> DEFINE front == SubSeq(s, 1, n)
  <2>1. /\ front \in Seq(T) /\ Len(front) = n /\ s[n + 1] \in T /\ s[n + 1] \in S
        /\ s = Append(front, s[n + 1])
        /\ \A i \in 1 .. Len(front) : front[i] \in S
    OBVIOUS
  <2>2. Only(front, S) = front
    BY <1>2, <2>1
  <2> HIDE DEF front, P
  <2>. QED
    BY <2>1, <2>2, OnlyAppend
<1>3. Nat \subseteq P
  <2> HIDE DEF P
  <2>. QED
    BY <1>1, <1>2, Induction
<1>. QED
  BY <1>3

\* What the status machine does with what was written: it takes the first line.
LEMMA FirstLineTaken ==
  ASSUME NEW s \in Seq(Commands \union {"part"}), NEW n, n = FirstLine(s)
  PROVE  IF n > 0 /\ s[n] # "part"
         THEN s[n] \in Commands /\ Only(s, Commands) = <<s[n]>> \o Only(Rest(s), Commands)
         ELSE Only(s, Commands) = <<>> /\ Only(Rest(s), Commands) = <<>>
<1> DEFINE T == Commands \union {"part"}
<1>0. "part" \notin Commands
  OBVIOUS
<1>4. \A a, b \in Seq(T) : Only(a \o b, Commands) = Only(a, Commands) \o Only(b, Commands)
  BY OnlyConcat
<1>1. \/ n \in 1 .. Len(s) /\ s[n] # "part" /\ \A i \in 1 .. n - 1 : s[i] = "part"
      \/ n = Len(s) /\ \A i \in 1 .. n : s[i] = "part"
  BY FirstLineIs
<1>2. CASE n \in 1 .. Len(s) /\ s[n] # "part" /\ \A i \in 1 .. n - 1 : s[i] = "part"
  <2> DEFINE before == SubSeq(s, 1, n - 1)
  <2> DEFINE rest == SubSeq(s, n + 1, Len(s))
  <2> DEFINE x == s[n]
  <2>1. before \in Seq(T) /\ rest \in Seq(T) /\ x \in Commands /\ x \in T
    BY <1>2
  <2>2. s = Append(before, x) \o rest
    BY <1>2, SplitAt
  <2>3. \A i \in 1 .. Len(before) : before[i] \notin Commands
    BY <1>0, <1>2
  <2>4. Rest(s) = rest /\ s[n] = x /\ n > 0 /\ s[n] # "part"
    BY <1>2 DEF Rest
  <2> HIDE DEF before, rest, x, T
  <2>5. Only(before, Commands) = <<>>
    BY <2>1, <2>3, OnlyNone
  <2>6. Only(Append(before, x), Commands) = Append(<<>>, x)
    BY <2>1, <2>5, OnlyAppend
  <2>7. Append(before, x) \in Seq(T) /\ Append(<<>>, x) = <<x>>
    BY <2>1
  <2>8. Only(Append(before, x) \o rest, Commands)
          = Only(Append(before, x), Commands) \o Only(rest, Commands)
    BY <1>4, <2>1, <2>7
  <2>. QED
    BY <2>1, <2>2, <2>4, <2>6, <2>7, <2>8
<1>3. CASE n = Len(s) /\ \A i \in 1 .. n : s[i] = "part"
  <2>1. \A i \in 1 .. Len(s) : s[i] \notin Commands
    BY <1>0, <1>3
  <2>2. Rest(s) = <<>>
    BY <1>3 DEF Rest
  <2>3. Only(s, Commands) = <<>>
    BY <2>1, OnlyNone
  <2>4. Only(<<>>, Commands) = <<>>
    BY FlattenEmpty DEF Only
  <2>. QED
    BY <1>3, <2>2, <2>3, <2>4
<1>. QED
  BY <1>1, <1>2, <1>3

-----------------------------------------------------------------------------
(* What the histories say.                                                 *)

\* The responses to the first k commands of a connection.
Answered(l, k) == FlattenSeq([i \in 1 .. k |-> Response(order[l][i])])

\* A piece, or what stands for a response that is still to come.
Piece == Commands \X (0 .. MaxPieces)

HistoryTypes ==
  /\ from \in [Commands -> 0 .. link]
  /\ order \in [Links -> Seq(Commands)]
  /\ pieces \in [Commands -> 0 .. MaxPieces]
  /\ got \in [Links -> Seq(Piece)]

\* order and from tell the same, and what has not been written is not known
\* to the router.
WrittenOnce ==
  /\ \A l \in Links : \A i \in 1 .. Len(order[l]) : from[order[l][i]] = l
  /\ \A l \in Links : \A i, j \in 1 .. Len(order[l]) : order[l][i] = order[l][j] => i = j
  /\ \A c \in Commands : from[c] # 0 => \E i \in 1 .. Len(order[from[c]]) : order[from[c]][i] = c
  /\ \A c \in Commands : result[c] # "new" => from[c] # 0

\* A response has come for what is answered, and nothing on a link to come.
CameForAnswered ==
  /\ \A c \in Commands : pieces[c] > 0 <=> result[c] \in {"line", "timeout"}
  /\ \A l \in Links : l > link => got[l] = <<>>

Histories == HistoryTypes /\ WrittenOnce /\ CameForAnswered

LEMMA HistoriesInit == Init => Histories
  BY DEF Init, Exchange!Init, Exchange!New, Histories, HistoryTypes, WrittenOnce, CameForAnswered

LEMMA HistoriesStep == IInv /\ Histories /\ [Next]_vars => Histories'
<1> SUFFICES ASSUME IInv, Histories, [Next]_vars PROVE Histories'
  OBVIOUS
<1>t. TypeOK /\ OnlyWritten
  BY DEF IInv
<1>l. link \in 0 .. MaxLink /\ \A c \in Commands : from[c] # 0 => from[c] \in Links
  BY <1>t DEF TypeOK, Histories, HistoryTypes, Links
<1> USE <1>t DEF Histories
<1>1. CASE LoopRouterTx
  <2>1. /\ sendToMower \in Commands /\ result[sendToMower] = "new" /\ from[sendToMower] # 0
        /\ result' = [result EXCEPT ![sendToMower] = "open"]
        /\ UNCHANGED <<from, order, pieces, got, link>>
    BY <1>1 DEF LoopRouterTx, TypeOK, OnlyWritten, Written, Exchange!Accept, Exchange!Becomes,
       Exchange!Open, Exchange!New, app, peer, stream
  <2>2. HistoryTypes'
    BY <2>1 DEF HistoryTypes, Links
  <2>3. WrittenOnce'
    BY <2>1 DEF WrittenOnce, TypeOK
  <2>4. CameForAnswered'
    BY <2>1 DEF CameForAnswered, TypeOK
  <2>. QED
    BY <2>2, <2>3, <2>4
<1>2. CASE LoopBleTxNotify
  <2>1. /\ UNCHANGED <<result, from, order, pieces, link>>
        /\ got' = got \/ (Connected /\ got' = [got EXCEPT ![link] = Append(@, Head(sendToBle))])
        /\ Head(sendToBle) \in Piece
    BY <1>2 DEF Piece, LoopBleTxNotify, TypeOK, router, app, peer
  <2>2. /\ got' \in [Links -> Seq(Piece)]
        /\ \A l \in Links : l > link => got'[l] = got[l]
    <3>1. CASE got' = got
      BY <3>1 DEF HistoryTypes
    <3>2. CASE Connected /\ got' = [got EXCEPT ![link] = Append(@, Head(sendToBle))]
      <4>1. link \in Links
        BY <3>2, <1>l DEF Connected, Links
      <4>2. Append(got[link], Head(sendToBle)) \in Seq(Piece)
        BY <4>1, <2>1 DEF HistoryTypes
      <4>. QED
        BY <3>2, <4>1, <4>2 DEF HistoryTypes, Links
    <3>. QED
      BY <2>1, <3>1, <3>2
  <2>5. HistoryTypes'
    BY <2>1, <2>2 DEF HistoryTypes
  <2>3. WrittenOnce'
    BY <2>1 DEF WrittenOnce
  <2>4. CameForAnswered'
    BY <2>1, <2>2 DEF CameForAnswered
  <2>. QED
    BY <2>3, <2>4, <2>5
<1>3. CASE RouterReports
  <2>1. PICK c \in Commands, a \in {"line", "timeout"}, n \in 1 .. MaxPieces : RouterAnswers(c, a, n)
    BY <1>3 DEF RouterReports, Exchange!TimedOut
  <2>2. /\ result[c] = "open"
        /\ result' = [result EXCEPT ![c] = a] /\ pieces' = [pieces EXCEPT ![c] = n]
        /\ UNCHANGED <<from, order, got, link>>
    BY <2>1 DEF RouterAnswers, Exchange!Complete, Exchange!Becomes, Exchange!Open, app, peer
  <2>3. HistoryTypes'
    BY <2>2 DEF HistoryTypes, Links
  <2>4. WrittenOnce'
    BY <2>2 DEF WrittenOnce, TypeOK
  <2>5. CameForAnswered'
    BY <2>2 DEF CameForAnswered, HistoryTypes, TypeOK
  <2>. QED
    BY <2>3, <2>4, <2>5
<1>4. ASSUME NEW c \in Commands, OnWrite(c) PROVE Histories'
  <2>1. /\ from[c] = 0 /\ link \in Links
        /\ from' = [from EXCEPT ![c] = link]
        /\ order' = [order EXCEPT ![link] = Append(@, c)]
        /\ UNCHANGED <<result, pieces, got, link>>
    BY <1>4 DEF OnWrite, Received, Connected, Links, TypeOK, router, peer, stream
  <2>2. HistoryTypes'
    BY <2>1 DEF HistoryTypes, Links
  <2>3. WrittenOnce'
    <3>1. /\ \A l \in Links : l # link => order'[l] = order[l]
          /\ Len(order'[link]) = Len(order[link]) + 1 /\ order'[link][Len(order[link]) + 1] = c
          /\ \A i \in 1 .. Len(order[link]) : order'[link][i] = order[link][i]
          /\ Len(order[link]) \in Nat
      BY <2>1 DEF HistoryTypes
    <3>2. \A l \in Links : \A i \in 1 .. Len(order[l]) : order[l][i] \in Commands /\ order[l][i] # c
      <4>1. \A l \in Links : order[l] \in Seq(Commands) /\ l # 0
        BY DEF HistoryTypes, Links
      <4>2. \A l \in Links : \A i \in 1 .. Len(order[l]) : order[l][i] \in Commands
        BY <4>1
      <4>. QED
        BY <2>1, <4>1, <4>2 DEF WrittenOnce
    <3>3. \A d \in Commands : d # c => from'[d] = from[d]
      BY <2>1 DEF HistoryTypes
    <3>4. from'[c] = link
      BY <2>1 DEF HistoryTypes
    <3>5. \A l \in Links : \A i \in 1 .. Len(order'[l]) : from'[order'[l][i]] = l
      BY <3>1, <3>2, <3>3, <3>4 DEF WrittenOnce
    <3>6. \A l \in Links : \A i, j \in 1 .. Len(order'[l]) : order'[l][i] = order'[l][j] => i = j
      BY <3>1, <3>2 DEF WrittenOnce
    <3>7. \A d \in Commands : from'[d] # 0 => \E i \in 1 .. Len(order'[from'[d]]) : order'[from'[d]][i] = d
      <4> SUFFICES ASSUME NEW d \in Commands, from'[d] # 0
                   PROVE  \E i \in 1 .. Len(order'[from'[d]]) : order'[from'[d]][i] = d
        OBVIOUS
      <4>1. CASE d = c
        BY <4>1, <3>1, <3>4
      <4>2. CASE d # c
        <5>1. from'[d] = from[d] /\ from[d] \in Links
          BY <4>2, <3>3, <1>l
        <5>2. PICK i \in 1 .. Len(order[from[d]]) : order[from[d]][i] = d
          BY <5>1 DEF WrittenOnce
        <5>3. i \in 1 .. Len(order'[from[d]]) /\ order'[from[d]][i] = d
          BY <5>1, <5>2, <3>1
        <5>. QED
          BY <5>1, <5>3
      <4>. QED
        BY <4>1, <4>2
    <3>8. \A d \in Commands : result'[d] # "new" => from'[d] # 0
      BY <2>1, <3>3, <3>4 DEF WrittenOnce, Links
    <3>. QED
      BY <3>5, <3>6, <3>7, <3>8 DEF WrittenOnce
  <2>4. CameForAnswered'
    BY <2>1 DEF CameForAnswered
  <2>. QED
    BY <2>2, <2>3, <2>4
<1>5. CASE UNCHANGED Remembered /\ link' \in {link, link + 1}
  <2>1. HistoryTypes'
    BY <1>5 DEF Remembered, HistoryTypes, Links, TypeOK
  <2>2. WrittenOnce'
    BY <1>5 DEF Remembered, WrittenOnce
  <2>3. CameForAnswered'
    BY <1>5 DEF Remembered, CameForAnswered, TypeOK, Links
  <2>. QED
    BY <2>1, <2>2, <2>3
<1>. QED
  BY <1>1, <1>2, <1>3, <1>4, <1>5, WhoRemembers

-----------------------------------------------------------------------------
(* The responses to the commands of a connection.                          *)

LEMMA ResponseType ==
  ASSUME Histories
  PROVE  \A c \in Commands : Response(c) \in Seq(Piece)
<1> SUFFICES ASSUME NEW c \in Commands PROVE Response(c) \in Seq(Piece)
  OBVIOUS
<1>1. pieces[c] \in 0 .. MaxPieces
  BY DEF Histories, HistoryTypes
<1>2. CASE pieces[c] = 0
  <2>1. <<c, 0>> \in Piece
    BY DEF Piece
  <2>. QED
    BY <1>2, <2>1 DEF Response
<1>3. CASE pieces[c] # 0
  <2>1. \A i \in 1 .. pieces[c] : <<c, i>> \in Piece
    BY <1>1 DEF Piece
  <2>. QED
    BY <1>1, <1>3, <2>1 DEF Response
<1>. QED
  BY <1>2, <1>3

LEMMA AnsweredParts ==
  ASSUME Histories, NEW l \in Links, NEW k \in 0 .. Len(order[l])
  PROVE  [i \in 1 .. k |-> Response(order[l][i])] \in Seq(Seq(Piece))
<1>1. order[l] \in Seq(Commands)
  BY DEF Histories, HistoryTypes
<1>2. \A i \in 1 .. k : Response(order[l][i]) \in Seq(Piece)
  BY <1>1, ResponseType
<1>. QED
  BY <1>1, <1>2

LEMMA AnsweredNone == \A l \in Links : Answered(l, 0) = <<>>
<1> SUFFICES ASSUME NEW l \in Links PROVE Answered(l, 0) = <<>>
  OBVIOUS
<1>1. [i \in 1 .. 0 |-> Response(order[l][i])] = <<>>
  OBVIOUS
<1>. QED
  BY <1>1, FlattenEmpty DEF Answered

LEMMA AnsweredIsPrefix ==
  ASSUME Histories, NEW l \in Links, NEW k \in 0 .. Len(order[l])
  PROVE  \E t \in Seq(Piece) : Responses(l) = Answered(l, k) \o t
<1> DEFINE n == Len(order[l])
<1> DEFINE f(m) == [i \in 1 .. m |-> Response(order[l][i])]
<1> DEFINE rest == [i \in 1 .. n - k |-> Response(order[l][k + i])]
<1>0. order[l] \in Seq(Commands) /\ n \in Nat /\ k \in 0 .. n
  BY DEF Histories, HistoryTypes
<1>1. f(k) \in Seq(Seq(Piece))
  BY AnsweredParts
<1>2. rest \in Seq(Seq(Piece))
  <2>1. \A i \in 1 .. n - k : Response(order[l][k + i]) \in Seq(Piece)
    BY <1>0, ResponseType
  <2>. QED
    BY <1>0, <2>1
<1>3. f(n) = f(k) \o rest
  BY <1>0
<1> HIDE DEF f, rest, n
<1>4. FlattenSeq(f(k) \o rest) = FlattenSeq(f(k)) \o FlattenSeq(rest)
  BY <1>1, <1>2, FlattenConcat
<1>5. FlattenSeq(rest) \in Seq(Piece)
  BY <1>2, FlattenType
<1>6. Answered(l, k) = FlattenSeq(f(k)) /\ Responses(l) = FlattenSeq(f(n))
  BY DEF Answered, Responses, f, n
<1>. QED
  BY <1>3, <1>4, <1>5, <1>6

LEMMA SameAnswered ==
  ASSUME NEW l \in Links, NEW k \in Nat,
         \A i \in 1 .. k : order'[l][i] = order[l][i] /\ pieces'[order[l][i]] = pieces[order[l][i]]
  PROVE  Answered(l, k)' = Answered(l, k)
<1>1. \A i \in 1 .. k : Response(order[l][i])' = Response(order[l][i])
  BY DEF Response
<1>2. [i \in 1 .. k |-> Response(order[l][i])]' = [i \in 1 .. k |-> Response(order[l][i])]
  BY <1>1
<1>. QED
  BY <1>2 DEF Answered

-----------------------------------------------------------------------------
(* How far the app's lines have come.                                      *)

\* The status machine is for whoever may write, and has pieces only while it
\* sends them.
StatusOfTheLink ==
  /\ status \notin {"IDLE", "ADVERTISING", "PAIRING"} => Admitted
  /\ status \notin {"TXBLE", "BLENOTIFY"} => sendToBle = <<>>

\* Of the lines written on the connection k are answered, p passed on, which
\* are the same or one more, and the others in hand; what was received and
\* what is left to notify are the responses to those answered.
Progress(k, p) ==
  /\ p \in {k, k + 1} /\ p <= Len(order[link])
  /\ \A i \in 1 .. Len(order[link]) : /\ pieces[order[link][i]] > 0 <=> i <= k
                                      /\ result[order[link][i]] = "new" <=> i > p
  /\ got[link] \o sendToBle = Answered(link, k)
  /\ InHand = SubSeq(order[link], p + 1, Len(order[link]))
InOrder == Connected => \E k, p \in Nat : Progress(k, p)


\* What was received on the connections before.
ReceivedBefore ==
  \A l \in Links : l # link \/ ~Connected => IsPrefix(got[l], Responses(l))

Lines == StatusOfTheLink /\ InOrder /\ ReceivedBefore
LInv == IInv /\ Histories /\ (~overtaken => Lines)

LEMMA StatusStep ==
  ASSUME IInv, StatusOfTheLink, ~overtaken, [Next]_vars, ~overtaken'
  PROVE  StatusOfTheLink'
<1>t. TypeOK /\ Undisturbed
  BY DEF IInv
<1> USE <1>t DEF router, app, strings, peer, stream, StatusOfTheLink, Admitted, Connected,
                 Undisturbed, WaitsForTheRouter, SendsOnTheLink
<1>1. CASE LoopIdle \/ LoopConnected \/ LoopBleRx \/ LoopRouterTx \/ LoopRouterRefuses \/ LoopWait
  BY <1>1 DEF LoopIdle, LoopConnected, LoopBleRx, LoopRouterTx, LoopRouterRefuses, LoopWait
<1>2. CASE Advertised
  BY <1>2 DEF Advertised
<1>3. CASE LoopBleTxNotify
  BY <1>3 DEF LoopBleTxNotify, InBleTx
<1>4. CASE LoopBleTxNotified
  BY <1>4 DEF LoopBleTxNotified, Overtaken
<1>5. CASE LoopBleTxDone
  BY <1>5 DEF LoopBleTxDone, InBleTx
<1>6. CASE Others \/ RouterIdle \/ RouterBusy
  <2>1. UNCHANGED <<status, sendToBle, link, pin, authenticated>>
    BY <1>6 DEF Others, RouterIdle, RouterBusy
  <2>. QED
    BY <2>1
<1>7. CASE RouterReports
  <2>1. PICK c \in Commands, a \in {"line", "timeout"}, n \in 1 .. MaxPieces : RouterAnswers(c, a, n)
    BY <1>7 DEF RouterReports, Exchange!TimedOut
  <2>2. from[c] = link /\ result[c] = "open" /\ from[c] # 0
    BY <2>1 DEF RouterAnswers, Exchange!Complete, Exchange!Open, IInv, OnlyWritten, Written
  <2>. QED
    BY <2>1, <2>2 DEF RouterAnswers
<1>8. CASE OnConnect \/ OnDisconnect
  BY <1>8 DEF OnConnect, OnDisconnect, Reset, TypeOK
<1>9. CASE OnAuthenticationComplete
  BY <1>9 DEF OnAuthenticationComplete, TypeOK
<1>10. CASE OnWritePart \/ \E c \in Commands : OnWrite(c)
  <2>1. /\ UNCHANGED <<sendToBle, link, pin, authenticated>>
        /\ Admitted
        /\ status' = status \/ (status = "CONNECTED" /\ status' = "RXBLE")
    BY <1>10 DEF OnWritePart, OnWrite, Received
  <2>. QED
    BY <2>1
<1>11. CASE OnNotify
  BY <1>11 DEF OnNotify
<1>12. CASE UNCHANGED vars
  BY <1>12 DEF vars
<1>. QED
  BY <1>1, <1>2, <1>3, <1>4, <1>5, <1>6, <1>7, <1>8, <1>9, <1>10, <1>11, <1>12
     DEF Next, Loop, LoopBle, Host

-----------------------------------------------------------------------------
(* The steps that neither answer, pass on nor write a line.                *)

LEMMA ProgressKept ==
  ASSUME Histories, UNCHANGED <<result, order, pieces, link>>, InHand' = InHand,
         got'[link] \o sendToBle' = got[link] \o sendToBle, InOrder
  PROVE  InOrder'
<1> SUFFICES ASSUME Connected, NEW k \in Nat, NEW p \in Nat, Progress(k, p)
             PROVE  Progress(k, p)'
  BY DEF InOrder, Connected
<1>1. Answered(link, k)' = Answered(link, k)
  BY DEF Answered, Response
<1>. QED
  BY <1>1 DEF Progress

LEMMA LinesInit == Init => Lines
<1> SUFFICES ASSUME Init PROVE Lines
  OBVIOUS
<1>1. StatusOfTheLink
  BY DEF Init, StatusOfTheLink
<1>2. InOrder
  BY DEF Init, InOrder, Connected
<1>3. \A l \in Links : got[l] = <<>> /\ order[l] = <<>>
  BY DEF Init
<1>4. \A l \in Links : Responses(l) = <<>>
  <2>1. \A l \in Links : [i \in 1 .. Len(order[l]) |-> Response(order[l][i])] = <<>>
    BY <1>3
  <2>. QED
    BY <2>1, FlattenEmpty DEF Responses
<1>5. ReceivedBefore
  BY <1>3, <1>4 DEF ReceivedBefore, IsPrefix
<1>. QED
  BY <1>1, <1>2, <1>5 DEF Lines

LEMMA InHandKept ==
  ASSUME UNCHANGED <<sendToMower, receivedFromBle>>, status = "TXROUTER" <=> status' = "TXROUTER"
  PROVE  InHand' = InHand
  BY DEF InHand, Only

LEMMA InOrderWaiting ==
  ASSUME Histories, InOrder, UNCHANGED <<result, order, pieces, link, got, strings>>,
         status = "TXROUTER" <=> status' = "TXROUTER"
  PROVE  InOrder'
<1>1. InHand' = InHand
  BY InHandKept DEF strings
<1>. QED
  BY <1>1, ProgressKept DEF strings

LEMMA InOrderBleRx ==
  ASSUME IInv, Histories, StatusOfTheLink, InOrder, LoopBleRx
  PROVE  InOrder'
<1>1. receivedFromBle \in Seq(Commands \union {"part"}) /\ status = "RXBLE"
  BY DEF IInv, TypeOK, LoopBleRx
<1> DEFINE n == FirstLine(receivedFromBle)
<1> DEFINE taken == n > 0 /\ receivedFromBle[n] # "part"
<1>2. IF taken
      THEN /\ receivedFromBle[n] \in Commands
           /\ Only(receivedFromBle, Commands) = <<receivedFromBle[n]>> \o Only(Rest(receivedFromBle), Commands)
      ELSE Only(receivedFromBle, Commands) = <<>> /\ Only(Rest(receivedFromBle), Commands) = <<>>
  BY <1>1, FirstLineTaken
<1>3. /\ IF taken THEN sendToMower' = receivedFromBle[n] /\ status' = "TXROUTER"
                  ELSE status' = status
      /\ receivedFromBle' = Rest(receivedFromBle)
      /\ UNCHANGED <<result, order, pieces, link, got, sendToBle>>
  BY DEF LoopBleRx, router, app, peer, stream
<1>4. InHand = <<>> \o Only(receivedFromBle, Commands)
  BY <1>1 DEF InHand
<1>5. InHand' = (IF taken THEN <<receivedFromBle[n]>> ELSE <<>>) \o Only(Rest(receivedFromBle), Commands)
  BY <1>1, <1>3 DEF InHand, Only
<1>6. Only(receivedFromBle, Commands) \in Seq(Commands \union {"part"})
  BY <1>1, OnlyType
<1> HIDE DEF n, taken
<1>7. InHand' = InHand
  <2>1. CASE taken
    BY <2>1, <1>2, <1>4, <1>5, <1>6
  <2>2. CASE ~taken
    BY <2>2, <1>2, <1>4, <1>5, <1>6
  <2>. QED
    BY <2>1, <2>2
<1>. QED
  BY <1>3, <1>7, ProgressKept

LEMMA InOrderNotify ==
  ASSUME IInv, Histories, StatusOfTheLink, InOrder, LoopBleTxNotify, ~overtaken, ~overtaken'
  PROVE  InOrder'
<1>1. TypeOK /\ SendsOnTheLink
  BY DEF IInv, Undisturbed
<1>2. link = since'
  BY DEF LoopBleTxNotify
<1>3. status = "TXBLE" /\ Connected
  BY <1>1, <1>2 DEF LoopBleTxNotify, InBleTx, SendsOnTheLink, Admitted
<1>4. link \in Links
  BY <1>1, <1>3 DEF TypeOK, Connected, Links
<1>5. got[link] \in Seq(Piece) /\ sendToBle \in Seq(Piece)
  <2>1. Commands \X (1 .. MaxPieces) \subseteq Piece
    BY DEF Piece
  <2>. QED
    BY <1>1, <1>4, <2>1 DEF TypeOK, Histories, HistoryTypes
<1>6. /\ sendToBle # <<>>
      /\ sendToBle' = Tail(sendToBle)
      /\ got' = [got EXCEPT ![link] = Append(@, Head(sendToBle))]
      /\ UNCHANGED <<result, order, pieces, link, status, sendToMower, receivedFromBle>>
  BY <1>3 DEF LoopBleTxNotify, router, app, peer
<1>7. got'[link] = Append(got[link], Head(sendToBle))
  BY <1>4, <1>6 DEF Histories, HistoryTypes
<1>8. got'[link] \o sendToBle' = got[link] \o sendToBle
  BY <1>5, <1>6, <1>7, MovedOn
<1>. QED
  BY <1>6, <1>8, InHandKept, ProgressKept

LEMMA InOrderWritePart ==
  ASSUME IInv, Histories, InOrder, OnWritePart
  PROVE  InOrder'
<1>1. receivedFromBle \in Seq(Commands \union {"part"}) /\ "part" \notin Commands
  BY DEF IInv, TypeOK
<1>2. /\ receivedFromBle' = Append(receivedFromBle, "part")
      /\ status = "TXROUTER" <=> status' = "TXROUTER"
      /\ UNCHANGED <<result, order, pieces, link, got, sendToBle, sendToMower>>
  BY <1>1 DEF OnWritePart, Received, router, peer, stream
<1>3. Only(Append(receivedFromBle, "part"), Commands) = Only(receivedFromBle, Commands)
  BY <1>1, OnlyAppend
<1>4. InHand' = InHand
  BY <1>2, <1>3 DEF InHand, Only
<1>. QED
  BY <1>2, <1>4, ProgressKept

-----------------------------------------------------------------------------
(* The steps that write, pass on and answer a line.                        *)

LEMMA InOrderConnect ==
  ASSUME IInv, Histories, OnConnect
  PROVE  InOrder'
<1>1. /\ link' = link + 1 /\ link' \in Links
      /\ receivedFromBle' = <<>> /\ sendToBle' = <<>> /\ status' # "TXROUTER"
      /\ UNCHANGED <<order, got>>
  BY DEF OnConnect, Reset, IInv, TypeOK, Links, app, stream
<1>2. order[link'] = <<>>
  <2>1. order[link'] \in Seq(Commands)
    BY <1>1 DEF Histories, HistoryTypes
  <2>2. ASSUME NEW i \in 1 .. Len(order[link']) PROVE FALSE
    <3>1. order[link'][i] \in Commands /\ from[order[link'][i]] = link'
      BY <1>1, <2>1 DEF Histories, WrittenOnce
    <3>2. from[order[link'][i]] \in 0 .. link /\ link \in Nat
      BY <3>1 DEF Histories, HistoryTypes, IInv, TypeOK
    <3>. QED
      BY <1>1, <3>1, <3>2
  <2>3. Len(order[link']) = 0
    BY <2>1, <2>2
  <2>. QED
    BY <2>1, <2>3
<1>3. got[link'] = <<>>
  BY <1>1 DEF Histories, CameForAnswered, IInv, TypeOK
<1>4. Answered(link, 0)' = <<>>
  BY <1>1, AnsweredNone, FlattenEmpty DEF Answered
<1>5. InHand' = <<>>
  BY <1>1, FlattenEmpty DEF InHand, Only
<1>6. Progress(0, 0)'
  BY <1>1, <1>2, <1>3, <1>4, <1>5 DEF Progress
<1>. QED
  BY <1>6 DEF InOrder

LEMMA InOrderWrite ==
  ASSUME IInv, Histories, StatusOfTheLink, InOrder, NEW c \in Commands, OnWrite(c)
  PROVE  InOrder'
<1>0. receivedFromBle \in Seq(Commands \union {"part"}) /\ link \in 0 .. MaxLink
  BY DEF IInv, TypeOK
<1>1. /\ Connected /\ link \in Links /\ from[c] = 0
      /\ receivedFromBle' = Append(receivedFromBle, c)
      /\ status = "TXROUTER" <=> status' = "TXROUTER"
      /\ order' = [order EXCEPT ![link] = Append(@, c)]
      /\ UNCHANGED <<result, pieces, link, got, sendToBle, sendToMower>>
  BY <1>0 DEF OnWrite, Received, Connected, Links, router, peer, stream
<1>2. PICK k \in Nat, p \in Nat : Progress(k, p)
  BY <1>1 DEF InOrder
<1> DEFINE o == order[link]
<1>3. /\ o \in Seq(Commands) /\ Len(o) \in Nat
      /\ order'[link] = Append(o, c)
  BY <1>1 DEF Histories, HistoryTypes
<1>4. /\ p \in {k, k + 1} /\ p <= Len(o)
      /\ \A i \in 1 .. Len(o) : (pieces[o[i]] > 0 <=> i <= k) /\ (result[o[i]] = "new" <=> i > p)
      /\ got[link] \o sendToBle = Answered(link, k)
      /\ InHand = SubSeq(o, p + 1, Len(o))
  BY <1>2 DEF Progress
<1>5. result[c] = "new" /\ ~(pieces[c] > 0)
  BY <1>1 DEF Histories, WrittenOnce, CameForAnswered
<1>6. Answered(link, k)' = Answered(link, k)
  <2>1. PICK l \in Links : l = link
    BY <1>1
  <2>2. \A i \in 1 .. k : order'[l][i] = order[l][i] /\ pieces'[order[l][i]] = pieces[order[l][i]]
    BY <1>1, <1>3, <1>4, <2>1
  <2>3. Answered(l, k)' = Answered(l, k)
    BY <2>2, SameAnswered
  <2>. QED
    BY <1>1, <2>1, <2>3
<1>7. InHand' = Append(InHand, c)
  <2>1. Only(Append(receivedFromBle, c), Commands) = Append(Only(receivedFromBle, Commands), c)
    BY <1>0, OnlyAppend
  <2>2. Only(receivedFromBle, Commands) \in Seq(Commands \union {"part"})
    BY <1>0, OnlyType
  <2> DEFINE first == IF status = "TXROUTER" THEN <<sendToMower>> ELSE <<>>
  <2>3. first \in Seq(Commands \union {"part"})
    <3>1. status = "TXROUTER" => sendToMower \in Commands
      BY DEF IInv, TypeOK
    <3>2. CASE status = "TXROUTER"
      BY <3>1, <3>2
    <3>3. CASE status # "TXROUTER"
      BY <3>3
    <3>. QED
      BY <3>2, <3>3
  <2>4. InHand = first \o Only(receivedFromBle, Commands)
    BY DEF InHand
  <2>5. InHand' = first \o Only(Append(receivedFromBle, c), Commands)
    BY <1>1 DEF InHand, Only
  <2> HIDE DEF first
  <2>. QED
    BY <2>1, <2>2, <2>3, <2>4, <2>5, AppendToConcat
<1> DEFINE more == Append(o, c)
<1>8. SubSeq(more, p + 1, Len(o) + 1) = Append(SubSeq(o, p + 1, Len(o)), c)
  BY <1>3, <1>4, SubSeqMore
<1>9. /\ Len(more) = Len(o) + 1
      /\ \A i \in 1 .. Len(o) + 1 : more[i] = IF i = Len(o) + 1 THEN c ELSE o[i]
  BY <1>3
<1> HIDE DEF o, more
<1>10. \A i \in 1 .. Len(more) : /\ pieces[more[i]] > 0 <=> i <= k
                                 /\ result[more[i]] = "new" <=> i > p
  <2> SUFFICES ASSUME NEW i \in 1 .. Len(more)
               PROVE  (pieces[more[i]] > 0 <=> i <= k) /\ (result[more[i]] = "new" <=> i > p)
    OBVIOUS
  <2>1. CASE i = Len(o) + 1
    <3>1. more[i] = c /\ i > p /\ ~(i <= k)
      BY <1>3, <1>4, <1>9, <2>1
    <3>. QED
      BY <1>5, <3>1
  <2>2. CASE i # Len(o) + 1
    <3>1. i \in 1 .. Len(o) /\ more[i] = o[i]
      BY <1>3, <1>9, <2>2
    <3>. QED
      BY <1>4, <3>1
  <2>. QED
    BY <2>1, <2>2
<1>11. order'[link'] = more /\ p <= Len(more)
  BY <1>1, <1>3, <1>4, <1>9 DEF o, more
<1>12. InHand' = SubSeq(more, p + 1, Len(more))
  BY <1>4, <1>7, <1>8, <1>9
<1>13. Progress(k, p)'
  BY <1>1, <1>4, <1>6, <1>10, <1>11, <1>12 DEF Progress
<1>. QED
  BY <1>13 DEF InOrder

LEMMA InOrderRouterTx ==
  ASSUME IInv, Histories, StatusOfTheLink, InOrder, LoopRouterTx
  PROVE  InOrder'
<1>1. /\ sendToMower \in Commands /\ status = "TXROUTER" /\ status' # "TXROUTER"
      /\ \A c \in Commands : result[c] # "open"
      /\ result' = [result EXCEPT ![sendToMower] = "open"]
      /\ UNCHANGED <<order, pieces, link, got, sendToBle, receivedFromBle>>
  BY DEF LoopRouterTx, IInv, TypeOK, Exchange!Accept, Exchange!NobodyWaits, Exchange!Becomes,
     Exchange!Open, app, peer, stream, strings
<1>2. Connected /\ link \in Links
  BY <1>1 DEF StatusOfTheLink, Admitted, IInv, TypeOK, Connected, Links
<1>3. PICK k \in Nat, p \in Nat : Progress(k, p)
  BY <1>2 DEF InOrder
<1> DEFINE o == order[link]
<1> DEFINE n == Len(o)
<1>4. o \in Seq(Commands) /\ n \in Nat /\ \A i \in 1 .. n : o[i] \in Commands
  BY <1>2 DEF Histories, HistoryTypes
<1>5. /\ p \in {k, k + 1} /\ p <= n
      /\ \A i \in 1 .. n : (pieces[o[i]] > 0 <=> i <= k) /\ (result[o[i]] = "new" <=> i > p)
      /\ got[link] \o sendToBle = Answered(link, k)
      /\ InHand = SubSeq(o, p + 1, n)
  BY <1>3 DEF Progress
<1>6. \A i, j \in 1 .. n : o[i] = o[j] => i = j
  BY <1>2 DEF Histories, WrittenOnce
<1>7. p = k
  <2> SUFFICES ASSUME p = k + 1 PROVE FALSE
    BY <1>5
  <2>1. p \in 1 .. n /\ o[p] \in Commands
    BY <1>4, <1>5
  <2>2. result[o[p]] # "new" /\ ~(pieces[o[p]] > 0)
    BY <1>5, <2>1
  <2>3. result[o[p]] \in {"new", "open", "line", "timeout"}
    BY <2>1 DEF IInv, TypeOK
  <2>. QED
    BY <1>1, <2>1, <2>2, <2>3 DEF Histories, CameForAnswered
<1> DEFINE waiting == Only(receivedFromBle, Commands)
<1>8. InHand = <<sendToMower>> \o waiting /\ InHand' = <<>> \o waiting
      /\ waiting \in Seq(Commands \union {"part"})
  <2>1. waiting \in Seq(Commands \union {"part"})
    BY OnlyType DEF IInv, TypeOK
  <2>. QED
    BY <1>1, <2>1 DEF InHand, Only
<1> HIDE DEF waiting, o, n
<1>9. p + 1 <= n /\ o[p + 1] = sendToMower /\ waiting = SubSeq(o, (p + 1) + 1, n)
  <2>1. SubSeq(o, p + 1, n) = <<sendToMower>> \o waiting
    BY <1>5, <1>8
  <2>2. /\ Len(<<sendToMower>> \o waiting) = Len(waiting) + 1
        /\ (<<sendToMower>> \o waiting)[1] = sendToMower
        /\ Tail(<<sendToMower>> \o waiting) = waiting
    BY <1>1, <1>8, OneBefore
  <2>3. p + 1 <= n
    <3>1. Len(waiting) \in Nat
      BY <1>8
    <3>2. n < p + 1 => SubSeq(o, p + 1, n) = <<>>
      BY <1>4, SubSeqEmpty
    <3>3. Len(<<>>) = 0
      OBVIOUS
    <3>. QED
      BY <1>4, <2>1, <2>2, <3>1, <3>2, <3>3
  <2> DEFINE rest == SubSeq(o, (p + 1) + 1, n)
  <2>4. SubSeq(o, p + 1, n) = <<o[p + 1]>> \o rest
    <3>1. p + 1 \in 1 .. Len(o) /\ n \in p + 1 .. Len(o)
      BY <1>4, <2>3 DEF n
    <3>. QED
      BY <1>4, <3>1, SubSeqRecursiveFirst
  <2>5. rest \in Seq(Commands) /\ o[p + 1] \in Commands
    BY <1>4, <2>3 DEF n
  <2> HIDE DEF rest
  <2>6. /\ (<<o[p + 1]>> \o rest)[1] = o[p + 1]
        /\ Tail(<<o[p + 1]>> \o rest) = rest
    BY <2>5, OneBefore
  <2>7. o[p + 1] = sendToMower /\ waiting = rest
    BY <2>1, <2>2, <2>4, <2>6
  <2>. QED
    BY <2>3, <2>7 DEF rest
<1>10. InHand' = SubSeq(o, (p + 1) + 1, n)
  BY <1>8, <1>9
<1>11. \A i \in 1 .. n : result'[o[i]] = "new" <=> i > p + 1
  <2> SUFFICES ASSUME NEW i \in 1 .. n PROVE result'[o[i]] = "new" <=> i > p + 1
    OBVIOUS
  <2>1. o[i] = sendToMower <=> i = p + 1
    BY <1>4, <1>6, <1>9
  <2>2. result'[o[i]] = IF i = p + 1 THEN "open" ELSE result[o[i]]
    BY <1>1, <1>4, <2>1 DEF IInv, TypeOK
  <2>. QED
    BY <1>5, <2>2
<1>12. Answered(link, k)' = Answered(link, k)
  BY <1>1 DEF Answered, Response
<1>13. Progress(k, p + 1)'
  BY <1>1, <1>5, <1>7, <1>9, <1>10, <1>11, <1>12 DEF Progress, o, n
<1>. QED
  BY <1>13 DEF InOrder

\* The response is to the line passed on last, whose place is the next.
LEMMA InOrderAnswers ==
  ASSUME IInv, Histories, StatusOfTheLink, InOrder, ~overtaken, ~overtaken',
         NEW c \in Commands, NEW a \in {"line", "timeout"}, NEW n \in 1 .. MaxPieces,
         RouterAnswers(c, a, n)
  PROVE  InOrder'
<1>1. /\ result[c] = "open" /\ result' = [result EXCEPT ![c] = a]
      /\ pieces' = [pieces EXCEPT ![c] = n]
      /\ sendToBle' = [i \in 1 .. n |-> <<c, i>>]
      /\ status' = "TXBLE" /\ from[c] = link
      /\ UNCHANGED <<order, link, got, receivedFromBle, sendToMower>>
  BY DEF RouterAnswers, Exchange!Complete, Exchange!Becomes, Exchange!Open, app, peer
<1>2. from[c] # 0 /\ status = "RXROUTER" /\ Connected
  BY <1>1 DEF IInv, Undisturbed, OnlyWritten, Written, WaitsForTheRouter, Admitted
<1>3. link \in Links /\ sendToBle = <<>>
  BY <1>1, <1>2 DEF StatusOfTheLink, IInv, TypeOK, Links
<1>4. PICK k \in Nat, p \in Nat : Progress(k, p)
  BY <1>2 DEF InOrder
<1>5. PICK l \in Links : l = link
  BY <1>3
<1> DEFINE o == order[l]
<1>6. o \in Seq(Commands) /\ Len(o) \in Nat /\ \A i \in 1 .. Len(o) : o[i] \in Commands
  BY DEF Histories, HistoryTypes
<1>7. /\ p \in {k, k + 1} /\ p <= Len(o)
      /\ \A i \in 1 .. Len(o) : (pieces[o[i]] > 0 <=> i <= k) /\ (result[o[i]] = "new" <=> i > p)
      /\ got[l] \o sendToBle = Answered(l, k)
      /\ InHand = SubSeq(o, p + 1, Len(o))
  BY <1>4, <1>5 DEF Progress
<1>8. \A i, j \in 1 .. Len(o) : o[i] = o[j] => i = j
  BY DEF Histories, WrittenOnce
<1>9. PICK i \in 1 .. Len(o) : o[i] = c
  BY <1>1, <1>2, <1>5 DEF Histories, WrittenOnce
<1>10. i = k + 1 /\ p = k + 1
  <2>1. ~(pieces[o[i]] > 0) /\ result[o[i]] # "new"
    BY <1>1, <1>9 DEF Histories, CameForAnswered
  <2>2. ~(i <= k) /\ ~(i > p)
    BY <1>7, <2>1
  <2>. QED
    BY <1>6, <1>7, <1>9, <2>2
<1>11. Answered(l, k)' = Answered(l, k)
  <2>1. \A j \in 1 .. k : o[j] \in Commands /\ o[j] # c
    BY <1>6, <1>7, <1>8, <1>9, <1>10
  <2>2. \A j \in 1 .. k : order'[l][j] = order[l][j] /\ pieces'[order[l][j]] = pieces[order[l][j]]
    BY <1>1, <2>1 DEF Histories, HistoryTypes
  <2>. QED
    BY <2>2, SameAnswered
<1>12. Response(c)' = sendToBle'
  BY <1>1 DEF Response, Histories, HistoryTypes
<1>13. got[l] = Answered(l, k)
  <2>1. got[l] \in Seq(Piece)
    BY DEF Histories, HistoryTypes
  <2>. QED
    BY <1>3, <1>7, <2>1
<1> DEFINE f == [j \in 1 .. k |-> Response(o[j])]
<1>14. f \in Seq(Seq(Piece)) /\ sendToBle' \in Seq(Piece)
  <2>1. k \in 0 .. Len(order[l])
    BY <1>7
  <2>2. \A j \in 1 .. n : <<c, j>> \in Piece
    BY DEF Piece
  <2>. QED
    BY <1>1, <2>1, <2>2, AnsweredParts
<1>15. Answered(l, k + 1)' = got'[l] \o sendToBle'
  <2>1. \A j \in 1 .. k : Response(order[l][j])' = Response(o[j])
    <3>1. \A j \in 1 .. k : o[j] \in Commands /\ o[j] # c
      BY <1>6, <1>7, <1>8, <1>9, <1>10
    <3>. QED
      BY <1>1, <3>1 DEF Response, Histories, HistoryTypes
  <2>2. Response(order[l][k + 1])' = sendToBle'
    BY <1>1, <1>9, <1>10, <1>12 DEF Response
  <2>3. [j \in 1 .. k + 1 |-> Response(order[l][j])]' = Append(f, sendToBle')
    BY <2>1, <2>2
  <2> HIDE DEF f
  <2>4. FlattenSeq(Append(f, sendToBle')) = FlattenSeq(f) \o sendToBle'
    BY <1>14, FlattenAppend
  <2>. QED
    BY <1>1, <1>13, <2>3, <2>4 DEF Answered, f
<1>16. InHand' = InHand
  BY <1>1, <1>2, InHandKept
<1>17. \A j \in 1 .. Len(o) : /\ pieces'[o[j]] > 0 <=> j <= k + 1
                              /\ result'[o[j]] = "new" <=> j > k + 1
  <2> SUFFICES ASSUME NEW j \in 1 .. Len(o)
               PROVE  (pieces'[o[j]] > 0 <=> j <= k + 1) /\ (result'[o[j]] = "new" <=> j > k + 1)
    OBVIOUS
  <2>1. CASE j = i
    BY <1>1, <1>6, <1>9, <1>10, <2>1 DEF Histories, HistoryTypes, IInv, TypeOK
  <2>2. CASE j # i
    <3>1. o[j] # c /\ o[j] \in Commands
      BY <1>6, <1>8, <1>9, <2>2
    <3>2. pieces'[o[j]] = pieces[o[j]] /\ result'[o[j]] = result[o[j]]
      BY <1>1, <3>1 DEF Histories, HistoryTypes, IInv, TypeOK
    <3>. QED
      BY <1>7, <1>10, <2>2, <3>2
  <2>. QED
    BY <2>1, <2>2
<1>18. Progress(k + 1, k + 1)'
  BY <1>1, <1>5, <1>7, <1>10, <1>15, <1>16, <1>17 DEF Progress
<1>. QED
  BY <1>18 DEF InOrder

LEMMA InOrderStep ==
  ASSUME IInv, Histories, StatusOfTheLink, InOrder, ~overtaken, [Next]_vars, ~overtaken'
  PROVE  InOrder'
<1> USE DEF Remembered, router, app, strings, peer, stream
<1>1. CASE LoopIdle \/ LoopConnected \/ LoopRouterRefuses \/ LoopWait \/ Advertised
  <2>1. /\ UNCHANGED <<result, order, pieces, link, got, strings>>
        /\ status = "TXROUTER" <=> status' = "TXROUTER"
    BY <1>1 DEF LoopIdle, LoopConnected, LoopRouterRefuses, LoopWait, Advertised
  <2>. QED
    BY <2>1, InOrderWaiting
<1>2. CASE LoopBleTxNotified \/ LoopBleTxDone
  <2>1. status \in {"TXBLE", status'} /\ status' \in {"BLENOTIFY", "CONNECTED", status}
    BY <1>2 DEF LoopBleTxNotified, LoopBleTxDone, InBleTx, Overtaken, IInv, Undisturbed, SendsOnTheLink
  <2>2. /\ UNCHANGED <<result, order, pieces, link, got, strings>>
        /\ status = "TXROUTER" <=> status' = "TXROUTER"
    BY <1>2, <2>1 DEF LoopBleTxNotified, LoopBleTxDone
  <2>. QED
    BY <2>2, InOrderWaiting
<1>3. CASE Others \/ RouterIdle \/ RouterBusy \/ OnNotify \/ UNCHANGED vars
  <2>1. /\ UNCHANGED <<result, order, pieces, link, got, strings>>
        /\ status = "TXROUTER" <=> status' = "TXROUTER"
    BY <1>3 DEF Others, RouterIdle, RouterBusy, OnNotify, vars
  <2>. QED
    BY <2>1, InOrderWaiting
<1>4. CASE OnAuthenticationComplete
  <2>1. /\ UNCHANGED <<result, order, pieces, link, got, strings>>
        /\ status # "TXROUTER" /\ status' # "TXROUTER"
    BY <1>4 DEF OnAuthenticationComplete, StatusOfTheLink, Admitted
  <2>. QED
    BY <2>1, InOrderWaiting
<1>5. CASE LoopBleRx
  BY <1>5, InOrderBleRx
<1>6. CASE LoopRouterTx
  BY <1>6, InOrderRouterTx
<1>7. CASE LoopBleTxNotify
  BY <1>7, InOrderNotify
<1>8. CASE RouterReports
  BY <1>8, InOrderAnswers DEF RouterReports, Exchange!TimedOut
<1>9. CASE OnConnect
  BY <1>9, InOrderConnect
<1>10. CASE OnDisconnect
  <2>1. link \in Nat /\ link % 2 = 1 /\ link' = link + 1
    BY <1>10 DEF OnDisconnect, Connected, IInv, TypeOK
  <2>2. ~Connected'
    BY <2>1 DEF Connected
  <2>. QED
    BY <2>2 DEF InOrder
<1>11. CASE \E c \in Commands : OnWrite(c)
  BY <1>11, InOrderWrite
<1>12. CASE OnWritePart
  BY <1>12, InOrderWritePart
<1>. QED
  BY <1>1, <1>2, <1>3, <1>4, <1>5, <1>6, <1>7, <1>8, <1>9, <1>10, <1>11, <1>12
     DEF Next, Loop, LoopBle, Host

-----------------------------------------------------------------------------
(* What was received, on this connection and on those before.              *)

LEMMA ReceivedOnTheLink ==
  ASSUME TypeOK, Histories, InOrder, Connected
  PROVE  link \in Links /\ IsPrefix(got[link], Responses(link))
<1>0. link \in Links
  BY DEF TypeOK, Connected, Links
<1>6. \A a, b, y \in Seq(Piece) : (a \o b) \o y = a \o (b \o y)
  BY ConcatAssociates
<1>1. PICK k \in Nat, p \in Nat : Progress(k, p)
  BY DEF InOrder
<1>2. k \in 0 .. Len(order[link]) /\ got[link] \o sendToBle = Answered(link, k)
  BY <1>0, <1>1 DEF Progress, Histories, HistoryTypes
<1>3. PICK t \in Seq(Piece) : Responses(link) = Answered(link, k) \o t
  BY <1>0, <1>2, AnsweredIsPrefix
<1>4. got[link] \in Seq(Piece) /\ sendToBle \in Seq(Piece)
  <2>1. Commands \X (1 .. MaxPieces) \subseteq Piece
    BY DEF Piece
  <2>. QED
    BY <1>0, <2>1 DEF TypeOK, Histories, HistoryTypes
<1>5. (got[link] \o sendToBle) \o t = got[link] \o (sendToBle \o t)
  BY <1>4, <1>6
<1>7. sendToBle \o t \in Seq(Piece)
  BY <1>4
<1>. QED
  BY <1>0, <1>2, <1>3, <1>4, <1>5, <1>7, FirstIsPrefix

\* No step is for a connection that is over.
LEMMA OthersKept ==
  ASSUME IInv, Histories, ~overtaken, [Next]_vars, ~overtaken',
         NEW l \in Links, l # link \/ ~Connected
  PROVE  got'[l] = got[l] /\ Responses(l)' = Responses(l)
<1> USE DEF Remembered, router, app, peer, stream
<1>1. CASE UNCHANGED Remembered
  BY <1>1 DEF Responses, Response
<1>2. CASE LoopRouterTx
  BY <1>2 DEF LoopRouterTx, Responses, Response
<1>3. CASE LoopBleTxNotify
  <2>1. UNCHANGED <<order, pieces>> /\ got'[l] = got[l]
    BY <1>3 DEF LoopBleTxNotify, Histories, HistoryTypes
  <2>. QED
    BY <2>1 DEF Responses, Response
<1>4. CASE RouterReports
  <2>1. PICK c \in Commands, a \in {"line", "timeout"}, n \in 1 .. MaxPieces : RouterAnswers(c, a, n)
    BY <1>4 DEF RouterReports, Exchange!TimedOut
  <2>2. /\ from[c] = link /\ result[c] = "open" /\ from[c] # 0
        /\ pieces' = [pieces EXCEPT ![c] = n]
        /\ UNCHANGED <<order, got>>
    BY <2>1 DEF RouterAnswers, Exchange!Complete, Exchange!Open, IInv, OnlyWritten, Written
  <2>3. Connected
    BY <2>2 DEF IInv, Undisturbed, WaitsForTheRouter, Admitted
  <2>4. \A i \in 1 .. Len(order[l]) : order[l][i] # c
    BY <2>2, <2>3 DEF Histories, WrittenOnce
  <2>5. \A i \in 1 .. Len(order[l]) : /\ order'[l][i] = order[l][i]
                                      /\ pieces'[order[l][i]] = pieces[order[l][i]]
    <3>1. \A i \in 1 .. Len(order[l]) : order[l][i] \in Commands
      BY DEF Histories, HistoryTypes
    <3>. QED
      BY <2>2, <2>4, <3>1 DEF Histories, HistoryTypes
  <2>6. Len(order[l]) \in Nat
    BY DEF Histories, HistoryTypes
  <2>7. PICK m \in Nat : m = Len(order[l])
    BY <2>6
  <2>8. Answered(l, m)' = Answered(l, m)
    BY <2>5, <2>7, SameAnswered
  <2>. QED
    BY <2>2, <2>7, <2>8 DEF Answered, Responses
<1>5. CASE \E c \in Commands : OnWrite(c)
  <2>1. order'[l] = order[l] /\ UNCHANGED <<pieces, got>>
    BY <1>5 DEF OnWrite, Received, Histories, HistoryTypes
  <2>. QED
    BY <2>1 DEF Responses, Response
<1>. QED
  BY <1>1, <1>2, <1>3, <1>4, <1>5, WhoRemembers DEF IInv

LEMMA ReceivedStep ==
  ASSUME IInv, Histories, InOrder, ReceivedBefore, ~overtaken, [Next]_vars, ~overtaken'
  PROVE  ReceivedBefore'
<1> SUFFICES ASSUME NEW l \in Links, l # link' \/ ~Connected'
             PROVE  IsPrefix(got'[l], Responses(l)')
  BY DEF ReceivedBefore
<1>1. CASE l # link \/ ~Connected
  <2>1. got'[l] = got[l] /\ Responses(l)' = Responses(l)
    BY <1>1, OthersKept
  <2>. QED
    BY <1>1, <2>1 DEF ReceivedBefore
<1>2. CASE l = link /\ Connected
  <2>1. link' # link
    BY <1>2 DEF Connected
  <2>2. UNCHANGED Remembered
    BY <2>1, WhoRemembers
       DEF IInv, LoopRouterTx, LoopBleTxNotify, RouterReports, RouterAnswers, OnWrite, Received, peer
  <2>3. got'[l] = got[l] /\ Responses(l)' = Responses(l)
    BY <2>2 DEF Remembered, Responses, Response
  <2>4. IsPrefix(got[link], Responses(link))
    BY <1>2, ReceivedOnTheLink DEF IInv
  <2>5. IsPrefix(got[l], Responses(l))
    BY <1>2, <2>4 DEF Responses
  <2>. QED
    BY <2>3, <2>5
<1>. QED
  BY <1>1, <1>2

-----------------------------------------------------------------------------
LEMMA LInvInit == Init => LInv
  BY IInvInit, HistoriesInit, LinesInit DEF LInv

LEMMA LInvStep == LInv /\ [Next]_vars => LInv'
<1> SUFFICES ASSUME LInv, [Next]_vars PROVE LInv'
  OBVIOUS
<1>1. IInv /\ Histories
  BY DEF LInv
<1>2. IInv' /\ Histories'
  BY <1>1, IInvStep, HistoriesStep
<1>3. ASSUME ~overtaken' PROVE Lines'
  <2>1. ~overtaken
    BY <1>3, OvertakenForGood DEF LInv, IInv
  <2>2. Lines
    BY <2>1 DEF LInv
  <2>. QED
    BY <1>1, <1>3, <2>1, <2>2, StatusStep, InOrderStep, ReceivedStep DEF Lines
<1>. QED
  BY <1>2, <1>3 DEF LInv

LEMMA LinesInvariant == Safety => []LInv
<1>1. Init => LInv
  BY LInvInit
<1>2. LInv /\ [Next]_vars => LInv'
  BY LInvStep
<1>. QED
  BY <1>1, <1>2, PTL DEF Safety

\* What the app receives on a connection is the responses to the commands it
\* wrote on it, in order, each piece once (ble_adapter.cpp:126-183, 281-306).
THEOREM ResponsesInOrder == Safety => []OwnResponsesInOrder
<1>1. LInv => OwnResponsesInOrder
  <2> SUFFICES ASSUME LInv, ~overtaken, NEW l \in Links PROVE IsPrefix(got[l], Responses(l))
    BY DEF OwnResponsesInOrder
  <2>1. TypeOK /\ Histories /\ InOrder /\ ReceivedBefore
    BY DEF LInv, IInv, Lines
  <2>2. CASE l = link /\ Connected
    <3>1. IsPrefix(got[link], Responses(link))
      BY <2>1, <2>2, ReceivedOnTheLink
    <3>. QED
      BY <2>2, <3>1 DEF Responses
  <2>3. CASE l # link \/ ~Connected
    BY <2>1, <2>3 DEF ReceivedBefore
  <2>. QED
    BY <2>2, <2>3
<1>. QED
  BY <1>1, LinesInvariant, PTL

\* Whatever has been written on the connection and not yet been passed on is
\* in a hand of the adapter, in order (ble_adapter.cpp:126-142, 173-183, 296-306).
THEOREM LinesKept == Safety => []NoLineLost
<1>1. LInv => NoLineLost
  <2> SUFFICES ASSUME LInv, ~overtaken, Connected PROVE Pending(link) = InHand
    BY DEF NoLineLost
  <2>1. TypeOK /\ Histories
    BY DEF LInv, IInv
  <2>2. PICK k \in Nat, p \in Nat : Progress(k, p)
    BY DEF LInv, Lines, InOrder
  <2> DEFINE o == order[link]
  <2> DEFINE new == {c \in Commands : result[c] = "new"}
  <2> DEFINE first == SubSeq(o, 1, p)
  <2> DEFINE rest == SubSeq(o, p + 1, Len(o))
  <2>3. o \in Seq(Commands) /\ Len(o) \in Nat /\ p \in 0 .. Len(o)
    <3>1. link \in Links
      BY <2>1 DEF TypeOK, Connected, Links
    <3>2. o \in Seq(Commands) /\ Len(o) \in Nat
      BY <2>1, <3>1 DEF Histories, HistoryTypes
    <3>. QED
      BY <2>2, <3>2 DEF Progress
  <2>4. /\ \A i \in 1 .. Len(o) : o[i] \in new <=> i > p
        /\ InHand = rest
    <3>1. \A i \in 1 .. Len(o) : o[i] \in Commands
      BY <2>3
    <3>2. \A i \in 1 .. Len(o) : result[o[i]] = "new" <=> i > p
      BY <2>2 DEF Progress
    <3>3. InHand = rest
      BY <2>2 DEF Progress
    <3>. QED
      BY <3>1, <3>2, <3>3
  <2>5. first \in Seq(Commands) /\ rest \in Seq(Commands)
    BY <2>3
  <2>6. o = first \o rest
    <3>1. 1 \in 1 .. Len(o) + 1 /\ p \in 1 - 1 .. Len(o) /\ Len(o) \in p .. Len(o)
      BY <2>3
    <3>2. SubSeq(o, 1, p) \o SubSeq(o, p + 1, Len(o)) = SubSeq(o, 1, Len(o))
      BY <2>3, <3>1, ConcatAdjacentSubSeq
    <3>. QED
      BY <2>3, <3>2, SubSeqFull
  <2>7. \A i \in 1 .. Len(first) : first[i] \notin new
    BY <2>3, <2>4
  <2>8. \A i \in 1 .. Len(rest) : rest[i] \in new
    BY <2>3, <2>4
  <2> HIDE DEF first, rest, o, new
  <2>9. Only(first \o rest, new) = Only(first, new) \o Only(rest, new)
    BY <2>5, OnlyConcat
  <2>10. Only(first, new) = <<>> /\ Only(rest, new) = rest
    BY <2>5, <2>7, <2>8, OnlyNone, OnlyAll
  <2>11. Pending(link) = Only(o, new)
    BY DEF Pending, o, new
  <2>. QED
    BY <2>4, <2>5, <2>6, <2>9, <2>10, <2>11
<1>. QED
  BY <1>1, LinesInvariant, PTL
=============================================================================
