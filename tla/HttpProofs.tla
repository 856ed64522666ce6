----------------------------- MODULE HttpProofs -----------------------------
(***************************************************************************)
(* Theorems about HttpAdapter, for any requests, any size of the queue and *)
(* any timeout: type correctness, one answer for each request and its own, *)
(* no request lost, the limit and the order of the queue.                  *)
(***************************************************************************)
EXTENDS HttpAdapter, Integers, TLAPS

USE RequestsAssumption, LinesAssumption, LimitsAssumption

LEMMA RespondTypes ==
  ASSUME NEW rs, NEW a \in Texts, Respond(rs, a),
         answers \in [Requests -> Seq(Texts)], done \in [Requests -> BOOLEAN]
  PROVE  answers' \in [Requests -> Seq(Texts)] /\ done' \in [Requests -> BOOLEAN]
<1>1. \A r \in Requests : Append(answers[r], a) \in Seq(Texts)
  OBVIOUS
<1>2. answers' = [r \in Requests |-> IF r \in rs THEN Append(answers[r], a) ELSE answers[r]]
  BY DEF Respond
<1>3. done' \in [Requests -> BOOLEAN]
  BY DEF Respond
<1>. QED
  BY <1>1, <1>2, <1>3

LEMMA TypeInit == Init => TypeOK
<1> SUFFICES ASSUME Init PROVE TypeOK
  OBVIOUS
<1>1. result \in [Requests -> Results]
  BY DEF Init, Exchange!Init, Exchange!New, Results
<1>2. answers \in [Requests -> Seq(Texts)]
  BY DEF Init
<1>3. lock <=> pc = "walk"
  BY DEF Init
<1>4. /\ age \in [Requests -> 0 .. RequestTimeout]
      /\ state \in [Requests -> {0, 1}]
      /\ done \in [Requests -> BOOLEAN]
  BY DEF Init
<1>5. queue \in Seq(Requests) /\ todo \in Seq(Requests) /\ keep \in Seq(Requests)
  BY DEF Init
<1>. QED
  BY <1>1, <1>2, <1>3, <1>4, <1>5 DEF Init, TypeOK

LEMMA TypeStep == TypeOK /\ [Next]_vars => TypeOK'
<1> SUFFICES ASSUME TypeOK, [Next]_vars PROVE TypeOK'
  OBVIOUS
<1> USE DEF TypeOK
<1>t. {NoText, "400", "500", "504"} \subseteq Texts
  BY DEF Texts
<1>1. ASSUME NEW r \in Requests, Receive(r) PROVE TypeOK'
  <2>1. CASE r \in EmptyBody
    <3>1. Respond({r}, "400")
      BY <1>1, <2>1 DEF Receive, Answer
    <3>2. answers' \in [Requests -> Seq(Texts)] /\ done' \in [Requests -> BOOLEAN]
      BY <3>1, <1>t, RespondTypes
    <3>. QED
      BY <1>1, <2>1, <3>2 DEF Receive, router, walk
  <2>2. CASE r \notin EmptyBody
    BY <1>1, <2>2 DEF Receive, router, walk, NoAnswer
  <2>. QED
    BY <2>1, <2>2
<1>2. CASE DoneFast
  <2>1. CASE TimedOut(web)
    <3>1. Respond({web}, "504")
      BY <1>2, <2>1 DEF DoneFast, Answer
    <3>2. answers' \in [Requests -> Seq(Texts)] /\ done' \in [Requests -> BOOLEAN]
      BY <3>1, <1>t, RespondTypes
    <3>. QED
      BY <1>2, <2>1, <3>2 DEF DoneFast, Release, router, walk
  <2>2. CASE ~TimedOut(web)
    BY <1>2, <2>2 DEF DoneFast, router, walk, NoAnswer
  <2>. QED
    BY <2>1, <2>2
<1>3. CASE TestSize
  <2>1. CASE QueueIsFull
    <3>1. Respond({web}, "500")
      BY <1>3, <2>1 DEF TestSize, Answer
    <3>2. answers' \in [Requests -> Seq(Texts)] /\ done' \in [Requests -> BOOLEAN]
      BY <3>1, <1>t, RespondTypes
    <3>. QED
      BY <1>3, <2>1, <3>2 DEF TestSize, Release, router, walk
  <2>2. CASE ~QueueIsFull
    BY <1>3, <2>2 DEF TestSize, router, walk, NoAnswer
  <2>. QED
    BY <2>1, <2>2
<1>4. CASE EnqueueRequest
  BY <1>4 DEF EnqueueRequest, Release, router, walk
<1>5. CASE TakeLock
  BY <1>5 DEF TakeLock, router
<1>6. CASE DeleteDone
  <2>1. todo' \in Seq(Requests) /\ Next1 \in Requests
    BY <1>6 DEF DeleteDone, Walking, Next1
  <2>2. answers' \in [Requests -> Seq(Texts)] /\ done' \in [Requests -> BOOLEAN]
    BY <1>6, <1>t, RespondTypes DEF DeleteDone, NoAnswer, Answer
  <2>. QED
    BY <1>6, <2>1, <2>2 DEF DeleteDone, Walking, router
<1>7. CASE SendToRouter
  <2>1. todo' \in Seq(Requests) /\ keep' \in Seq(Requests) /\ Next1 \in Requests
    BY <1>7 DEF SendToRouter, Walking, Next1, Kept
  <2>2. result' \in [Requests -> Results] /\ busy' \in BOOLEAN
    BY <1>7, <2>1 DEF SendToRouter, RouterSend, Exchange!Accept, Exchange!Becomes,
                      Exchange!Open, Results
  <2>. QED
    BY <1>7, <2>1, <2>2 DEF SendToRouter, Walking, NoAnswer
<1>8. CASE KeepWaiting
  <2>1. todo' \in Seq(Requests) /\ keep' \in Seq(Requests)
    BY <1>8 DEF KeepWaiting, Walking, Next1, Kept
  <2>. QED
    BY <1>8, <2>1 DEF KeepWaiting, Walking, router
<1>9. CASE GiveLock
  BY <1>9 DEF GiveLock, router
<1>10. ASSUME NEW c \in Requests, NEW a \in Lines \union {Exchange!TimedOut},
              RouterAnswers(c, a)
       PROVE TypeOK'
  <2>1. Text(a) \in Texts
    BY DEF Text, Texts
  <2>2. answers' \in [Requests -> Seq(Texts)] /\ done' \in [Requests -> BOOLEAN]
    BY <1>10, <2>1, RespondTypes DEF RouterAnswers
  <2>3. result' \in [Requests -> Results] /\ busy' \in BOOLEAN
    BY <1>10 DEF RouterAnswers, RouterReports, Exchange!Complete, Exchange!Becomes,
                 Exchange!TimedOut, Results
  <2>. QED
    BY <1>10, <2>2, <2>3 DEF RouterAnswers
<1>11. CASE RouterQuiet
  BY <1>11 DEF RouterQuiet, RouterSilent
<1>12. CASE OtherCall
  BY <1>12 DEF OtherCall, walk
<1>13. CASE OtherCallsDone
  BY <1>13 DEF OtherCallsDone, router
<1>14. CASE Tick
  <2>1. age' \in [Requests -> 0 .. RequestTimeout]
    BY <1>14 DEF Tick, TimedOut
  <2>. QED
    BY <1>14, <2>1 DEF Tick, router, walk
<1>15. CASE UNCHANGED vars
  BY <1>15 DEF vars
<1>. QED
  BY <1>1, <1>2, <1>3, <1>4, <1>5, <1>6, <1>7, <1>8, <1>9, <1>10, <1>11, <1>12,
     <1>13, <1>14, <1>15 DEF Next, WebStep, LoopStep

\* Everything keeps its type; the lock is held in the walk and nowhere else
\* (http_adapter.cpp:41-59).
THEOREM TypeCorrect == Safety => []TypeOK
  BY TypeInit, TypeStep, PTL DEF Safety
-----------------------------------------------------------------------------
(* The inductive invariant.  The walk of processQueue is at a suffix of    *)
(* _queue; what it has passed is kept, in order, or answered.              *)

Answered(r) == answers[r] # <<>>
Distinct(s) == \A i, j \in 1 .. Len(s) : s[i] = s[j] => i = j

OneAnswer ==
  \A r \in Requests : Len(answers[r]) <= 1 /\ (done[r] <=> Answered(r))

NewUntouched == \A r \in Requests : r \notin received => ~Answered(r) /\ state[r] = 0

WebHolds ==
  webPc # "idle" => /\ web \in received /\ ~Answered(web) /\ state[web] = 0
                    /\ web \notin Elements(queue)

QueueKnown == Distinct(queue) /\ Elements(queue) \subseteq received

Passed == Len(queue) - Len(todo)

Walk ==
  /\ ~lock => todo = <<>> /\ keep = <<>>
  /\ lock =>
       /\ Len(todo) <= Len(queue)
       /\ \A i \in 1 .. Len(todo) : todo[i] = queue[Passed + i]
       /\ Len(keep) <= Passed
       /\ Distinct(keep)
       /\ \A x \in Elements(keep) : ~Answered(x) /\ x \in Elements(queue) \ Elements(todo)
       /\ \A x \in Elements(keep) : state[x] = 0 => busy
       /\ \A x \in Elements(keep), y \in Elements(todo) : state[y] = 1 => state[x] = 1
       /\ \A i, j \in 1 .. Len(keep) : i < j /\ state[keep[j]] = 1 => state[keep[i]] = 1

\* A request that is still in line is not answered before the router has
\* called back.
InLine == IF lock THEN Elements(todo) ELSE Elements(queue)
AnsweredByRouter == \A r \in InLine : Answered(r) => result[r] # Exchange!Open

Places == QueueLimited /\ (webPc = "push" => Len(queue) < QueueLimit)

IInv ==
  /\ TypeOK /\ OneAnswer /\ NewUntouched /\ WebHolds /\ QueueKnown /\ Walk
  /\ AnsweredByRouter /\ Places /\ SentInOrder /\ OwnAnswer /\ NoRequestLost

-----------------------------------------------------------------------------
(* Facts about sequences, answers and the walk.                            *)

LEMMA ElementsType ==
  ASSUME NEW S, NEW s \in Seq(S)
  PROVE  Elements(s) \subseteq S
BY DEF Elements

LEMMA AppendElements ==
  ASSUME NEW S, NEW s \in Seq(S), NEW x \in S
  PROVE  Elements(Append(s, x)) = Elements(s) \union {x}
<1>1. Elements(Append(s, x)) \subseteq Elements(s) \union {x}
  BY DEF Elements
<1>2. x \in Elements(Append(s, x))
  <2>1. Append(s, x)[Len(s) + 1] = x /\ Len(s) + 1 \in 1 .. Len(Append(s, x))
    OBVIOUS
  <2>. QED
    BY <2>1 DEF Elements
<1>3. ASSUME NEW y \in Elements(s) PROVE y \in Elements(Append(s, x))
  <2>1. PICK i \in 1 .. Len(s) : y = s[i]
    BY DEF Elements
  <2>2. i \in 1 .. Len(Append(s, x)) /\ Append(s, x)[i] = y
    BY <2>1
  <2>. QED
    BY <2>2 DEF Elements
<1>. QED
  BY <1>1, <1>2, <1>3

LEMMA AppendDistinct ==
  ASSUME NEW S, NEW s \in Seq(S), NEW x \in S, Distinct(s), x \notin Elements(s)
  PROVE  Distinct(Append(s, x))
<1> SUFFICES ASSUME NEW i \in 1 .. Len(s) + 1, NEW j \in 1 .. Len(s) + 1,
                    Append(s, x)[i] = Append(s, x)[j]
             PROVE  i = j
  BY DEF Distinct
<1>1. \A k \in 1 .. Len(s) : s[k] # x
  BY DEF Elements
<1>. QED
  BY <1>1 DEF Distinct

LEMMA TailElements ==
  ASSUME NEW S, NEW s \in Seq(S), s # <<>>
  PROVE  /\ Head(s) \in Elements(s)
         /\ Elements(s) = {Head(s)} \union Elements(Tail(s))
         /\ Distinct(s) => Head(s) \notin Elements(Tail(s))
<1>1. \A i \in 1 .. Len(Tail(s)) : Tail(s)[i] = s[i + 1] /\ i + 1 \in 1 .. Len(s)
  OBVIOUS
<1>2. Head(s) = s[1] /\ 1 \in 1 .. Len(s) /\ Len(Tail(s)) = Len(s) - 1
  OBVIOUS
<1>3. Elements(Tail(s)) \subseteq Elements(s)
  BY <1>1 DEF Elements
<1>4. ASSUME NEW y \in Elements(s) PROVE y = Head(s) \/ y \in Elements(Tail(s))
  <2>1. PICK i \in 1 .. Len(s) : y = s[i]
    BY DEF Elements
  <2>2. CASE i = 1
    BY <1>2, <2>1, <2>2
  <2>3. CASE i # 1
    <3>1. i - 1 \in 1 .. Len(Tail(s)) /\ Tail(s)[i - 1] = y
      BY <1>1, <1>2, <2>1, <2>3
    <3>. QED
      BY <3>1 DEF Elements
  <2>. QED
    BY <2>2, <2>3
<1>5. Distinct(s) => Head(s) \notin Elements(Tail(s))
  BY <1>1, <1>2 DEF Distinct, Elements
<1>. QED
  BY <1>2, <1>3, <1>4, <1>5 DEF Elements

LEMMA CodesAreNoLines == \A a \in {"400", "500", "504"} : a \notin Lines \union {NoText}
<1>1. NoText \notin {"400", "500", "504"}
  BY DEF NoText
<1>. QED
  BY <1>1

\* Who has no answer yet and is given one has that one.
LEMMA FirstAnswer ==
  ASSUME TypeOK, OneAnswer, NEW rs, NEW a \in Texts, Respond(rs, a),
         \A r \in rs : ~Answered(r)
  PROVE  /\ OneAnswer'
         /\ \A r \in Requests : answers'[r] = IF r \in rs THEN <<a>> ELSE answers[r]
         /\ \A r \in Requests : Answered(r)' <=> Answered(r) \/ r \in rs
<1>1. ASSUME NEW r \in Requests
      PROVE  answers'[r] = IF r \in rs THEN <<a>> ELSE answers[r]
  <2>1. answers'[r] = IF r \in rs THEN Append(answers[r], a) ELSE answers[r]
    BY DEF Respond
  <2>2. r \in rs => answers[r] = <<>>
    BY DEF Answered
  <2>3. Append(<<>>, a) = <<a>>
    OBVIOUS
  <2>. QED
    BY <2>1, <2>2, <2>3
<1>2. ASSUME NEW r \in Requests PROVE Answered(r)' <=> Answered(r) \/ r \in rs
  BY <1>1 DEF Answered
<1>3. ASSUME NEW r \in Requests PROVE done'[r] <=> done[r] \/ r \in rs
  BY DEF Respond, TypeOK
<1>4. ASSUME NEW r \in Requests PROVE Len(answers'[r]) <= 1
  <2>1. CASE r \in rs
    <3>1. answers'[r] = <<a>>
      BY <1>1, <2>1
    <3>. QED
      BY <3>1
  <2>2. CASE r \notin rs
    <3>1. answers'[r] = answers[r]
      BY <1>1, <2>2
    <3>. QED
      BY <3>1 DEF OneAnswer
  <2>. QED
    BY <2>1, <2>2
<1>. QED
  BY <1>1, <1>2, <1>3, <1>4 DEF OneAnswer

\* What the walk looks at, while it walks.
LEMMA NextInWalk ==
  ASSUME IInv, Walking
  PROVE  /\ lock /\ Next1 \in Requests /\ Next1 = queue[Passed + 1]
         /\ Passed + 1 \in 1 .. Len(queue)
         /\ Next1 \in Elements(queue) \ Elements(keep)
         /\ Elements(todo) = {Next1} \union Elements(todo')
         /\ Next1 \notin Elements(todo')
         /\ Passed' = Passed + 1
         /\ todo' \in Seq(Requests) /\ Len(todo') = Len(todo) - 1
         /\ \A i \in 1 .. Len(todo') : todo'[i] = queue[Passed' + i]
<1> USE DEF Walking, Next1
<1>1. lock /\ todo \in Seq(Requests) /\ todo # <<>> /\ queue \in Seq(Requests)
  BY DEF IInv, TypeOK
<1>2. Next1 = todo[1] /\ Len(todo) \in Nat \ {0} /\ Len(todo) <= Len(queue)
  BY <1>1 DEF IInv, Walk
<1>3. Next1 = queue[Passed + 1] /\ Passed + 1 \in 1 .. Len(queue)
  BY <1>1, <1>2 DEF IInv, Walk, Passed
<1>4. Next1 \in Elements(queue) /\ Next1 \in Requests
  BY <1>1, <1>3 DEF Elements
<1>5. Distinct(todo)
  <2> SUFFICES ASSUME NEW i \in 1 .. Len(todo), NEW j \in 1 .. Len(todo), todo[i] = todo[j]
               PROVE  i = j
    BY DEF Distinct
  <2>1. Passed + i \in 1 .. Len(queue) /\ Passed + j \in 1 .. Len(queue)
    BY <1>1, <1>2 DEF Passed
  <2>2. queue[Passed + i] = queue[Passed + j]
    BY <1>1 DEF IInv, Walk
  <2>3. Passed + i = Passed + j
    BY <2>1, <2>2 DEF IInv, QueueKnown, Distinct
  <2>. QED
    BY <1>1, <2>3 DEF Passed
<1>6. /\ Elements(todo) = {Next1} \union Elements(todo')
      /\ Next1 \in Elements(todo)
      /\ Next1 \notin Elements(todo')
  <2>1. todo' = Tail(todo)
    OBVIOUS
  <2>2. /\ Head(todo) \in Elements(todo)
        /\ Elements(todo) = {Head(todo)} \union Elements(Tail(todo))
        /\ Distinct(todo) => Head(todo) \notin Elements(Tail(todo))
    BY <1>1, TailElements
  <2>. QED
    BY <1>5, <2>1, <2>2
<1>7. Next1 \notin Elements(keep)
  BY <1>1, <1>6 DEF IInv, Walk
<1>8. todo' \in Seq(Requests) /\ Len(todo') = Len(todo) - 1 /\ Passed' = Passed + 1
  <2>1. todo' = Tail(todo) /\ queue' = queue
    OBVIOUS
  <2>2. Tail(todo) \in Seq(Requests) /\ Len(Tail(todo)) = Len(todo) - 1
    BY <1>1
  <2>. QED
    BY <1>1, <1>2, <2>1, <2>2 DEF Passed
<1>9. ASSUME NEW i \in 1 .. Len(todo') PROVE todo'[i] = queue[Passed' + i]
  <2>1. todo'[i] = todo[i + 1] /\ i + 1 \in 1 .. Len(todo)
    BY <1>1, <1>8
  <2>2. todo[i + 1] = queue[Passed + (i + 1)]
    BY <1>1, <2>1 DEF IInv, Walk
  <2>. QED
    BY <1>1, <1>8, <2>1, <2>2 DEF Passed
<1>. QED
  BY <1>1, <1>3, <1>4, <1>6, <1>7, <1>8, <1>9

\* The queue, the walk and the order are the same for whoever answers nobody in
\* the queue.
LEMMA QueueUntouched ==
  ASSUME IInv, UNCHANGED <<result, state, queue, todo, keep, lock>>, lock /\ busy => busy',
         \A x \in Elements(queue) : answers'[x] = answers[x]
  PROVE  Walk' /\ AnsweredByRouter' /\ SentInOrder'
<1> USE DEF IInv
<1>1. Walk'
  BY DEF Walk, Passed, Answered
<1>2. Elements(todo) \subseteq Elements(queue)
  <2>1. ASSUME NEW i \in 1 .. Len(todo), lock PROVE todo[i] \in Elements(queue)
    <3>1. Passed + i \in 1 .. Len(queue)
      BY <2>1 DEF Walk, Passed, TypeOK
    <3>. QED
      BY <2>1, <3>1 DEF Walk, Elements
  <2>2. ~lock => Elements(todo) = {}
    BY DEF Walk, Elements
  <2>. QED
    <3>1. CASE lock
      BY <2>1, <3>1 DEF Elements
    <3>2. CASE ~lock
      BY <2>2, <3>2
    <3>. QED
      BY <3>1, <3>2 DEF TypeOK
<1>3. AnsweredByRouter'
  BY <1>2 DEF AnsweredByRouter, InLine, Answered
<1>4. SentInOrder'
  BY DEF SentInOrder, Elements
<1>. QED
  BY <1>1, <1>3, <1>4

LEMMA ReceiveKeeps ==
  ASSUME IInv, NEW r \in Requests, Receive(r), TypeOK'
  PROVE  IInv'
<1> USE DEF Receive, IInv
<1>1. webPc = "idle" /\ web = "none" /\ r \notin Elements(queue) /\ ~Answered(r) /\ state[r] = 0
  BY DEF TypeOK, QueueKnown, NewUntouched
<1>2. CASE r \in EmptyBody
  <2>1. Respond({r}, "400") /\ "400" \in Texts /\ UNCHANGED <<web, webPc>>
    BY <1>2 DEF Answer, Texts
  <2>2. /\ OneAnswer'
        /\ \A x \in Requests : answers'[x] = IF x = r THEN <<"400">> ELSE answers[x]
        /\ \A x \in Requests : Answered(x)' <=> Answered(x) \/ x = r
    BY <1>1, <2>1, FirstAnswer
  <2>3. \A x \in Elements(queue) : answers'[x] = answers[x]
    <3>1. Elements(queue) \subseteq Requests
      BY ElementsType DEF TypeOK
    <3>. HIDE DEF Receive, IInv
    <3>. QED
      BY <1>1, <2>2, <3>1
  <2>4. Walk' /\ AnsweredByRouter' /\ SentInOrder'
    BY <2>3, QueueUntouched DEF walk, router
  <2>5. NewUntouched' /\ WebHolds' /\ QueueKnown' /\ Places'
    BY <1>1, <2>1, <2>2 DEF NewUntouched, WebHolds, QueueKnown, Places, QueueLimited, walk
  <2>6. OwnAnswer'
    BY <2>2, CodesAreNoLines DEF OwnAnswer, router
  <2>7. NoRequestLost'
    <3>1. \A x \in received' : ~Answered(x)' => x \in Existing'
      BY <2>1, <2>2 DEF NoRequestLost, Existing, Answered, walk, TypeOK
    <3>2. lock => \A x \in Elements(queue) : ~Answered(x)' => x \in Elements(todo) \union Elements(keep)
      BY <2>3 DEF NoRequestLost, Answered
    <3>. QED
      BY <3>1, <3>2 DEF NoRequestLost, Answered, walk
  <2>. QED
    BY <2>2, <2>4, <2>5, <2>6, <2>7
<1>3. CASE r \notin EmptyBody
  <2>1. UNCHANGED <<answers, done>> /\ web' = r /\ webPc' = "built"
    BY <1>3 DEF NoAnswer
  <2>2. Walk' /\ AnsweredByRouter' /\ SentInOrder'
    BY <2>1, QueueUntouched DEF walk, router
  <2>3. OneAnswer' /\ NewUntouched' /\ WebHolds' /\ QueueKnown' /\ Places' /\ OwnAnswer'
    BY <1>1, <2>1 DEF OneAnswer, NewUntouched, WebHolds, QueueKnown, Places, QueueLimited,
                      OwnAnswer, Answered, walk, router
  <2>4. NoRequestLost'
    BY <1>1, <2>1 DEF NoRequestLost, Existing, walk, TypeOK
  <2>. QED
    BY <2>2, <2>3, <2>4
<1>. QED
  BY <1>2, <1>3

\* The web task answers the request it holds and drops it.
LEMMA WebAnswers ==
  ASSUME IInv, TypeOK', NEW a \in {"500", "504"}, webPc # "idle", Answer(web, a), Release,
         UNCHANGED <<router, received, age, state, queue, walk>>
  PROVE  IInv'
<1> USE DEF IInv, Release
<1>1. web \in Requests /\ web \notin Elements(queue) /\ ~Answered(web) /\ a \in Texts
  BY DEF TypeOK, WebHolds, Texts
<1>2. Respond({web}, a)
  BY DEF Answer
<1>3. /\ OneAnswer'
      /\ \A x \in Requests : answers'[x] = IF x = web THEN <<a>> ELSE answers[x]
      /\ \A x \in Requests : Answered(x)' <=> Answered(x) \/ x = web
  BY <1>1, <1>2, FirstAnswer
<1>4. \A x \in Elements(queue) : answers'[x] = answers[x]
  <2>1. Elements(queue) \subseteq Requests
    BY ElementsType DEF TypeOK
  <2>. HIDE DEF IInv, Release
  <2>. QED
    BY <1>1, <1>3, <2>1
<1>5. Walk' /\ AnsweredByRouter' /\ SentInOrder'
  BY <1>4, QueueUntouched DEF walk, router
<1>6. NewUntouched' /\ WebHolds' /\ QueueKnown' /\ Places'
  BY <1>1, <1>3 DEF NewUntouched, WebHolds, QueueKnown, Places, QueueLimited, walk
<1>7. OwnAnswer'
  BY <1>3, CodesAreNoLines DEF OwnAnswer, router
<1>8. NoRequestLost'
  <2>1. \A x \in received' : ~Answered(x)' => x \in Existing'
    BY <1>1, <1>3 DEF NoRequestLost, Existing, Answered, walk, TypeOK
  <2>2. lock => \A x \in Elements(queue) : ~Answered(x)' => x \in Elements(todo) \union Elements(keep)
    BY <1>4 DEF NoRequestLost, Answered
  <2>. QED
    BY <2>1, <2>2 DEF NoRequestLost, Answered, walk
<1>. QED
  BY <1>3, <1>5, <1>6, <1>7, <1>8

LEMMA DoneFastKeeps ==
  ASSUME IInv, DoneFast, TypeOK'
  PROVE  IInv'
<1>1. CASE TimedOut(web)
  BY <1>1, WebAnswers DEF DoneFast
<1>2. CASE ~TimedOut(web)
  <2>1. webPc' = "size" /\ webPc # "idle"
        /\ UNCHANGED <<router, received, answers, age, state, done, web, queue, walk>>
    BY <1>2 DEF DoneFast, NoAnswer
  <2>2. Walk' /\ AnsweredByRouter' /\ SentInOrder'
    BY <2>1, QueueUntouched DEF walk, router
  <2>. QED
    BY <2>1, <2>2 DEF IInv, OneAnswer, NewUntouched, WebHolds, QueueKnown, Places, QueueLimited,
                      OwnAnswer, NoRequestLost, Existing, Answered, walk, router
<1>. QED
  BY <1>1, <1>2

LEMMA TestSizeKeeps ==
  ASSUME IInv, TestSize, TypeOK'
  PROVE  IInv'
<1>1. CASE QueueIsFull
  BY <1>1, WebAnswers DEF TestSize
<1>2. CASE ~QueueIsFull
  <2>1. webPc' = "push" /\ webPc # "idle"
        /\ UNCHANGED <<router, received, answers, age, state, done, web, queue, walk>>
    BY <1>2 DEF TestSize, NoAnswer
  <2>2. Walk' /\ AnsweredByRouter' /\ SentInOrder'
    BY <2>1, QueueUntouched DEF walk, router
  <2>3. Len(queue) < QueueLimit
    BY <1>2 DEF QueueIsFull, IInv, TypeOK
  <2>. QED
    BY <2>1, <2>2, <2>3
       DEF IInv, OneAnswer, NewUntouched, WebHolds, QueueKnown, Places, QueueLimited,
           OwnAnswer, NoRequestLost, Existing, Answered, walk, router
<1>. QED
  BY <1>1, <1>2

LEMMA EnqueueKeeps ==
  ASSUME IInv, EnqueueRequest, TypeOK'
  PROVE  IInv'
<1> USE DEF IInv, EnqueueRequest, Release
<1>1. /\ web \in Requests /\ web \in received /\ ~Answered(web) /\ state[web] = 0
      /\ web \notin Elements(queue) /\ ~lock /\ queue \in Seq(Requests)
  BY DEF TypeOK, WebHolds
<1>2. queue' = Append(queue, web) /\ Elements(queue') = Elements(queue) \union {web}
  BY <1>1, AppendElements
<1>3. QueueKnown'
  BY <1>1, <1>2, AppendDistinct DEF QueueKnown
<1>4. OneAnswer' /\ NewUntouched' /\ WebHolds' /\ OwnAnswer'
  BY DEF OneAnswer, NewUntouched, WebHolds, OwnAnswer, Answered, router
<1>5. Walk'
  BY <1>1 DEF Walk, walk
<1>6. AnsweredByRouter'
  BY <1>1, <1>2 DEF AnsweredByRouter, InLine, Answered, walk, router
<1>7. Places'
  BY <1>1, <1>2 DEF Places, QueueLimited, TypeOK
<1>8. SentInOrder'
  <2> SUFFICES ASSUME NEW i \in 1 .. Len(queue) + 1, NEW j \in 1 .. Len(queue) + 1, i < j,
                      state[queue'[j]] = 1
               PROVE  state[queue'[i]] = 1 \/ answers[queue'[i]] # <<>>
    BY <1>1, <1>2 DEF SentInOrder
  <2>1. j # Len(queue) + 1
    BY <1>1, <1>2
  <2>2. queue'[i] = queue[i] /\ queue'[j] = queue[j] /\ i \in 1 .. Len(queue) /\ j \in 1 .. Len(queue)
    BY <1>1, <1>2, <2>1
  <2>. QED
    BY <2>2 DEF SentInOrder
<1>9. NoRequestLost'
  BY <1>1, <1>2 DEF NoRequestLost, Existing, walk
<1>. QED
  BY <1>3, <1>4, <1>5, <1>6, <1>7, <1>8, <1>9

LEMMA TakeLockKeeps ==
  ASSUME IInv, TakeLock, TypeOK'
  PROVE  IInv'
<1> USE DEF IInv, TakeLock
<1>1. ~lock /\ keep = <<>> /\ keep' = <<>> /\ lock' /\ todo' = queue /\ queue' = queue
  BY DEF Walk
<1>2. Elements(keep') = {} /\ Len(keep') = 0
  BY <1>1 DEF Elements
<1>3. Walk'
  BY <1>1, <1>2 DEF Walk, Passed, Distinct, TypeOK
<1>4. AnsweredByRouter'
  BY <1>1 DEF AnsweredByRouter, InLine, Answered, router
<1>5. NoRequestLost'
  BY <1>1 DEF NoRequestLost, Existing
<1>. QED
  BY <1>1, <1>3, <1>4, <1>5
     DEF OneAnswer, NewUntouched, WebHolds, QueueKnown, Places, QueueLimited, SentInOrder,
         OwnAnswer, Answered, router

LEMMA DeleteDoneKeeps ==
  ASSUME IInv, DeleteDone, TypeOK'
  PROVE  IInv'
<1> USE DEF IInv
<1>1. /\ lock /\ Next1 \in Requests
      /\ Next1 \in Elements(queue) \ Elements(keep)
      /\ Elements(todo) = {Next1} \union Elements(todo')
      /\ Next1 \notin Elements(todo')
      /\ Passed' = Passed + 1 /\ Len(todo') = Len(todo) - 1
      /\ \A i \in 1 .. Len(todo') : todo'[i] = queue[Passed' + i]
  BY NextInWalk DEF DeleteDone
<1>2. UNCHANGED <<router, received, age, state, web, webPc, queue, keep, lock, pc>>
  BY DEF DeleteDone, Walking
<1>3. /\ OneAnswer'
      /\ \A x \in Requests : Answered(x)' <=> Answered(x) \/ x = Next1
      /\ \A x \in Requests : answers'[x] = answers[x] \/ (x = Next1 /\ answers'[x] = <<"504">>)
  <2>1. CASE done[Next1]
    BY <1>1, <2>1 DEF DeleteDone, NoAnswer, OneAnswer, Answered
  <2>2. CASE ~done[Next1]
    <3>1. Respond({Next1}, "504") /\ "504" \in Texts /\ ~Answered(Next1)
      BY <1>1, <2>2 DEF DeleteDone, Answer, Texts, OneAnswer
    <3>2. /\ OneAnswer'
          /\ \A x \in Requests : answers'[x] = IF x \in {Next1} THEN <<"504">> ELSE answers[x]
          /\ \A x \in Requests : Answered(x)' <=> Answered(x) \/ x \in {Next1}
      BY <3>1, FirstAnswer
    <3>. QED
      BY <3>2
  <2>. QED
    BY <2>1, <2>2
<1>4. NewUntouched' /\ WebHolds' /\ QueueKnown' /\ Places'
  BY <1>1, <1>2, <1>3
     DEF NewUntouched, WebHolds, QueueKnown, Places, QueueLimited, TypeOK
<1>5. Walk'
  <2>1. \A x \in Elements(keep) : x \in Requests /\ x # Next1
    BY <1>1, ElementsType DEF TypeOK
  <2>2. /\ Len(todo') <= Len(queue) /\ Len(keep) <= Passed'
    <3>1. Len(todo) \in Nat /\ Len(queue) \in Nat /\ Len(keep) \in Nat /\ Passed \in Int
      BY DEF TypeOK, Passed
    <3>2. Len(todo) <= Len(queue) /\ Len(keep) <= Passed
      BY <1>1 DEF Walk
    <3>. QED
      BY <1>1, <3>1, <3>2
  <2>3. /\ \A x \in Elements(keep) : ~Answered(x)' /\ x \in Elements(queue) \ Elements(todo')
        /\ \A x \in Elements(keep), y \in Elements(todo') : state[y] = 1 => state[x] = 1
    BY <1>1, <1>3, <2>1 DEF Walk
  <2>. QED
    BY <1>1, <1>2, <2>2, <2>3 DEF Walk, router
<1>6. AnsweredByRouter'
  <2>1. \A x \in Elements(todo') : x \in Requests
    BY DEF Elements, TypeOK
  <2>. QED
    BY <1>1, <1>2, <1>3, <2>1 DEF AnsweredByRouter, InLine, router
<1>7. SentInOrder'
  <2>1. \A i \in 1 .. Len(queue) : queue[i] \in Requests
    BY DEF TypeOK
  <2>. QED
    BY <1>2, <1>3, <2>1 DEF SentInOrder, Answered
<1>8. OwnAnswer'
  BY <1>2, <1>3, CodesAreNoLines DEF OwnAnswer, Answered, router
<1>9. NoRequestLost'
  <2>1. \A x \in received : ~Answered(x)' => x \in Existing'
    BY <1>2, <1>3 DEF NoRequestLost, Existing, Answered, TypeOK
  <2>2. \A x \in Elements(queue) : ~Answered(x)' => x \in Elements(todo') \union Elements(keep)
    <3>1. Elements(queue) \subseteq Requests
      BY ElementsType DEF TypeOK
    <3>2. \A x \in Elements(queue) : ~Answered(x) => x \in Elements(todo) \union Elements(keep)
      BY <1>1 DEF NoRequestLost, Answered
    <3>. QED
      BY <1>1, <1>3, <3>1, <3>2
  <2>. QED
    BY <1>2, <2>1, <2>2 DEF NoRequestLost, Answered
<1>. QED
  BY <1>3, <1>4, <1>5, <1>6, <1>7, <1>8, <1>9

LEMMA GiveLockKeeps ==
  ASSUME IInv, GiveLock, TypeOK'
  PROVE  IInv'
<1> USE DEF IInv, GiveLock
<1>1. lock /\ Elements(todo) = {} /\ Len(keep) <= Len(queue) /\ Elements(keep) \subseteq Elements(queue)
  <2>1. lock /\ todo = <<>> /\ Len(todo) = 0
    BY DEF TypeOK
  <2>2. Elements(todo) = {}
    BY <2>1 DEF Elements
  <2>3. Len(keep) <= Len(queue) /\ Elements(keep) \subseteq Elements(queue)
    BY <2>1 DEF Walk, Passed, TypeOK
  <2>. QED
    BY <2>1, <2>2, <2>3
<1>2. OneAnswer' /\ NewUntouched' /\ WebHolds' /\ QueueKnown' /\ Places' /\ OwnAnswer'
  BY <1>1 DEF OneAnswer, NewUntouched, WebHolds, QueueKnown, Places, QueueLimited, OwnAnswer,
              Answered, Walk, router, TypeOK
<1>3. Walk'
  BY DEF Walk
<1>4. AnsweredByRouter'
  BY <1>1 DEF AnsweredByRouter, InLine, Answered, Walk
<1>5. SentInOrder'
  BY <1>1 DEF SentInOrder, Walk
<1>6. NoRequestLost'
  BY <1>1 DEF NoRequestLost, Existing
<1>. QED
  BY <1>2, <1>3, <1>4, <1>5, <1>6

LEMMA RouterAnswersKeeps ==
  ASSUME IInv, NEW c \in Requests, NEW a \in Lines \union {Exchange!TimedOut},
         RouterAnswers(c, a), TypeOK'
  PROVE  IInv'
<1> USE DEF IInv
<1>1. /\ ~lock /\ ~lock' /\ result[c] = Exchange!Open
      /\ result' = [result EXCEPT ![c] = a] /\ a # Exchange!Open
      /\ Respond(Addressee(c), Text(a)) /\ Text(a) \in Texts
      /\ UNCHANGED <<received, age, state, web, webPc, queue, todo, keep, lock>>
  BY DEF RouterAnswers, RouterReports, Exchange!Complete, Exchange!Becomes, Exchange!Open,
         Exchange!TimedOut, Text, Texts
<1>2. \A r \in Addressee(c) : r = c /\ r \in Elements(queue) /\ ~Answered(r)
  BY <1>1 DEF Addressee, AnsweredByRouter, InLine
<1>3. /\ OneAnswer'
      /\ \A x \in Requests : answers'[x] = IF x \in Addressee(c) THEN <<Text(a)>> ELSE answers[x]
      /\ \A x \in Requests : Answered(x)' <=> Answered(x) \/ x \in Addressee(c)
  BY <1>1, <1>2, FirstAnswer
<1>4. NewUntouched' /\ WebHolds' /\ QueueKnown' /\ Places'
  BY <1>1, <1>2, <1>3
     DEF NewUntouched, WebHolds, QueueKnown, Places, QueueLimited, TypeOK
<1>5. Walk'
  BY <1>1 DEF Walk
<1>6. AnsweredByRouter'
  <2>1. \A x \in Elements(queue) : x \in Requests
    BY DEF Elements, TypeOK
  <2>2. \A x \in Requests : result'[x] = IF x = c THEN a ELSE result[x]
    BY <1>1 DEF TypeOK
  <2>. QED
    BY <1>1, <1>2, <1>3, <2>1, <2>2 DEF AnsweredByRouter, InLine
<1>7. SentInOrder'
  <2>1. \A i \in 1 .. Len(queue) : queue[i] \in Requests
    BY DEF TypeOK
  <2>. QED
    BY <1>1, <1>3, <2>1 DEF SentInOrder, Answered
<1>8. OwnAnswer'
  <2> SUFFICES ASSUME NEW r \in Requests, answers'[r] # <<>>,
                      answers'[r][1] \in Lines \union {NoText}
               PROVE  /\ result'[r] \in Lines \union {Exchange!TimedOut}
                      /\ answers'[r] = <<Text(result'[r])>>
    BY DEF OwnAnswer
  <2>1. result'[r] = IF r = c THEN a ELSE result[r]
    BY <1>1 DEF TypeOK
  <2>2. CASE r \in Addressee(c)
    BY <1>2, <1>3, <2>1, <2>2
  <2>3. CASE r \notin Addressee(c)
    <3>1. answers'[r] = answers[r]
      BY <1>3, <2>3
    <3>2. result[r] \in Lines \union {Exchange!TimedOut} /\ answers[r] = <<Text(result[r])>>
      BY <3>1 DEF OwnAnswer
    <3>3. r # c
      BY <1>1, <3>2 DEF Exchange!Open, Exchange!TimedOut
    <3>. QED
      BY <2>1, <3>1, <3>2, <3>3
  <2>. QED
    BY <2>2, <2>3
<1>9. NoRequestLost'
  BY <1>1, <1>3 DEF NoRequestLost, Existing, Answered, TypeOK
<1>. QED
  BY <1>3, <1>4, <1>5, <1>6, <1>7, <1>8, <1>9

\* The other steps of the loop task and the clock touch no request.
LEMMA OthersKeep ==
  ASSUME IInv, TypeOK',
         UNCHANGED <<result, received, answers, state, done, web, webPc, queue, todo, keep, lock>>,
         lock /\ busy => busy'
  PROVE  IInv'
<1>1. Walk' /\ AnsweredByRouter' /\ SentInOrder'
  BY QueueUntouched
<1>. QED
  BY <1>1 DEF IInv, OneAnswer, NewUntouched, WebHolds, QueueKnown, Places, QueueLimited,
              OwnAnswer, NoRequestLost, Existing, Answered

\* What the walk keeps, whether the router has it now or not.
LEMMA KeptInOrder ==
  ASSUME IInv, Walking, Kept, ~done[Next1],
         UNCHANGED <<answers, received>>,
         state' = state \/ (state' = [state EXCEPT ![Next1] = 1] /\ ~busy),
         state'[Next1] = 0 => busy', busy => busy'
  PROVE  Walk' /\ SentInOrder' /\ NoRequestLost'
<1> USE DEF IInv
<1>1. /\ lock /\ Next1 \in Requests /\ Next1 = queue[Passed + 1]
      /\ Passed + 1 \in 1 .. Len(queue)
      /\ Next1 \in Elements(queue) \ Elements(keep)
      /\ Elements(todo) = {Next1} \union Elements(todo')
      /\ Next1 \notin Elements(todo')
      /\ Passed' = Passed + 1
      /\ todo' \in Seq(Requests) /\ Len(todo') = Len(todo) - 1
      /\ \A i \in 1 .. Len(todo') : todo'[i] = queue[Passed' + i]
  BY NextInWalk
<1>2. UNCHANGED <<received, web, webPc, queue, lock>> /\ keep' = Append(keep, Next1)
  BY DEF Walking, Kept
<1>3. /\ queue \in Seq(Requests) /\ todo \in Seq(Requests) /\ keep \in Seq(Requests)
      /\ Elements(queue) \subseteq Requests /\ Elements(keep) \subseteq Requests
  BY ElementsType DEF TypeOK
<1>4. Elements(keep') = Elements(keep) \union {Next1} /\ Len(keep') = Len(keep) + 1
  BY <1>1, <1>2, <1>3, AppendElements
<1>5. ~Answered(Next1)
  BY <1>1 DEF OneAnswer
<1>6. \A x \in Requests : x # Next1 => state'[x] = state[x]
  BY DEF TypeOK
<1>7. state'[Next1] = 1 => state[Next1] = 1 \/ ~busy
  OBVIOUS
<1>8. \A x \in Elements(keep) : state[x] = 1 \/ busy
  BY <1>1, <1>3 DEF Walk, TypeOK
<1>9. \A x \in Elements(keep) : state'[Next1] = 1 => state[x] = 1
  BY <1>1, <1>3, <1>7, <1>8 DEF Walk, TypeOK
<1>10. Walk'
  <2>1. Len(todo') <= Len(queue) /\ Len(keep') <= Passed'
    <3>1. Len(todo) \in Nat /\ Len(queue) \in Nat /\ Len(keep) \in Nat /\ Passed \in Int
      BY <1>3 DEF Passed
    <3>2. Len(todo) <= Len(queue) /\ Len(keep) <= Passed
      BY <1>1 DEF Walk
    <3>. QED
      BY <1>1, <1>4, <3>1, <3>2
  <2>2. Distinct(keep')
    BY <1>1, <1>2, <1>3, AppendDistinct DEF Walk
  <2>3. \A x \in Elements(keep') : ~Answered(x)' /\ x \in Elements(queue) \ Elements(todo')
    BY <1>1, <1>4, <1>5 DEF Walk, Answered
  <2>4. \A x \in Elements(keep') : state'[x] = 0 => busy'
    BY <1>1, <1>3, <1>4, <1>6, <1>8
  <2>5. ASSUME NEW x \in Elements(keep'), NEW y \in Elements(todo'), state'[y] = 1
        PROVE  state'[x] = 1
    <3>1. y \in Requests /\ y # Next1 /\ state[y] = 1
      BY <1>1, <1>3, <1>6, <2>5, ElementsType
    <3>2. CASE x \in Elements(keep)
      BY <1>1, <1>3, <1>6, <3>1, <3>2 DEF Walk
    <3>3. CASE x = Next1
      <4>1. PICK i \in 1 .. Len(todo') : y = todo'[i]
        BY DEF Elements
      <4>2. y = queue[Passed' + i] /\ Passed' + i \in 1 .. Len(queue) /\ Passed + 1 < Passed' + i
        BY <1>1, <1>3, <4>1 DEF Passed
      <4>3. state[Next1] = 1 \/ Answered(Next1)
        BY <1>1, <3>1, <4>2 DEF SentInOrder, Answered
      <4>. QED
        BY <1>1, <1>5, <3>3, <4>3 DEF TypeOK
    <3>. QED
      BY <1>4, <3>2, <3>3
  <2>6. ASSUME NEW i \in 1 .. Len(keep'), NEW j \in 1 .. Len(keep'), i < j, state'[keep'[j]] = 1
        PROVE  state'[keep'[i]] = 1
    <3>1. i \in 1 .. Len(keep) /\ keep'[i] = keep[i] /\ keep[i] \in Elements(keep)
      BY <1>2, <1>3, <1>4, <2>6 DEF Elements
    <3>2. state'[keep[i]] = state[keep[i]]
      BY <1>1, <1>3, <1>6, <3>1
    <3>3. CASE j = Len(keep) + 1
      <4>1. keep'[j] = Next1
        BY <1>2, <1>3, <3>3
      <4>. QED
        BY <1>9, <2>6, <3>1, <3>2, <4>1
    <3>4. CASE j # Len(keep) + 1
      <4>1. j \in 1 .. Len(keep) /\ keep'[j] = keep[j] /\ keep[j] \in Elements(keep)
        BY <1>2, <1>3, <1>4, <3>4 DEF Elements
      <4>2. state[keep[j]] = 1
        BY <1>1, <1>3, <1>6, <2>6, <4>1
      <4>. QED
        BY <1>1, <2>6, <3>1, <3>2, <4>1, <4>2 DEF Walk
    <3>. QED
      BY <3>3, <3>4
  <2>. QED
    BY <1>1, <1>2, <2>1, <2>2, <2>3, <2>4, <2>5, <2>6 DEF Walk
<1>11. NoRequestLost'
  BY <1>1, <1>2, <1>4 DEF NoRequestLost, Existing
<1>12. SentInOrder'
  <2> SUFFICES ASSUME NEW i \in 1 .. Len(queue), NEW j \in 1 .. Len(queue), i < j,
                      state'[queue[j]] = 1
               PROVE  state'[queue[i]] = 1 \/ Answered(queue[i])
    BY <1>2 DEF SentInOrder, Answered
  <2>1. queue[i] \in Requests /\ queue[j] \in Requests /\ queue[i] \in Elements(queue)
    BY <1>3 DEF Elements
  <2>2. queue[i] = Next1 => state'[queue[i]] = state[queue[i]] \/ state'[queue[i]] = 1
    BY <1>1 DEF TypeOK
  <2>3. CASE queue[j] # Next1
    <3>1. state[queue[i]] = 1 \/ Answered(queue[i])
      BY <1>6, <2>1, <2>3 DEF SentInOrder, Answered
    <3>. QED
      BY <1>6, <2>1, <2>2, <3>1
  <2>4. CASE queue[j] = Next1
    <3>1. j = Passed + 1
      BY <1>1, <2>4 DEF QueueKnown, Distinct
    <3>2. queue[i] \notin Elements(todo)
      <4>1. ASSUME NEW k \in 1 .. Len(todo), todo[k] = queue[i] PROVE FALSE
        <5>1. queue[Passed + k] = queue[i]
          BY <1>1, <4>1 DEF Walk
        <5>2. Passed + k \in 1 .. Len(queue) /\ i < Passed + k
          BY <1>1, <1>3, <3>1 DEF Passed, Walk
        <5>3. Passed + k = i
          BY <5>1, <5>2 DEF QueueKnown, Distinct
        <5>. QED
          BY <5>2, <5>3
      <4>. QED
        BY <4>1 DEF Elements
    <3>3. Answered(queue[i]) \/ queue[i] \in Elements(keep)
      BY <1>1, <2>1, <3>2 DEF NoRequestLost, Answered
    <3>4. queue[i] # Next1
      BY <1>1, <3>2
    <3>. QED
      BY <1>6, <1>9, <2>1, <2>4, <3>3, <3>4
  <2>. QED
    BY <2>3, <2>4
<1>. QED
  BY <1>10, <1>11, <1>12

LEMMA SendToRouterKeeps ==
  ASSUME IInv, SendToRouter, TypeOK'
  PROVE  IInv'
<1> USE DEF IInv
<1>1. /\ Walking /\ Kept /\ ~done[Next1] /\ ~busy /\ busy'
      /\ state' = [state EXCEPT ![Next1] = 1]
      /\ result' = [result EXCEPT ![Next1] = Exchange!Open]
      /\ UNCHANGED <<received, answers, done, web, webPc, queue, lock>>
  BY DEF SendToRouter, Walking, Done1, RouterSend, Exchange!Accept, Exchange!Becomes, NoAnswer
<1>2. /\ lock /\ Next1 \in Requests /\ Next1 \in Elements(queue)
      /\ Elements(todo) = {Next1} \union Elements(todo')
      /\ Next1 \notin Elements(todo')
      /\ Elements(todo') \subseteq Requests
  BY <1>1, NextInWalk, ElementsType
<1>3. Walk' /\ SentInOrder' /\ NoRequestLost'
  <2>1. state'[Next1] = 0 => busy'
    BY <1>1
  <2>. QED
    BY <1>1, <2>1, KeptInOrder
<1>4. ~Answered(Next1)
  BY <1>1, <1>2 DEF OneAnswer
<1>5. /\ \A x \in Requests : x # Next1 => state'[x] = state[x]
      /\ \A x \in Requests : x # Next1 => result'[x] = result[x]
  BY <1>1 DEF TypeOK
<1>6. OneAnswer' /\ QueueKnown' /\ Places'
  BY <1>1 DEF OneAnswer, QueueKnown, Places, QueueLimited, Answered
<1>7. NewUntouched' /\ WebHolds'
  BY <1>1, <1>2, <1>5 DEF NewUntouched, WebHolds, QueueKnown, Answered, TypeOK
<1>8. AnsweredByRouter'
  BY <1>1, <1>2, <1>5 DEF AnsweredByRouter, InLine, Answered
<1>9. OwnAnswer'
  BY <1>1, <1>4, <1>5 DEF OwnAnswer, Answered
<1>. QED
  BY <1>3, <1>6, <1>7, <1>8, <1>9

LEMMA KeepWaitingKeeps ==
  ASSUME IInv, KeepWaiting, TypeOK'
  PROVE  IInv'
<1> USE DEF IInv
<1>1. /\ Walking /\ Kept /\ ~done[Next1] /\ (state[Next1] = 1 \/ busy)
      /\ UNCHANGED <<result, busy, received, answers, state, done, web, webPc, queue, lock>>
  BY DEF KeepWaiting, Walking, Done1, router
<1>2. lock /\ Elements(todo) = {Next1} \union Elements(todo')
  BY <1>1, NextInWalk
<1>3. Walk' /\ SentInOrder' /\ NoRequestLost'
  <2>1. (state'[Next1] = 0 => busy') /\ (busy => busy')
    BY <1>1
  <2>. QED
    BY <1>1, <2>1, KeptInOrder
<1>4. OneAnswer' /\ QueueKnown' /\ Places' /\ NewUntouched' /\ WebHolds' /\ OwnAnswer'
  BY <1>1 DEF OneAnswer, QueueKnown, Places, QueueLimited, NewUntouched, WebHolds, OwnAnswer,
              Answered
<1>5. AnsweredByRouter'
  BY <1>1, <1>2 DEF AnsweredByRouter, InLine, Answered
<1>. QED
  BY <1>3, <1>4, <1>5

-----------------------------------------------------------------------------
(* The theorems.                                                           *)

LEMMA IInvInit == Init => IInv
<1> SUFFICES ASSUME Init PROVE IInv
  OBVIOUS
<1>1. TypeOK
  BY TypeInit
<1>2. /\ \A r \in Requests : answers[r] = <<>> /\ ~done[r] /\ state[r] = 0
      /\ webPc = "idle" /\ ~lock /\ queue = <<>> /\ todo = <<>> /\ keep = <<>> /\ received = {}
  BY DEF Init
<1>3. Elements(queue) = {} /\ Len(queue) = 0
  BY <1>2 DEF Elements
<1>4. OneAnswer /\ NewUntouched
  BY <1>2 DEF OneAnswer, NewUntouched, Answered
<1>5. WebHolds /\ QueueKnown /\ Walk /\ AnsweredByRouter /\ Places /\ SentInOrder /\ NoRequestLost
  BY <1>2, <1>3
     DEF WebHolds, QueueKnown, Distinct, Walk, AnsweredByRouter, InLine, Places, QueueLimited,
         SentInOrder, NoRequestLost
<1>6. OwnAnswer
  BY <1>2 DEF OwnAnswer
<1>. QED
  BY <1>1, <1>4, <1>5, <1>6 DEF IInv

LEMMA IInvStep == IInv /\ [Next]_vars => IInv'
<1> SUFFICES ASSUME IInv, [Next]_vars PROVE IInv'
  OBVIOUS
<1>t. TypeOK'
  BY TypeStep DEF IInv
<1>1. ASSUME NEW r \in Requests, Receive(r) PROVE IInv'
  BY <1>1, <1>t, ReceiveKeeps
<1>2. CASE WebStep
  BY <1>2, <1>t, DoneFastKeeps, TestSizeKeeps, EnqueueKeeps DEF WebStep
<1>3. CASE TakeLock
  BY <1>3, <1>t, TakeLockKeeps
<1>4. CASE DeleteDone
  BY <1>4, <1>t, DeleteDoneKeeps
<1>5. CASE SendToRouter
  BY <1>5, <1>t, SendToRouterKeeps
<1>6. CASE KeepWaiting
  BY <1>6, <1>t, KeepWaitingKeeps
<1>7. CASE GiveLock
  BY <1>7, <1>t, GiveLockKeeps
<1>8. ASSUME NEW c \in Requests, NEW a \in Lines \union {Exchange!TimedOut}, RouterAnswers(c, a)
      PROVE IInv'
  BY <1>8, <1>t, RouterAnswersKeeps
<1>9. CASE RouterQuiet
  <2>1. ~lock
    BY <1>9 DEF RouterQuiet, IInv, TypeOK
  <2>. QED
    BY <1>9, <1>t, <2>1, OthersKeep DEF RouterQuiet, RouterSilent
<1>10. CASE OtherCall
  BY <1>10, <1>t, OthersKeep DEF OtherCall, walk
<1>11. CASE OtherCallsDone
  BY <1>11, <1>t, OthersKeep DEF OtherCallsDone, router
<1>12. CASE Tick
  BY <1>12, <1>t, OthersKeep DEF Tick, router, walk
<1>13. CASE UNCHANGED vars
  BY <1>13, <1>t, OthersKeep DEF vars
<1>. QED
  BY <1>1, <1>2, <1>3, <1>4, <1>5, <1>6, <1>7, <1>8, <1>9, <1>10, <1>11, <1>12, <1>13
     DEF Next, LoopStep

LEMMA Invariant == Safety => []IInv
  BY IInvInit, IInvStep, PTL DEF Safety

\* A client is answered once, by whichever task comes first
\* (http_adapter_request.cpp:18-35, 72-88; http_adapter.cpp:144-164).
THEOREM OneAnswerOnly == Safety => []AnsweredOnce
<1>1. IInv => AnsweredOnce
  BY DEF IInv, OneAnswer, AnsweredOnce
<1>. QED
  BY <1>1, Invariant, PTL

\* No request without an answer falls between the web task and the rebuilt
\* queue (http_adapter.cpp:41-59, 81-83).
THEOREM RequestsKept == Safety => []NoRequestLost
<1>1. IInv => NoRequestLost
  BY DEF IInv
<1>. QED
  BY <1>1, Invariant, PTL

\* Test and append are two critical sections, and the limit holds all the same:
\* only one task appends (http_adapter.cpp:70-89).
THEOREM LimitKept == Safety => []QueueLimited
<1>1. IInv => QueueLimited
  BY DEF IInv, Places
<1>. QED
  BY <1>1, Invariant, PTL

\* The router's answer reaches the request it belongs to, or nobody
\* (http_adapter.cpp:130-135, 144-164).
THEOREM AnswersAreOwn == Safety => []OwnAnswer
<1>1. IInv => OwnAnswer
  BY DEF IInv
<1>. QED
  BY <1>1, Invariant, PTL

\* Commands do not overtake each other on the way to the router
\* (http_adapter.cpp:46-57, 125-136).
THEOREM OrderKept == Safety => []SentInOrder
<1>1. IInv => SentInOrder
  BY DEF IInv
<1>. QED
  BY <1>1, Invariant, PTL

\* Nothing is sent for a client that has been answered (http_adapter.cpp:48-54).
THEOREM SilentAfterAnswer == Safety => NoSendAfterAnswer
<1> DEFINE Quiet == \A r \in Requests : result[r] = "new" /\ result'[r] = "open" => answers'[r] = <<>>
<1>1. IInv /\ [Next]_vars => [Quiet]_vars
  <2> SUFFICES ASSUME IInv, Next, NEW r \in Requests, result[r] = "new", result'[r] = "open"
               PROVE  answers'[r] = <<>>
    BY DEF Quiet
  <2>1. SendToRouter
    <3>1. result' # result
      OBVIOUS
    <3>2. ~(\E c \in Requests, a \in Lines \union {Exchange!TimedOut} : RouterAnswers(c, a))
      <4> SUFFICES ASSUME NEW c \in Requests, NEW a \in Lines \union {Exchange!TimedOut},
                          RouterAnswers(c, a)
                   PROVE  FALSE
        OBVIOUS
      <4>1. result' = [result EXCEPT ![c] = a] /\ a # "open"
        BY DEF RouterAnswers, RouterReports, Exchange!Complete, Exchange!Becomes, Exchange!TimedOut
      <4>. QED
        BY <4>1 DEF IInv, TypeOK
    <3>. QED
      BY <3>1, <3>2
         DEF Next, LoopStep, WebStep, Receive, DoneFast, TestSize, EnqueueRequest, TakeLock,
             DeleteDone, KeepWaiting, GiveLock, RouterQuiet, RouterSilent, OtherCall,
             OtherCallsDone, Tick, router
  <2>2. Next1 = r /\ ~done[Next1] /\ UNCHANGED answers
    BY <2>1 DEF SendToRouter, RouterSend, Exchange!Accept, Exchange!Becomes, NoAnswer, Done1,
                IInv, TypeOK
  <2>. QED
    BY <2>2 DEF IInv, OneAnswer, Answered
<1>. QED
  BY <1>1, Invariant, PTL DEF Safety, NoSendAfterAnswer
=============================================================================
