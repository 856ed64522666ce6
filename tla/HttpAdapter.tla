----------------------------- MODULE HttpAdapter -----------------------------
(***************************************************************************)
(* HttpAdapter and Http::CommandRequest (http_adapter.cpp,                 *)
(* http_adapter_request.cpp): commands POSTed by the app, queued for the   *)
(* router.  The web server's task builds the requests and appends them to  *)
(* _queue; the loop task walks the queue, hands one command at a time to   *)
(* the router, and runs the router, whose callback answers the request.    *)
(* _lock is taken for each access to _queue.                               *)
(*                                                                         *)
(* The router is the exchange service that Router implements (theorem      *)
(* RouterImplementsExchange), shared with the other clients, whose calls   *)
(* show in it being busy.  A request stands for its command.               *)
(***************************************************************************)
EXTENDS Naturals, Sequences

CONSTANTS
  Requests,        \* POSTs to "/"
  EmptyBody,       \* those of them without a command
  Lines,           \* what may be read from the robot
  QueueLimit,      \* 10
  RequestTimeout   \* 1000 ms, in ticks

ASSUME RequestsAssumption == EmptyBody \subseteq Requests /\ "none" \notin Requests
NoText == ""

ASSUME LinesAssumption ==
  Lines \intersect {"new", "open", "fired", "timeout", "400", "500", "504", NoText} = {}
ASSUME LimitsAssumption ==
  QueueLimit \in Nat \ {0} /\ RequestTimeout \in Nat \ {0}

VARIABLES
  result,    \* what the requests' calls of the router have come to
  busy,      \* the router refuses calls (sendCommand or expectResponse)
  received,  \* history: the requests handed to the adapter
  answers,   \* history: what has been sent to each client
  age,       \* time since the request was received, while it exists
  state,     \* CommandRequest::state, 1 once the router has accepted it
  done,      \* CommandRequest::_done
  web,       \* the request the web task is working on, or "none"
  webPc,     \* where the web task is
  queue,     \* _queue
  todo,      \* processQueue: what is left of the walk
  keep,      \* processQueue: the new queue
  lock,      \* processQueue holds _lock; the other holders take one step
  pc         \* where the loop task is

vars == <<result, busy, received, answers, age, state, done, web, webPc,
          queue, todo, keep, lock, pc>>
router == <<result, busy>>
walk == <<todo, keep, lock, pc>>

Exchange == INSTANCE Exchange WITH Calls <- Requests, Answers <- Lines

Elements(s) == {s[i] : i \in 1 .. Len(s)}

\* The requests that have been built and not been deleted.
Existing == (Elements(queue) \union {web}) \intersect Requests

TimedOut(r) == age[r] >= RequestTimeout

Init ==
  /\ Exchange!Init
  /\ busy = FALSE
  /\ received = {}
  /\ answers = [r \in Requests |-> <<>>]
  /\ age = [r \in Requests |-> 0]
  /\ state = [r \in Requests |-> 0]
  /\ done = [r \in Requests |-> FALSE]
  /\ web = "none"
  /\ webPc = "idle"
  /\ queue = <<>>
  /\ todo = <<>>
  /\ keep = <<>>
  /\ lock = FALSE
  /\ pc = "http"

\* Mutant of Respond: the requests are not marked as answered.
RespondNotDone(rs, a) ==
  /\ answers' = [r \in Requests |-> IF r \in rs THEN Append(answers[r], a) ELSE answers[r]]
  /\ UNCHANGED done

Respond(rs, a) ==
  /\ answers' = [r \in Requests |-> IF r \in rs THEN Append(answers[r], a) ELSE answers[r]]
  /\ done' = [r \in Requests |-> done[r] \/ r \in rs]

Answer(r, a) == Respond({r}, a)
NoAnswer == UNCHANGED <<answers, done>>

-----------------------------------------------------------------------------
(* The router, as far as its clients see it: it accepts a call unless it is *)
(* busy, and it is busy while a caller waits, while it prints a command     *)
(* nobody waits for, and while it prints a reply of Cli.                    *)

RouterSend(c) ==
  /\ ~busy
  /\ Exchange!Accept(c, Exchange!Open)
  /\ busy' = TRUE

RouterReports(c, a) ==
  /\ Exchange!Complete(c, a)
  /\ busy' \in BOOLEAN

RouterSilent ==
  /\ busy' \in {b \in BOOLEAN : b \/ Exchange!NobodyWaits}
  /\ UNCHANGED result

-----------------------------------------------------------------------------
(* The web server's task: handleCommandRequest, enqueueRequest.            *)

Receive(r) ==
  /\ webPc = "idle"
  /\ r \notin received
  /\ received' = received \union {r}
  /\ IF r \in EmptyBody
     THEN Answer(r, "400") /\ UNCHANGED <<web, webPc>>
     ELSE NoAnswer /\ web' = r /\ webPc' = "built"
  /\ UNCHANGED <<router, age, state, queue, walk>>

Release == web' = "none" /\ webPc' = "idle"

DoneFast ==
  /\ webPc = "built"
  /\ IF TimedOut(web)
     THEN Answer(web, "504") /\ Release
     ELSE NoAnswer /\ webPc' = "size" /\ UNCHANGED web
  /\ UNCHANGED <<router, received, age, state, queue, walk>>

\* Mutant of QueueIsFull: one too many.
QueueIsFullAfter == Len(queue) > QueueLimit

QueueIsFull == Len(queue) >= QueueLimit

TestSize ==
  /\ webPc = "size"
  /\ ~lock
  /\ IF QueueIsFull
     THEN Answer(web, "500") /\ Release
     ELSE NoAnswer /\ webPc' = "push" /\ UNCHANGED web
  /\ UNCHANGED <<router, received, age, state, queue, walk>>

\* Mutant of EnqueueRequest: _queue.push_back without _lock.
EnqueueUnlocked ==
  /\ webPc = "push"
  /\ queue' = Append(queue, web)
  /\ Release
  /\ UNCHANGED <<router, received, answers, age, state, done, walk>>

EnqueueRequest ==
  /\ webPc = "push"
  /\ ~lock
  /\ queue' = Append(queue, web)
  /\ Release
  /\ UNCHANGED <<router, received, answers, age, state, done, walk>>

WebStep == DoneFast \/ TestSize \/ EnqueueRequest

-----------------------------------------------------------------------------
(* The loop task: processQueue, then the router, then the other clients.   *)

TakeLock ==
  /\ pc = "http"
  /\ ~lock
  /\ lock' = TRUE
  /\ todo' = queue
  /\ pc' = "walk"
  /\ UNCHANGED <<router, received, answers, age, state, done, web, webPc, queue, keep>>

Next1 == Head(todo)
Done1 == done[Next1] \/ TimedOut(Next1)

Walking ==
  /\ pc = "walk"
  /\ todo # <<>>
  /\ todo' = Tail(todo)
  /\ UNCHANGED <<received, age, web, webPc, queue, lock, pc>>

\* Mutant of Kept: the new queue is built in reverse.
KeptInFront == keep' = <<Next1>> \o keep

Kept == keep' = Append(keep, Next1)

\* Mutant of DeleteDone: without "continue".
DeleteDoneFallsThrough ==
  /\ Walking
  /\ Done1
  /\ IF done[Next1] THEN NoAnswer ELSE Answer(Next1, "504")
  /\ IF state[Next1] = 0 /\ ~busy
     THEN RouterSend(Next1) /\ state' = [state EXCEPT ![Next1] = 1]
     ELSE UNCHANGED <<router, state>>
  /\ Kept

DeleteDone ==
  /\ Walking
  /\ Done1
  /\ IF done[Next1] THEN NoAnswer ELSE Answer(Next1, "504")
  /\ UNCHANGED <<router, state, keep>>

SendToRouter ==
  /\ Walking
  /\ ~Done1
  /\ state[Next1] = 0
  /\ RouterSend(Next1)
  /\ state' = [state EXCEPT ![Next1] = 1]
  /\ Kept
  /\ NoAnswer

\* Waiting for the router's answer, or refused by the router.
KeepWaiting ==
  /\ Walking
  /\ ~Done1
  /\ state[Next1] = 1 \/ busy
  /\ Kept
  /\ UNCHANGED <<router, answers, state, done>>

\* Mutant of GiveLock: left without xSemaphoreGive.
GiveLockForgotten ==
  /\ pc = "walk"
  /\ todo = <<>>
  /\ queue' = keep
  /\ keep' = <<>>
  /\ pc' = "router"
  /\ UNCHANGED <<router, received, answers, age, state, done, web, webPc, todo, lock>>

GiveLock ==
  /\ pc = "walk"
  /\ todo = <<>>
  /\ queue' = keep
  /\ keep' = <<>>
  /\ lock' = FALSE
  /\ pc' = "router"
  /\ UNCHANGED <<router, received, answers, age, state, done, web, webPc, todo>>

\* The callback of send() keeps the text and drops the error code.
Text(a) == IF a = Exchange!TimedOut THEN NoText ELSE a

\* Mutant of Addressee: without ids, the request at the front of the queue.
AddresseeInFront(c) == IF queue = <<>> THEN {} ELSE {Head(queue)}

\* handleRouterResponse looks for the id.
Addressee(c) == {r \in Elements(queue) : r = c}

RouterAnswers(c, a) ==
  /\ pc = "router"
  /\ ~lock
  /\ RouterReports(c, a)
  /\ Respond(Addressee(c), Text(a))
  /\ pc' = "clients"
  /\ UNCHANGED <<received, age, state, web, webPc, queue, todo, keep, lock>>

RouterQuiet ==
  /\ pc = "router"
  /\ RouterSilent
  /\ pc' = "clients"
  /\ UNCHANGED <<received, answers, age, state, done, web, webPc,
                 queue, todo, keep, lock>>

\* BLE, the mower adapter and Cli use the same router.
OtherCall ==
  /\ pc = "clients"
  /\ ~busy
  /\ busy' = TRUE
  /\ UNCHANGED <<result, received, answers, age, state, done, web, webPc, queue, walk>>

OtherCallsDone ==
  /\ pc = "clients"
  /\ pc' = "http"
  /\ UNCHANGED <<router, received, answers, age, state, done, web, webPc,
                 queue, todo, keep, lock>>

LoopStep ==
  \/ TakeLock \/ DeleteDone \/ SendToRouter \/ KeepWaiting \/ GiveLock
  \/ \E c \in Requests, a \in Lines \union {Exchange!TimedOut} : RouterAnswers(c, a)
  \/ RouterQuiet \/ OtherCall \/ OtherCallsDone

Tick ==
  /\ age' = [r \in Requests |->
               IF r \in Existing /\ ~TimedOut(r) THEN age[r] + 1 ELSE age[r]]
  /\ UNCHANGED <<router, received, answers, state, done, web, webPc, queue, walk>>

Next ==
  \/ \E r \in Requests : Receive(r)
  \/ WebStep
  \/ LoopStep
  \/ Tick

Safety == Init /\ [][Next]_vars

\* Both tasks are scheduled for ever.  The web task waits for _lock with a
\* higher priority than the loop task, which gives it in every pass: it gets
\* the lock in the end (strong fairness).
Spec == Safety /\ WF_vars(LoopStep) /\ SF_vars(WebStep) /\ WF_vars(Tick)

-----------------------------------------------------------------------------
(* Properties.                                                             *)

Results == Lines \union {"new", "open", "timeout"}
Texts == Lines \union {NoText, "400", "500", "504"}

TypeOK ==
  /\ result \in [Requests -> Results] /\ busy \in BOOLEAN
  /\ received \subseteq Requests
  /\ answers \in [Requests -> Seq(Texts)]
  /\ age \in [Requests -> 0 .. RequestTimeout]
  /\ state \in [Requests -> {0, 1}]
  /\ done \in [Requests -> BOOLEAN]
  /\ webPc \in {"idle", "built", "size", "push"}
  /\ IF webPc = "idle" THEN web = "none" ELSE web \in Requests
  /\ queue \in Seq(Requests) /\ todo \in Seq(Requests) /\ keep \in Seq(Requests)
  /\ lock \in BOOLEAN /\ (lock <=> pc = "walk")
  /\ pc \in {"http", "walk", "router", "clients"}

\* Whichever of the router's answer, the router's timeout, the adapter's own
\* timeout and a full queue comes first and whichever task it comes from, a
\* client is answered once and only once (http_adapter_request.cpp:18-35,
\* 72-88; http_adapter.cpp:144-164).
AnsweredOnce == \A r \in Requests : Len(answers[r]) <= 1

\* No request gets lost between the tasks: one without an answer is in the
\* hands of the web task or in the queue, even while processQueue builds the
\* new queue (http_adapter.cpp:41-59, 81-83).
NoRequestLost ==
  /\ \A r \in received : answers[r] = <<>> => r \in Existing
  /\ lock => \A r \in Elements(queue) :
               answers[r] = <<>> => r \in Elements(todo) \union Elements(keep)

\* The queue has a place for each waiting request and for no more than that
\* (http_adapter.cpp:70-89).
QueueLimited == Len(queue) <= QueueLimit

\* A command's answer goes to the request it belongs to or to nobody: what
\* the client reads is what the router told that request's callback
\* (http_adapter.cpp:130-135, 144-164).
OwnAnswer ==
  \A r \in Requests :
    answers[r] # <<>> /\ answers[r][1] \in Lines \union {NoText}
      => /\ result[r] \in Lines \union {Exchange!TimedOut}
         /\ answers[r] = <<Text(result[r])>>

\* Commands reach the robot in the order in which they were queued: when one
\* was handed to the router, so was every unanswered one queued before it
\* (http_adapter.cpp:46-57, 125-136).
SentInOrder ==
  \A i, j \in 1 .. Len(queue) :
    i < j /\ state[queue[j]] = 1 => state[queue[i]] = 1 \/ answers[queue[i]] # <<>>

\* Nothing is sent to the robot for a client that is or was told its command
\* failed (http_adapter.cpp:48-54).
NoSendAfterAnswer ==
  [][\A r \in Requests : result[r] = "new" /\ result'[r] = "open" => answers'[r] = <<>>]_vars

\* Every client is answered, even when the robot is silent, the router is
\* taken by others all the time or the queue is full
\* (http_adapter.cpp:41-59, http_adapter_request.cpp:26-35).
EveryoneIsAnswered == \A r \in Requests : r \in received ~> answers[r] # <<>>
=============================================================================
