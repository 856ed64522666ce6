------------------------------ MODULE Exchange ------------------------------
(***************************************************************************)
(* What the router promises its clients (BLE, HTTP, the mower adapter and  *)
(* the modem command line): the serial line to the robot is one shared     *)
(* resource, a call is accepted only while no other caller waits for an    *)
(* answer, and an accepted send() is completed exactly once, with a line   *)
(* read from the robot or with a timeout.                                  *)
(***************************************************************************)
CONSTANTS
  Calls,      \* the calls of Router::send and Router::sendWithoutResponse
  Answers     \* the lines that may be read from the robot

VARIABLE
  result      \* what each call has come to

New     == "new"       \* not made, or made and refused so far
Open    == "open"      \* send() accepted, its callback not yet called
Fired   == "fired"     \* sendWithoutResponse() accepted: nobody waits
TimedOut == "timeout"  \* the callback was called with XferError::TIMEOUT

Init == result = [c \in Calls |-> New]

Becomes(c, r) == result' = [result EXCEPT ![c] = r]

NobodyWaits == \A c \in Calls : result[c] # Open

Accept(c, r) ==
  /\ NobodyWaits
  /\ result[c] = New
  /\ Becomes(c, r)

Complete(c, r) ==
  /\ result[c] = Open
  /\ Becomes(c, r)

Next ==
  \E c \in Calls :
    \/ \E r \in {Open, Fired} : Accept(c, r)
    \/ \E r \in Answers \union {TimedOut} : Complete(c, r)

Safety == Init /\ [][Next]_result

CompleteAny(c) == \E r \in Answers \union {TimedOut} : Complete(c, r)

Spec == Safety /\ \A c \in Calls : WF_result(CompleteAny(c))
=============================================================================
