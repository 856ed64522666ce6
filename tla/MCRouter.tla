------------------------------ MODULE MCRouter ------------------------------
(***************************************************************************)
(* Router on a small instance.  Two calls and one "AT" line give up to     *)
(* three commands in a row, enough for an answer to reach the next caller  *)
(* and for Cli to reply while a command is being printed; a timeout of two *)
(* ticks tells "just before" from "just at" the limit.                     *)
(***************************************************************************)
EXTENDS Router

\* The commands of sendWithoutResponse the robot still has to answer.
Unanswered(c) ==
  /\ result[c] = "fired"
  /\ \/ sendCommand /\ lastCommand = c
     \/ \E i \in 1 .. Len(robot) : robot[i] = c
     \/ \E i \in 1 .. Len(uart) : uart[i] = c

\* What test/router_test.h:58-76 (sendWithoutResponse_returns_false_when_busy)
\* says: "no response from robot yet", so the next call is refused, and a
\* "response from robot causes first to "unblock"".  The code unblocks as
\* soon as the command is printed (router.cpp:49, 73).
UnblockedByResponse ==
  [][(accepted' # accepted) => \A c \in Calls : ~Unanswered(c)]_vars
=============================================================================
