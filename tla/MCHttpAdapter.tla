---------------------------- MODULE MCHttpAdapter ----------------------------
(***************************************************************************)
(* HttpAdapter on a small instance.  Four requests, one of them empty, and *)
(* a queue of two: the queue gets full, two requests wait at once and may  *)
(* change places, answers come after the request's end, and calls of other *)
(* clients keep the router busy.                                           *)
(***************************************************************************)
EXTENDS HttpAdapter
=============================================================================
