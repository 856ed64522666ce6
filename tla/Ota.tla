--------------------------------- MODULE Ota ---------------------------------
(***************************************************************************)
(* Ota::HttpServer (ota_http_server.cpp): the sessions of firmware uploads *)
(* share one Update, and a successful one lets the loop task restart.      *)
(*                                                                         *)
(* A file comes in Chunks pieces; a piece is <<b, i>>, of the file of b.   *)
(* Update and the boot loader are external: they accept and start complete *)
(* files only.  The actions here are parts of those in Web.                *)
(***************************************************************************)
EXTENDS Integers, Sequences

CONSTANTS
  Browsers,    \* who uploads
  Chunks

ASSUME ChunksAssumption == Chunks \in Nat \ {0}

VARIABLES
  session,     \* of each upload: none or [result, index]
  updating,    \* Update: "no", "begun" or "writing"
  staged,      \* the pieces in the partition that is not running
  bootStaged,  \* it is the one to boot
  restart,     \* _restart
  brokenOff    \* history: Update waits for a client that has gone

otaVars == <<session, updating, staged, bootStaged, restart, brokenOff>>

Results == {"pending", "started", "index_mismatch", "update_begin_failed",
            "verify_header_failed", "short_write_error", "update_end_failed", "success"}

Session(r, i) == <<[result |-> r, index |-> i]>>

Whole(b) == [i \in 1 .. Chunks |-> <<b, i>>]
Complete(p) == \E b \in Browsers : p = Whole(b)

OtaInit ==
  /\ session = [b \in Browsers |-> <<>>]
  /\ updating = "no"
  /\ staged = <<>>
  /\ bootStaged = FALSE
  /\ restart = FALSE
  /\ brokenOff = FALSE

\* the session's result, and Update, after a piece
Outcome(r, u, p, boot) == [result |-> r, updating |-> u, staged |-> p, bootStaged |-> boot]

\* Update.write and, after the last piece, Update.end
WritePiece(b, i, u) ==
  LET p == IF u = "begun" THEN <<<<b, i>>>> ELSE Append(staged, <<b, i>>) IN
  IF u = "no" THEN Outcome("short_write_error", u, staged, bootStaged)
  ELSE IF i < Chunks THEN Outcome("started", "writing", p, bootStaged)
  ELSE IF Complete(p) THEN Outcome("success", "no", p, TRUE)
  ELSE Outcome("update_end_failed", "no", p, bootStaged)

\* Piece i of session s of b; good is whether its first byte is that of
\* firmware (verifyHeader).
handle(b, i, s, good) ==
  IF s.result \notin {"pending", "started"} THEN Outcome(s.result, updating, staged, bootStaged)
  ELSE IF s.index # i - 1 THEN Outcome("index_mismatch", updating, staged, bootStaged)
  ELSE IF i > 1 THEN WritePiece(b, i, updating)
  ELSE IF updating # "no" THEN Outcome("update_begin_failed", updating, staged, bootStaged)
  ELSE IF ~good THEN Outcome("verify_header_failed", "begun", staged, bootStaged)
  ELSE WritePiece(b, i, "begun")

\* A client that has not authenticated itself has no session.
handleUpload(b, i, authenticated, good) ==
  LET begins == i = 1 /\ authenticated
      s == IF begins THEN [result |-> "pending", index |-> 0] ELSE session[b][1]
      o == handle(b, i, s, good)
  IN
  IF ~begins /\ (i = 1 \/ session[b] = <<>>) THEN UNCHANGED otaVars
  ELSE /\ session' = [session EXCEPT ![b] = Session(o.result, i)]
       /\ updating' = o.updating
       /\ staged' = o.staged
       /\ bootStaged' = o.bootStaged
       /\ brokenOff' = (brokenOff /\ o.updating # "no")
       /\ UNCHANGED restart

Succeeded(b) == session[b] # <<>> /\ session[b][1].result = "success"

\* Mutant of respond: a failed upload leaves Update alone.
respondNoAbort(b) ==
  /\ restart' = (restart \/ Succeeded(b))
  /\ session' = [session EXCEPT ![b] = <<>>]
  /\ UNCHANGED <<updating, staged, bootStaged, brokenOff>>

\* A failed upload aborts what is underway, its own or another's.
respond(b) ==
  LET aborts == session[b] # <<>> /\ ~Succeeded(b) IN
  /\ restart' = (restart \/ Succeeded(b))
  /\ updating' = IF aborts THEN "no" ELSE updating
  /\ brokenOff' = (brokenOff /\ ~aborts)
  /\ session' = [session EXCEPT ![b] = <<>>]
  /\ UNCHANGED <<staged, bootStaged>>

\* The connection ends: the session goes with its request, Update stays.
Disconnect(b) ==
  /\ brokenOff' = (brokenOff \/ (session[b] # <<>> /\ updating # "no"))
  /\ session' = [session EXCEPT ![b] = <<>>]
  /\ UNCHANGED <<updating, staged, bootStaged, restart>>

\* The boot loader falls back to the other partition if this one is not
\* complete; what is then staged is the firmware from before.
Starts(b) == bootStaged /\ staged = Whole(b)

OtaBoot ==
  /\ session' = [b \in Browsers |-> <<>>]
  /\ updating' = "no"
  /\ staged' = <<>>
  /\ bootStaged' = FALSE
  /\ restart' = FALSE
  /\ brokenOff' = FALSE

OtaTypeOK ==
  /\ session \in [Browsers -> Seq([result : Results, index : 0 .. Chunks])]
  /\ \A b \in Browsers : Len(session[b]) <= 1
  /\ updating \in {"no", "begun", "writing"}
  /\ staged \in Seq(Browsers \X (1 .. Chunks))
  /\ bootStaged \in BOOLEAN /\ restart \in BOOLEAN /\ brokenOff \in BOOLEAN
=============================================================================
