------------------------------ MODULE WebProofs ------------------------------
(***************************************************************************)
(* Theorems about Web, for any browsers, edits, documents, jobs and        *)
(* failures: an interrupted update is freed, what the user is told is      *)
(* true, the settings survive restarts and leave a way in, secrets stay in *)
(* the modem, and variables keep their types.                              *)
(***************************************************************************)
EXTENDS Web, TLAPS

-----------------------------------------------------------------------------
(* Firmware update.                                                        *)

\* A session that has succeeded has let go of Update.
Failing(b) == session[b] # <<>> /\ session[b][1].result # "success"
Held == updating # "no" => brokenOff \/ \E b \in Browsers : Failing(b)

OtaInv ==
  /\ DOMAIN session = Browsers
  /\ brokenOff \in BOOLEAN
  /\ Held

LEMMA SessionIs ==
  \A r, i : Session(r, i) # <<>> /\ Session(r, i)[1].result = r
  BY DEF Session

\* What writes successfully, lets go of Update.
LetsGo(o) == o.updating = "no" \/ o.result # "success"

LEMMA OutcomeIs ==
  \A r, u, p, boot :
    Outcome(r, u, p, boot).result = r /\ Outcome(r, u, p, boot).updating = u
  BY DEF Outcome

LEMMA WriteLetsGo == \A b, i, u : LetsGo(WritePiece(b, i, u))
<1>1. \A u, p, boot : /\ LetsGo(Outcome("short_write_error", u, p, boot))
                      /\ LetsGo(Outcome("started", u, p, boot))
                      /\ LetsGo(Outcome("success", "no", p, boot))
                      /\ LetsGo(Outcome("update_end_failed", u, p, boot))
  BY OutcomeIs DEF LetsGo
<1>. QED
  BY <1>1, Zenon DEF WritePiece

LEMMA SuccessEnds ==
  ASSUME NEW b, NEW i, NEW s, NEW good
  PROVE  LET o == handle(b, i, s, good) IN
         LetsGo(o) \/ (s.result = "success" /\ o.updating = updating)
<1>1. CASE s.result \notin {"pending", "started"}
  <2>1. handle(b, i, s, good) = Outcome(s.result, updating, staged, bootStaged)
    BY <1>1, Zenon DEF handle
  <2>. QED
    BY <2>1, OutcomeIs DEF LetsGo
<1>2. CASE s.result \in {"pending", "started"}
  <2>1. \A u, p, boot : /\ LetsGo(Outcome("index_mismatch", u, p, boot))
                        /\ LetsGo(Outcome("update_begin_failed", u, p, boot))
                        /\ LetsGo(Outcome("verify_header_failed", u, p, boot))
    BY OutcomeIs DEF LetsGo
  <2>2. LetsGo(handle(b, i, s, good))
    BY <1>2, <2>1, WriteLetsGo, Zenon DEF handle
  <2>. QED
    BY <2>2
<1>. QED
  BY <1>1, <1>2

LEMMA UploadKeeps ==
  ASSUME OtaInv, NEW b \in Browsers, NEW i, NEW auth_, NEW good, handleUpload(b, i, auth_, good)
  PROVE  OtaInv'
<1> DEFINE begins == i = 1 /\ auth_
<1> DEFINE s == IF begins THEN [result |-> "pending", index |-> 0] ELSE session[b][1]
<1> DEFINE o == handle(b, i, s, good)
<1>1. CASE UNCHANGED otaVars
  BY <1>1 DEF otaVars, OtaInv, Held, Failing
<1>2. CASE /\ begins \/ session[b] # <<>>
           /\ session' = [session EXCEPT ![b] = Session(o.result, i)]
           /\ updating' = o.updating
           /\ brokenOff' = (brokenOff /\ o.updating # "no")
  <2>1. \/ o.updating = "no"
        \/ o.result # "success"
        \/ s.result = "success" /\ o.updating = updating
    BY SuccessEnds DEF LetsGo
  <2>2. s.result = "success" => session[b] # <<>> /\ session[b][1].result = "success"
    BY <1>2
  <2>3. DOMAIN session' = Browsers /\ brokenOff' \in BOOLEAN
    BY <1>2 DEF OtaInv
  <2> HIDE DEF s, o, begins
  <2>4. /\ session'[b] = Session(o.result, i)
        /\ \A c \in Browsers \ {b} : session'[c] = session[c]
    BY <1>2 DEF OtaInv
  <2>5. ASSUME updating' # "no" PROVE brokenOff' \/ \E c \in Browsers : Failing(c)'
    <3>1. CASE o.result # "success"
      <4>1. Failing(b)'
        BY <2>4, <3>1, SessionIs DEF Failing
      <4>. QED
        BY <4>1
    <3>2. CASE s.result = "success" /\ o.updating = updating
      <4>1. CASE brokenOff
        BY <1>2, <2>5, <4>1
      <4>2. ASSUME NEW c \in Browsers, Failing(c) PROVE Failing(c)'
        BY <2>2, <2>4, <3>2, <4>2 DEF Failing
      <4>. QED
        BY <1>2, <2>5, <3>2, <4>1, <4>2 DEF OtaInv, Held
    <3>. QED
      BY <1>2, <2>1, <2>5, <3>1, <3>2
  <2>. QED
    BY <2>3, <2>5 DEF OtaInv, Held
<1>. QED
  BY <1>1, <1>2 DEF handleUpload

LEMMA RespondKeeps ==
  ASSUME OtaInv, NEW b \in Browsers, respond(b)
  PROVE  OtaInv'
<1>1. /\ session'[b] = <<>> /\ DOMAIN session' = Browsers
      /\ \A c \in Browsers \ {b} : session'[c] = session[c]
  BY DEF respond, OtaInv
<1>2. brokenOff' \in BOOLEAN
  BY DEF respond
<1>3. CASE Failing(b)
  BY <1>1, <1>2, <1>3 DEF respond, Succeeded, Failing, OtaInv, Held
<1>4. CASE ~Failing(b)
  <2>1. updating' = updating /\ brokenOff' = brokenOff
    BY <1>4 DEF respond, Succeeded, Failing, OtaInv
  <2>2. ASSUME NEW c \in Browsers, Failing(c) PROVE Failing(c)'
    BY <1>1, <1>4, <2>2 DEF Failing
  <2>. QED
    BY <1>1, <1>2, <2>1, <2>2 DEF OtaInv, Held
<1>. QED
  BY <1>3, <1>4

LEMMA DisconnectKeeps ==
  ASSUME OtaInv, NEW b \in Browsers, Disconnect(b)
  PROVE  OtaInv'
<1>1. /\ session'[b] = <<>> /\ DOMAIN session' = Browsers
      /\ \A c \in Browsers \ {b} : session'[c] = session[c]
  BY DEF Disconnect, OtaInv
<1>2. brokenOff' = (brokenOff \/ (session[b] # <<>> /\ updating # "no")) /\ updating' = updating
  BY DEF Disconnect
<1>3. ASSUME NEW c \in Browsers, Failing(c), ~(session[b] # <<>>) PROVE Failing(c)'
  BY <1>1, <1>3 DEF Failing
<1>. QED
  BY <1>1, <1>2, <1>3 DEF OtaInv, Held

LEMMA BootKeeps == OtaBoot => OtaInv'
  BY DEF OtaBoot, OtaInv, Held

LEMMA OtaStep == OtaInv /\ [Next]_vars => OtaInv'
<1> SUFFICES ASSUME OtaInv, [Next]_vars PROVE OtaInv'
  OBVIOUS
<1>1. CASE UNCHANGED otaVars
  BY <1>1 DEF otaVars, OtaInv, Held, Failing
<1>2. ASSUME NEW b \in Browsers, Browser(b) PROVE OtaInv'
  <2>1. CASE SendPiece(b)
    BY <2>1, UploadKeeps DEF SendPiece
  <2>2. CASE UploadDone(b)
    BY <2>2, RespondKeeps DEF UploadDone
  <2>3. CASE UploadBreaks(b)
    BY <2>3, DisconnectKeeps DEF UploadBreaks
  <2>4. CASE Load(b) \/ LoadFails(b) \/ Info(b) \/ RequestFails(b) \/ PostSettings(b)
    BY <1>1, <2>4 DEF Load, LoadFails, Info, RequestFails, PostSettings
  <2>5. CASE PostRejected(b) \/ PostFails(b) \/ PostReset(b) \/ PostPairings(b)
    BY <1>1, <2>5 DEF PostRejected, PostFails, PostReset, PostPairings
  <2>6. CASE SeesReboot(b) \/ GivesUp(b)
    BY <1>1, <2>6 DEF SeesReboot, GivesUp
  <2>. QED
    BY <1>2, <2>1, <2>2, <2>3, <2>4, <2>5, <2>6 DEF Browser
<1>3. ASSUME NEW b \in Browsers, User(b) PROVE OtaInv'
  BY <1>1, <1>3 DEF User, TryAgain, StartOther, StartScript, StartSave, Begin
<1>4. CASE Write \/ Respond \/ Tick
  BY <1>1, <1>4 DEF Write, Respond, Tick
<1>5. CASE delayedRestart \/ loopRestart \/ Crash
  BY <1>5, BootKeeps DEF delayedRestart, loopRestart, Crash, Boot
<1>6. CASE UNCHANGED vars
  BY <1>1, <1>6 DEF vars
<1>. QED
  BY <1>2, <1>3, <1>4, <1>5, <1>6 DEF Next, WebTask

\* Update is not left held by nobody: it is a session's, or the client it waits
\* for has gone, whatever others upload meanwhile (ota_http_server.cpp:133).
THEOREM UpdateIsFreed == Spec => []UpdateIsHeld
<1>1. Init => OtaInv
  BY DEF Init, OtaInit, OtaInv, Held
<1>2. OtaInv => UpdateIsHeld
  BY DEF OtaInv, Held, Failing, UpdateIsHeld
<1>. QED
  BY <1>1, <1>2, OtaStep, PTL DEF Spec

-----------------------------------------------------------------------------
(* What the user is told.                                                  *)

\* The web task is in a step of a request of b.
At(b, steps) == ~Free /\ task[1].by = b /\ task[1].step \in steps

\* What the user wanted has come, or comes with a restart that is due.
Come(b) ==
  fate[b] = "running" \/ (fate[b] = "installed" /\ restart) \/ fate[b] = "lost"

Told(b) ==
  /\ pc[b] = "posted" <=> At(b, {"write", "respond"})
  /\ At(b, {"respond"}) => fate[b] = "done"
  /\ session[b] # <<>> => pc[b] = "upload"
  /\ Succeeded(b) => fate[b] = "installed"
  /\ pc[b] \in {"info", "post", "posted", "upload"} => shown[b] # "success"
  /\ pc[b] = "await" => Come(b) \/ (fate[b] = "done" /\ At(b, {"restart"}))
  /\ shown[b] = "success" => Come(b)

Handler(b, step, new) == <<[by |-> b, step |-> step, new |-> new]>>

Handles(b, step, new) ==
  b \in Browsers /\ step \in {"write", "respond", "restart"} /\ task = Handler(b, step, new)

TaskOK == Free \/ \E b, step, new : Handles(b, step, new)

TellInv ==
  /\ DOMAIN pc = Browsers /\ DOMAIN shown = Browsers
  /\ DOMAIN fate = Browsers /\ DOMAIN session = Browsers
  /\ TaskOK
  /\ \A b \in Browsers : Told(b)

LEMMA HandlerIs ==
  \A b, step, new : LET h == Handler(b, step, new) IN
    /\ h # <<>> /\ h[1].by = b /\ h[1].step = step /\ h[1].new = new
    /\ \A to : <<[h[1] EXCEPT !.step = to]>> = Handler(b, to, new)
  BY DEF Handler

\* b goes on, and nothing else changes.
LEMMA GoesOn ==
  ASSUME TellInv, NEW b \in Browsers, NEW q, pc' = [pc EXCEPT ![b] = q],
         DOMAIN shown' = Browsers, \A c \in Browsers \ {b} : shown'[c] = shown[c],
         UNCHANGED <<task, fate, restart, session>>,
         pc[b] \notin {"posted", "upload"}, q \notin {"posted", "await"},
         shown'[b] = "success" => Come(b),
         q \in {"info", "post", "upload"} => shown'[b] # "success"
  PROVE  TellInv'
<1>1. /\ DOMAIN pc' = Browsers /\ pc'[b] = q
      /\ \A c \in Browsers \ {b} : pc'[c] = pc[c]
  BY DEF TellInv
<1>2. Told(b)'
  BY <1>1 DEF TellInv, Told, At, Come, Succeeded, Free
<1>3. ASSUME NEW c \in Browsers \ {b} PROVE Told(c)'
  BY <1>1, <1>3 DEF TellInv, Told, At, Come, Succeeded, Free
<1>4. TaskOK'
  BY DEF TellInv, TaskOK, Handles, Free
<1>. QED
  BY <1>1, <1>2, <1>3, <1>4 DEF TellInv

LEMMA BeginKeeps ==
  ASSUME TellInv, NEW b \in Browsers, NEW to, Begin(b, to), to \in {"info", "post"}
  PROVE  TellInv'
<1>1. /\ pc[b] = "idle" /\ pc'[b] = to /\ shown'[b] = "nothing" /\ fate'[b] = "none"
      /\ \A c \in Browsers \ {b} : pc'[c] = pc[c] /\ shown'[c] = shown[c] /\ fate'[c] = fate[c]
      /\ DOMAIN pc' = Browsers /\ DOMAIN shown' = Browsers /\ DOMAIN fate' = Browsers
  BY DEF Begin, GoTo, TellInv
<1>2. UNCHANGED <<task, restart, session>>
  BY DEF Begin, modem, otaVars
<1>3. Told(b)'
  BY <1>1, <1>2 DEF TellInv, Told, At, Come, Succeeded, Free
<1>4. ASSUME NEW c \in Browsers \ {b} PROVE Told(c)'
  BY <1>1, <1>2, <1>4 DEF TellInv, Told, At, Come, Succeeded, Free
<1>5. TaskOK'
  BY <1>2 DEF TellInv, TaskOK, Handles, Free
<1>. QED
  BY <1>1, <1>2, <1>3, <1>4, <1>5 DEF TellInv

\* A request of b occupies the web task.
LEMMA PostKeeps ==
  ASSUME TellInv, NEW b \in Browsers, GoTo(b, "post", "posted"), Free,
         NEW step \in {"write", "respond"}, NEW new, task' = Handler(b, step, new),
         DOMAIN fate' = Browsers, \A c \in Browsers \ {b} : fate'[c] = fate[c],
         step = "respond" => fate'[b] = "done",
         UNCHANGED <<shown, restart, session>>
  PROVE  TellInv'
<1>1. /\ pc[b] = "post" /\ pc'[b] = "posted" /\ DOMAIN pc' = Browsers
      /\ \A c \in Browsers \ {b} : pc'[c] = pc[c]
  BY DEF GoTo, TellInv
<1>2. ~Free' /\ task'[1].by = b /\ task'[1].step = step
  BY HandlerIs DEF Free
<1>3. Told(b)'
  BY <1>1, <1>2 DEF TellInv, Told, At, Come, Succeeded
<1>4. ASSUME NEW c \in Browsers \ {b} PROVE Told(c)'
  BY <1>1, <1>2, <1>4 DEF TellInv, Told, At, Come, Succeeded
<1>5. TaskOK'
  BY DEF TaskOK, Handles
<1>. QED
  BY <1>1, <1>3, <1>4, <1>5 DEF TellInv

LEMMA WriteKeeps ==
  ASSUME TellInv, Write
  PROVE  TellInv'
<1>0. PICK b \in Browsers : \E new : task = Handler(b, "write", new)
  <2>1. PICK c, step, new : Handles(c, step, new)
    BY DEF Write, TellInv, TaskOK
  <2>2. step = "write"
    BY <2>1, HandlerIs DEF Write, Handles
  <2>. QED
    BY <2>1, <2>2 DEF Handles
<1>1. PICK new : task = Handler(b, "write", new)
  BY <1>0
<1>2. task[1].by = b /\ task[1].step = "write" /\ ~Free
  BY <1>1, HandlerIs DEF Free
<1>3. task' = Handler(b, "respond", new)
  BY <1>1, HandlerIs DEF Write
<1>4. task'[1].by = b /\ task'[1].step = "respond" /\ ~Free'
  BY <1>3, HandlerIs DEF Free
<1>5. /\ UNCHANGED <<pc, shown, restart, session>>
      /\ DOMAIN fate' = Browsers /\ fate'[b] = "done"
      /\ \A c \in Browsers \ {b} : fate'[c] = fate[c]
  BY <1>2 DEF Write, otaVars, TellInv
<1>6. Told(b)'
  BY <1>2, <1>4, <1>5 DEF TellInv, Told, At, Come, Succeeded
<1>7. ASSUME NEW c \in Browsers \ {b} PROVE Told(c)'
  BY <1>2, <1>4, <1>5, <1>7 DEF TellInv, Told, At, Come, Succeeded
<1>8. TaskOK'
  BY <1>3 DEF TaskOK, Handles
<1>. QED
  BY <1>5, <1>6, <1>7, <1>8 DEF TellInv

LEMMA RespondingKeeps ==
  ASSUME TellInv, Respond
  PROVE  TellInv'
<1>0. PICK b \in Browsers : \E new : task = Handler(b, "respond", new)
  <2>1. PICK c, step, new : Handles(c, step, new)
    BY DEF Respond, TellInv, TaskOK
  <2>2. step = "respond"
    BY <2>1, HandlerIs DEF Respond, Handles
  <2>. QED
    BY <2>1, <2>2 DEF Handles
<1>1. PICK new : task = Handler(b, "respond", new)
  BY <1>0
<1>2. task[1].by = b /\ task[1].step = "respond" /\ ~Free
  BY <1>1, HandlerIs DEF Free
<1>3. task' = Handler(b, "restart", new)
  BY <1>1, HandlerIs DEF Respond
<1>4. task'[1].by = b /\ task'[1].step = "restart" /\ ~Free'
  BY <1>3, HandlerIs DEF Free
<1>5. UNCHANGED <<fate, restart, session>>
  BY DEF Respond, request, otaVars
<1>6. /\ DOMAIN pc' = Browsers /\ DOMAIN shown' = Browsers
      /\ pc'[b] \in {"idle", "await"} /\ shown'[b] # "success"
      /\ \A c \in Browsers \ {b} : pc'[c] = pc[c] /\ shown'[c] = shown[c]
  <2>1. pc[b] = "posted" /\ shown[b] # "success"
    BY <1>2 DEF TellInv, Told, At
  <2>2. CASE Ends(b, "nothing") \/ Ends(b, "error")
    BY <2>2 DEF Ends, TellInv
  <2>3. CASE GoTo(b, "posted", "await") /\ UNCHANGED shown
    BY <2>1, <2>3 DEF GoTo, TellInv
  <2>. QED
    BY <1>2, <2>2, <2>3 DEF Respond
<1>7. Told(b)'
  BY <1>2, <1>4, <1>5, <1>6 DEF TellInv, Told, At, Come, Succeeded
<1>8. ASSUME NEW c \in Browsers \ {b} PROVE Told(c)'
  BY <1>2, <1>4, <1>5, <1>6, <1>8 DEF TellInv, Told, At, Come, Succeeded
<1>9. TaskOK'
  BY <1>3 DEF TaskOK, Handles
<1>. QED
  BY <1>5, <1>6, <1>7, <1>8, <1>9 DEF TellInv

LEMMA RestartKeeps ==
  ASSUME TellInv, Boot
  PROVE  TellInv'
<1>1. /\ DOMAIN pc' = Browsers /\ DOMAIN shown' = Browsers
      /\ DOMAIN fate' = Browsers /\ DOMAIN session' = Browsers
      /\ task' = <<>>
  BY DEF Boot, OtaBoot
<1>2. ASSUME NEW b \in Browsers PROVE Told(b)'
  <2>1. /\ pc'[b] = IF Hanging(b) THEN "idle" ELSE pc[b]
        /\ shown'[b] = IF Hanging(b) THEN "error" ELSE shown[b]
        /\ fate'[b] = IF fate[b] = "installed" THEN (IF Starts(b) THEN "running" ELSE "lost")
                      ELSE IF fate[b] = "done" THEN "running" ELSE fate[b]
        /\ session'[b] = <<>>
    BY DEF Boot, OtaBoot
  <2>2. ~At(b, {"write", "respond"})' /\ ~At(b, {"respond"})' /\ ~Succeeded(b)'
    BY <1>1, <2>1 DEF At, Free, Succeeded
  <2>3. pc'[b] # "posted"
    BY <2>1 DEF Hanging
  <2>4. Come(b) \/ fate[b] = "done" => Come(b)'
    BY <2>1 DEF Come
  <2>5. /\ pc'[b] \in {"info", "post", "posted", "upload"} => shown'[b] # "success"
        /\ pc'[b] = "await" => pc[b] = "await"
        /\ shown'[b] = "success" => shown[b] = "success"
    BY <2>1 DEF TellInv, Told
  <2>. QED
    BY <2>1, <2>2, <2>3, <2>4, <2>5 DEF TellInv, Told
<1>3. TaskOK'
  BY <1>1 DEF TaskOK, Free
<1>. QED
  BY <1>1, <1>2, <1>3 DEF TellInv

LEMMA UploadTells ==
  ASSUME TellInv, NEW b \in Browsers, SendPiece(b) \/ UploadDone(b) \/ UploadBreaks(b)
  PROVE  TellInv'
<1>1. pc[b] = "upload" /\ task' = task
  BY DEF SendPiece, UploadDone, UploadBreaks, modem
<1>2. /\ DOMAIN session' = Browsers
      /\ \A c \in Browsers \ {b} : session'[c] = session[c]
  BY DEF SendPiece, UploadDone, UploadBreaks, handleUpload, respond, Disconnect, otaVars, TellInv
<1>3. CASE SendPiece(b)
  <2>1. UNCHANGED <<pc, shown, restart>>
    BY <1>3 DEF SendPiece, handleUpload, otaVars
  <2>2. /\ DOMAIN fate' = Browsers
        /\ \A c \in Browsers \ {b} : fate'[c] = fate[c]
        /\ Succeeded(b)' => fate'[b] = "installed"
    BY <1>3 DEF SendPiece, TellInv
  <2>3. Told(b)'
    BY <1>1, <2>1, <2>2 DEF TellInv, Told, At, Come, Free
  <2>4. ASSUME NEW c \in Browsers \ {b} PROVE Told(c)'
    BY <1>1, <1>2, <2>1, <2>2, <2>4 DEF TellInv, Told, At, Come, Free, Succeeded
  <2>. QED
    BY <1>1, <1>2, <2>1, <2>2, <2>3, <2>4 DEF TellInv, TaskOK, Handles, Free
<1>4. CASE UploadDone(b) \/ UploadBreaks(b)
  <2>1. session'[b] = <<>> /\ UNCHANGED fate /\ (restart => restart')
    <3>1. session' = [session EXCEPT ![b] = <<>>] /\ UNCHANGED fate
      BY <1>4 DEF UploadDone, UploadBreaks, respond, Disconnect, request
    <3>2. restart' = restart \/ restart' = (restart \/ Succeeded(b))
      BY <1>4 DEF UploadDone, UploadBreaks, respond, Disconnect
    <3>3. session'[b] = <<>> /\ UNCHANGED fate
      BY <3>1 DEF TellInv
    <3>4. restart => restart'
      BY <3>2, Zenon
    <3>. QED
      BY <3>3, <3>4
  <2>2. /\ DOMAIN pc' = Browsers /\ DOMAIN shown' = Browsers
        /\ \A c \in Browsers \ {b} : pc'[c] = pc[c] /\ shown'[c] = shown[c]
        /\ \/ pc'[b] = "idle" /\ shown'[b] = "error"
           \/ pc'[b] = "await" /\ shown'[b] = shown[b] /\ Succeeded(b) /\ restart'
    <3>1. CASE Ends(b, "error")
      BY <3>1 DEF Ends, TellInv
    <3>2. CASE GoTo(b, "upload", "await") /\ UNCHANGED shown /\ Succeeded(b) /\ restart'
      BY <3>2 DEF GoTo, TellInv
    <3>. QED
      BY <1>4, <3>1, <3>2 DEF UploadDone, UploadBreaks, respond
  <2>3. Told(b)'
    BY <1>1, <2>1, <2>2 DEF TellInv, Told, At, Come, Free, Succeeded
  <2>4. ASSUME NEW c \in Browsers \ {b} PROVE Told(c)'
    BY <1>1, <1>2, <2>1, <2>2, <2>4 DEF TellInv, Told, At, Come, Free, Succeeded
  <2>. QED
    BY <1>1, <1>2, <2>1, <2>2, <2>3, <2>4 DEF TellInv, TaskOK, Handles, Free
<1>. QED
  BY <1>3, <1>4

LEMMA TellStep == TellInv /\ [Next]_vars => TellInv'
<1> SUFFICES ASSUME TellInv, [Next]_vars PROVE TellInv'
  OBVIOUS
<1>1. CASE UNCHANGED <<task, fate, shown, restart, session, pc>>
  BY <1>1 DEF TellInv, Told, At, Come, Succeeded, TaskOK, Handles, Free
<1>2. ASSUME NEW b \in Browsers, Browser(b) PROVE TellInv'
  <2>1. CASE Load(b) \/ LoadFails(b)
    <3>1. UNCHANGED <<task, fate, restart, session>>
      BY <2>1 DEF Load, LoadFails, modem, request, otaVars
    <3>2. /\ pc' = [pc EXCEPT ![b] = "idle"] /\ pc[b] \notin {"posted", "upload"}
          /\ shown' = shown \/ shown' = [shown EXCEPT ![b] = shown[b]]
      BY <2>1 DEF Load, LoadFails, GoTo, Ends
    <3>3. DOMAIN shown' = Browsers /\ \A c \in Browsers : shown'[c] = shown[c]
      BY <3>2 DEF TellInv
    <3>4. shown'[b] = "success" => Come(b)
      BY <3>3 DEF TellInv, Told
    <3> DEFINE q == "idle"
    <3>5. /\ pc' = [pc EXCEPT ![b] = q] /\ DOMAIN shown' = Browsers
          /\ \A c \in Browsers \ {b} : shown'[c] = shown[c]
          /\ q \notin {"posted", "await"} /\ q \notin {"info", "post", "upload"}
      BY <3>2, <3>3
    <3> HIDE DEF q
    <3>. QED
      BY <3>1, <3>2, <3>4, <3>5, GoesOn
  <2>2. CASE Info(b)
    <3>1. PICK q \in {"upload", "post"} : GoTo(b, "info", q)
      BY <2>2 DEF Info
    <3>2. /\ pc' = [pc EXCEPT ![b] = q] /\ pc[b] = "info"
          /\ UNCHANGED <<shown, task, fate, restart, session>>
      BY <2>2, <3>1 DEF Info, GoTo, modem, otaVars
    <3>3. shown[b] # "success" /\ DOMAIN shown = Browsers
      BY <3>2 DEF TellInv, Told
    <3>. QED
      BY <3>2, <3>3, GoesOn
  <2>3. CASE RequestFails(b) \/ PostRejected(b) \/ PostFails(b) \/ GivesUp(b)
    <3>1. /\ pc[b] \in {"info", "post", "await"} /\ Ends(b, "error")
          /\ UNCHANGED <<task, fate, restart, session>>
      BY <2>3 DEF RequestFails, PostRejected, PostFails, GivesUp, modem, request, otaVars
    <3>2. /\ pc' = [pc EXCEPT ![b] = "idle"] /\ shown'[b] = "error" /\ DOMAIN shown' = Browsers
          /\ \A c \in Browsers \ {b} : shown'[c] = shown[c]
      BY <3>1 DEF Ends, TellInv
    <3>. QED
      BY <3>1, <3>2, GoesOn
  <2>4. CASE PostSettings(b) \/ PostReset(b)
    <3>1. PICK new : task' = Handler(b, "write", new)
      BY <2>4 DEF PostSettings, PostReset, Save, Handler
    <3>. QED
      BY <2>4, <3>1, PostKeeps DEF PostSettings, PostReset, request, otaVars, TellInv
  <2>5. CASE PostPairings(b)
    <3>1. task' = Handler(b, "respond", settings)
      BY <2>5 DEF PostPairings, Handler
    <3>2. /\ DOMAIN fate' = Browsers /\ fate'[b] = "done"
          /\ \A c \in Browsers \ {b} : fate'[c] = fate[c]
      BY <2>5 DEF PostPairings, TellInv
    <3>. QED
      BY <2>5, <3>1, <3>2, PostKeeps DEF PostPairings, otaVars
  <2>6. CASE SeesReboot(b)
    <3>1. pc[b] = "await" /\ Free /\ UNCHANGED <<task, fate, restart, session>>
      BY <2>6 DEF SeesReboot, modem, request, otaVars
    <3>2. PICK q \in {"reload", "idle"} :
            pc' = [pc EXCEPT ![b] = q] /\ shown' = [shown EXCEPT ![b] = "success"]
      BY <2>6 DEF SeesReboot, GoTo, Ends
    <3>3. Come(b)
      BY <3>1 DEF TellInv, Told, At
    <3>4. /\ DOMAIN shown' = Browsers
          /\ \A c \in Browsers \ {b} : shown'[c] = shown[c]
      BY <3>2 DEF TellInv
    <3>. QED
      BY <3>1, <3>2, <3>3, <3>4, GoesOn
  <2>7. CASE SendPiece(b) \/ UploadDone(b) \/ UploadBreaks(b)
    BY <2>7, UploadTells
  <2>. QED
    BY <1>2, <2>1, <2>2, <2>3, <2>4, <2>5, <2>6, <2>7 DEF Browser
<1>3. ASSUME NEW b \in Browsers, User(b) PROVE TellInv'
  <2>1. CASE TryAgain(b)
    <3>1. /\ pc[b] = "idle" /\ pc' = [pc EXCEPT ![b] = "load"]
          /\ UNCHANGED <<shown, task, fate, restart, session>>
      BY <2>1 DEF TryAgain, GoTo, modem, request, otaVars
    <3>2. DOMAIN shown' = Browsers /\ (shown'[b] = "success" => Come(b))
      BY <3>1 DEF TellInv, Told
    <3>3. \A c \in Browsers \ {b} : shown'[c] = shown[c]
      BY <3>1
    <3> DEFINE q == "load"
    <3>4. /\ pc[b] \notin {"posted", "upload"} /\ q \notin {"posted", "await"}
          /\ q \notin {"info", "post", "upload"} /\ pc' = [pc EXCEPT ![b] = q]
      BY <3>1
    <3> HIDE DEF q
    <3>. QED
      BY <3>1, <3>2, <3>3, <3>4, GoesOn
  <2>2. CASE StartOther(b) \/ StartScript(b) \/ \E e \in DOMAIN Edits : StartSave(b, e)
    <3>1. Begin(b, "info") \/ Begin(b, "post")
      BY <2>2 DEF StartOther, StartScript, StartSave
    <3>. QED
      BY <3>1, BeginKeeps
  <2>. QED
    BY <1>3, <2>1, <2>2 DEF User
<1>4. CASE Write
  BY <1>4, WriteKeeps
<1>5. CASE Respond
  BY <1>5, RespondingKeeps
<1>6. CASE delayedRestart \/ loopRestart \/ Crash
  BY <1>6, RestartKeeps DEF delayedRestart, loopRestart, Crash
<1>7. CASE Tick \/ UNCHANGED vars
  BY <1>1, <1>7 DEF Tick, vars, modem, request, otaVars
<1>. QED
  BY <1>2, <1>3, <1>4, <1>5, <1>6, <1>7 DEF Next, WebTask

LEMMA TellAlways == Spec => []TellInv
<1>1. Init => TellInv
  BY DEF Init, OtaInit, TellInv, TaskOK, Told, At, Come, Succeeded, Free
<1>. QED
  BY <1>1, TellStep, PTL DEF Spec

\* Success is not reported on suspicion: who is told of it has got what he
\* wanted by a restart since, or will by the one that is due, or has lost it to
\* another upload before that (service.ts:126, firmware/service.ts:109).
THEOREM ToldTheTruth == Spec => []SuccessIsTrue
<1>1. TellInv => SuccessIsTrue
  BY DEF TellInv, Told, Come, SuccessIsTrue
<1>. QED
  BY <1>1, TellAlways, PTL

-----------------------------------------------------------------------------
(* Settings, in memory and in the file.                                    *)

\* The keys are those of Settings, and the mode has a name.
Shaped(s) ==
  /\ s = [revision |-> s.revision, general |-> s.general, web |-> s.web, wifi |-> s.wifi,
          bluetooth |-> s.bluetooth, mqtt |-> s.mqtt, prometheus |-> s.prometheus]
  /\ s.general = [name |-> s.general.name, encryption |-> s.general.encryption,
                  password |-> s.general.password]
  /\ s.web = [protected |-> s.web.protected, username |-> s.web.username,
              password |-> s.web.password]
  /\ s.wifi = [mode |-> s.wifi.mode, sta_ssid |-> s.wifi.sta_ssid, sta_psk |-> s.wifi.sta_psk,
               ap_ssid |-> s.wifi.ap_ssid, ap_psk |-> s.wifi.ap_psk]
  /\ s.wifi.mode \in 0 .. 2
  /\ s.bluetooth = [enabled |-> s.bluetooth.enabled, pin_enabled |-> s.bluetooth.pin_enabled,
                    pin |-> s.bluetooth.pin]
  /\ s.mqtt = [enabled |-> s.mqtt.enabled, prefix |-> s.mqtt.prefix, server |-> s.mqtt.server,
               username |-> s.mqtt.username, password |-> s.mqtt.password,
               publish_status |-> s.mqtt.publish_status, publish_format |-> s.mqtt.publish_format,
               publish_interval |-> s.mqtt.publish_interval, ha |-> s.mqtt.ha]
  /\ s.prometheus = [enabled |-> s.prometheus.enabled]

\* They leave a way in.
Usable(s) ==
  /\ s.web.protected => s.web.username # NoText /\ s.web.password # NoText
  /\ s.wifi.mode = 1 => staSettingsValid(s.wifi)
  /\ s.wifi.mode # 1 => s.wifi.ap_ssid # NoText /\ s.wifi.ap_psk # NoText
  /\ s.general.name # <<>>

\* What comes back from the file.
Kept(s) == [s EXCEPT !.mqtt.publish_format = FormatOfName(@)]

LEMMA ModesHaveNames ==
  /\ \A m \in 0 .. 2 : ModeOfName(ModeName[m]) = m
  /\ \A n : ModeOfName(n) \in 0 .. 2
<1>1. ModeName[0] = "off" /\ ModeName[1] = "sta" /\ ModeName[2] = "ap"
  BY DEF ModeName
<1>2. \A n : ModeOfName(n) = IF n = "sta" THEN 1 ELSE IF n = "ap" THEN 2 ELSE 0
  BY DEF ModeOfName
<1>. QED
  BY <1>1, <1>2

\* A secret that is there is taken, unless it is said not to be.
LEMMA SecretTaken ==
  ASSUME NEW g, NEW o, NEW k, k \in DOMAIN o, HasOf[k] \notin DOMAIN o
  PROVE  Secret(g, o, k) = o[k]
  BY DEF Secret, containsAndHas

LEMMA HasKeys ==
  /\ HasOf["password"] = "has_password" /\ HasOf["pin"] = "has_pin"
  /\ HasOf["sta_psk"] = "has_sta_psk" /\ HasOf["ap_psk"] = "has_ap_psk"
  BY DEF HasOf

LEMMA UnmarshalShaped ==
  ASSUME NEW s, NEW o, Shaped(s)
  PROVE  Shaped(Unmarshal(s, o))
<1>1. Unmarshal(s, o).wifi.mode \in 0 .. 2
  BY ModesHaveNames DEF Unmarshal, UnmarshalWiFi
<1>2. Unmarshal(s, o) =
        [revision |-> Unmarshal(s, o).revision, general |-> Unmarshal(s, o).general,
         web |-> Unmarshal(s, o).web, wifi |-> Unmarshal(s, o).wifi,
         bluetooth |-> Unmarshal(s, o).bluetooth, mqtt |-> Unmarshal(s, o).mqtt,
         prometheus |-> Unmarshal(s, o).prometheus]
  BY DEF Unmarshal
<1>3. /\ Unmarshal(s, o).general = UnmarshalGeneral(s.general, o.general)
      /\ Unmarshal(s, o).web = UnmarshalWeb(s.web, o.web)
      /\ Unmarshal(s, o).wifi = UnmarshalWiFi(s.wifi, o.wifi)
      /\ Unmarshal(s, o).bluetooth = UnmarshalBluetooth(s.bluetooth, o.bluetooth)
      /\ Unmarshal(s, o).mqtt = UnmarshalMqtt(s.mqtt, o.mqtt)
      /\ Unmarshal(s, o).prometheus = [enabled |-> o.prometheus.enabled]
  BY DEF Unmarshal
<1> DEFINE u == Unmarshal(s, o)
<1> HIDE DEF u
<1>4. u.general = [name |-> u.general.name, encryption |-> u.general.encryption,
                   password |-> u.general.password]
  BY <1>3 DEF u, UnmarshalGeneral
<1>5. u.web = [protected |-> u.web.protected, username |-> u.web.username,
               password |-> u.web.password]
  BY <1>3 DEF u, UnmarshalWeb
<1>6. u.wifi = [mode |-> u.wifi.mode, sta_ssid |-> u.wifi.sta_ssid, sta_psk |-> u.wifi.sta_psk,
                ap_ssid |-> u.wifi.ap_ssid, ap_psk |-> u.wifi.ap_psk]
  BY <1>3 DEF u, UnmarshalWiFi
<1>7. u.bluetooth = [enabled |-> u.bluetooth.enabled, pin_enabled |-> u.bluetooth.pin_enabled,
                     pin |-> u.bluetooth.pin]
  BY <1>3 DEF u, UnmarshalBluetooth
<1>8. u.mqtt = [enabled |-> u.mqtt.enabled, prefix |-> u.mqtt.prefix, server |-> u.mqtt.server,
                username |-> u.mqtt.username, password |-> u.mqtt.password,
                publish_status |-> u.mqtt.publish_status, publish_format |-> u.mqtt.publish_format,
                publish_interval |-> u.mqtt.publish_interval, ha |-> u.mqtt.ha]
  BY <1>3 DEF u, UnmarshalMqtt, Shaped
<1>9. u.prometheus = [enabled |-> u.prometheus.enabled]
  BY <1>3 DEF u
<1>. QED
  BY <1>1, <1>2, <1>4, <1>5, <1>6, <1>7, <1>8, <1>9 DEF Shaped, u

LEMMA DefaultsShaped == Shaped(Defaults)
<1> DEFINE d == Defaults
<1> DEFINE nine == Letters(9)
<1> DEFINE nowhere == Server(NoText, <<>>, -1)
<1>1. /\ d.general = [name |-> nine, encryption |-> TRUE, password |-> "123456"]
      /\ d.web = [protected |-> FALSE, username |-> NoText, password |-> NoText]
      /\ d.wifi = [mode |-> 0, sta_ssid |-> NoText, sta_psk |-> NoText,
                   ap_ssid |-> "ArduMower Modem", ap_psk |-> "ArduMower Modem"]
      /\ d.bluetooth = [enabled |-> TRUE, pin_enabled |-> FALSE, pin |-> "1234"]
      /\ d.mqtt = [enabled |-> FALSE, prefix |-> NoText, server |-> nowhere,
                   username |-> NoText, password |-> NoText, publish_status |-> TRUE,
                   publish_format |-> "0", publish_interval |-> 30, ha |-> FALSE]
      /\ d.prometheus = [enabled |-> FALSE]
  BY DEF Defaults
<1>2. d = [revision |-> d.revision, general |-> d.general, web |-> d.web, wifi |-> d.wifi,
           bluetooth |-> d.bluetooth, mqtt |-> d.mqtt, prometheus |-> d.prometheus]
  BY DEF Defaults
<1> HIDE DEF d, nine, nowhere
<1>3. /\ d.general = [name |-> d.general.name, encryption |-> d.general.encryption,
                      password |-> d.general.password]
      /\ d.web = [protected |-> d.web.protected, username |-> d.web.username,
                  password |-> d.web.password]
  BY <1>1
<1>4. /\ d.wifi = [mode |-> d.wifi.mode, sta_ssid |-> d.wifi.sta_ssid, sta_psk |-> d.wifi.sta_psk,
                   ap_ssid |-> d.wifi.ap_ssid, ap_psk |-> d.wifi.ap_psk]
      /\ d.wifi.mode \in 0 .. 2
  <2> DEFINE arduMower == "ArduMower Modem"
  <2>1. d.wifi = [mode |-> 0, sta_ssid |-> NoText, sta_psk |-> NoText,
                  ap_ssid |-> arduMower, ap_psk |-> arduMower]
    BY <1>1
  <2> HIDE DEF arduMower
  <2>. QED
    BY <2>1
<1>5. /\ d.bluetooth = [enabled |-> d.bluetooth.enabled, pin_enabled |-> d.bluetooth.pin_enabled,
                        pin |-> d.bluetooth.pin]
      /\ d.prometheus = [enabled |-> d.prometheus.enabled]
  BY <1>1
<1>6. d.mqtt = [enabled |-> d.mqtt.enabled, prefix |-> d.mqtt.prefix, server |-> d.mqtt.server,
                username |-> d.mqtt.username, password |-> d.mqtt.password,
                publish_status |-> d.mqtt.publish_status, publish_format |-> d.mqtt.publish_format,
                publish_interval |-> d.mqtt.publish_interval, ha |-> d.mqtt.ha]
  BY <1>1
<1>. QED
  BY <1>2, <1>3, <1>4, <1>5, <1>6 DEF Shaped, d

LEMMA DefaultsUsable == Usable(Defaults)
<1>1. Defaults.general.name # <<>>
  <2>1. Letters(9)[1] = "letter" /\ DOMAIN Letters(9) = 1 .. 9 /\ 1 \in 1 .. 9
    BY DEF Letters
  <2>2. Letters(9) # <<>>
    BY <2>1
  <2>. QED
    BY <2>2 DEF Defaults
<1>2. "ArduMower Modem" # NoText
  BY DEF NoText
<1>3. Defaults.wifi.ap_ssid = "ArduMower Modem" /\ Defaults.wifi.ap_psk = "ArduMower Modem"
  BY DEF Defaults
<1>5. Defaults.web.protected = FALSE
  BY DEF Defaults
<1>6. ~Defaults.web.protected
  BY <1>5
<1>7. Defaults.wifi.mode # 1
  <2>1. Defaults.wifi.mode = 0
    BY DEF Defaults
  <2>. QED
    BY <2>1
<1>4. Defaults.wifi.ap_ssid # NoText /\ Defaults.wifi.ap_psk # NoText
  BY <1>2, <1>3, Zenon
<1>. QED
  BY <1>1, <1>4, <1>6, <1>7, Zenon DEF Usable

LEMMA ValidUsable == \A s : Valid(s) => Usable(s)
  BY DEF Valid, ValidGeneral, validBluetoothAndDnsName, ValidWeb, ValidWiFi, Usable,
         staSettingsValid

LEMMA KeptAlike ==
  ASSUME NEW s, Shaped(s)
  PROVE  /\ Shaped(Kept(s))
         /\ Usable(s) => Usable(Kept(s))
<1> DEFINE k == Kept(s)
<1>1. /\ k.revision = s.revision /\ k.general = s.general /\ k.web = s.web /\ k.wifi = s.wifi
      /\ k.bluetooth = s.bluetooth /\ k.prometheus = s.prometheus
      /\ k.mqtt = [s.mqtt EXCEPT !.publish_format = FormatOfName(@)]
      /\ k = [revision |-> k.revision, general |-> k.general, web |-> k.web, wifi |-> k.wifi,
              bluetooth |-> k.bluetooth, mqtt |-> k.mqtt, prometheus |-> k.prometheus]
  BY DEF Shaped, Kept
<1> HIDE DEF k
<1>2. k.mqtt = [enabled |-> k.mqtt.enabled, prefix |-> k.mqtt.prefix, server |-> k.mqtt.server,
                username |-> k.mqtt.username, password |-> k.mqtt.password,
                publish_status |-> k.mqtt.publish_status, publish_format |-> k.mqtt.publish_format,
                publish_interval |-> k.mqtt.publish_interval, ha |-> k.mqtt.ha]
  BY <1>1 DEF Shaped
<1>3. Shaped(k)
  BY <1>1, <1>2 DEF Shaped
<1>4. Usable(s) => Usable(k)
  BY <1>1 DEF Usable
<1>. QED
  BY <1>3, <1>4 DEF k

\* What is saved is read again as it was, but for the publish format.
LEMMA RoundTrip ==
  ASSUME NEW s, NEW d, Shaped(s), Shaped(d)
  PROVE  /\ CanUnmarshal(Marshal(s))
         /\ Unmarshal(d, Marshal(s)) = Kept(s)
<1> DEFINE o == Marshal(s)
<1> DEFINE u == Unmarshal(d, o)
<1>1. /\ o.revision = s.revision /\ o.general = s.general /\ o.web = s.web
      /\ o.wifi = MarshalWiFi(s.wifi)
      /\ o.bluetooth = s.bluetooth /\ o.mqtt = s.mqtt /\ o.prometheus = s.prometheus
      /\ DOMAIN o = {"revision", "general", "web", "wifi", "bluetooth", "mqtt", "prometheus"}
  BY DEF Shaped, Marshal
<1> HIDE DEF o
<1>2. CanUnmarshal(o)
  <2>1. DOMAIN o.general = {"name", "encryption", "password"}
    BY <1>1 DEF Shaped
  <2>. QED
    BY <1>1, <2>1 DEF CanUnmarshal, Groups
<1>3. u.general = s.general
  <2>1. "password" \in DOMAIN o.general /\ "has_password" \notin DOMAIN o.general
    BY <1>1 DEF Shaped
  <2>2. Secret(d.general, o.general, "password") = s.general.password
    BY <1>1, <2>1, HasKeys, SecretTaken
  <2>. QED
    BY <1>1, <2>2 DEF u, Unmarshal, UnmarshalGeneral, Shaped
<1>4. u.web = s.web
  <2>1. "password" \in DOMAIN o.web /\ "has_password" \notin DOMAIN o.web
    BY <1>1 DEF Shaped
  <2>2. Secret(d.web, o.web, "password") = s.web.password
    BY <1>1, <2>1, HasKeys, SecretTaken
  <2>. QED
    BY <1>1, <2>2 DEF u, Unmarshal, UnmarshalWeb, Shaped
<1>5. u.wifi = s.wifi
  <2>1. /\ o.wifi = [mode |-> ModeName[s.wifi.mode], sta_ssid |-> s.wifi.sta_ssid,
                     sta_psk |-> s.wifi.sta_psk, ap_ssid |-> s.wifi.ap_ssid,
                     ap_psk |-> s.wifi.ap_psk]
    BY <1>1 DEF Shaped, MarshalWiFi
  <2>2. /\ "sta_psk" \in DOMAIN o.wifi /\ "has_sta_psk" \notin DOMAIN o.wifi
        /\ "ap_psk" \in DOMAIN o.wifi /\ "has_ap_psk" \notin DOMAIN o.wifi
    BY <2>1
  <2>3. /\ Secret(d.wifi, o.wifi, "sta_psk") = s.wifi.sta_psk
        /\ Secret(d.wifi, o.wifi, "ap_psk") = s.wifi.ap_psk
    BY <2>1, <2>2, HasKeys, SecretTaken
  <2>4. ModeOfName(o.wifi.mode) = s.wifi.mode
    BY <2>1, ModesHaveNames DEF Shaped
  <2>. QED
    BY <2>1, <2>3, <2>4 DEF u, Unmarshal, UnmarshalWiFi, Shaped
<1>6. u.bluetooth = s.bluetooth
  <2>1. "pin" \in DOMAIN o.bluetooth /\ "has_pin" \notin DOMAIN o.bluetooth
    BY <1>1 DEF Shaped
  <2>2. Secret(d.bluetooth, o.bluetooth, "pin") = s.bluetooth.pin
    BY <1>1, <2>1, HasKeys, SecretTaken
  <2>. QED
    BY <1>1, <2>2 DEF u, Unmarshal, UnmarshalBluetooth, Shaped
<1>7. u.mqtt = Kept(s).mqtt
  <2>1. "password" \in DOMAIN o.mqtt /\ "has_password" \notin DOMAIN o.mqtt
    BY <1>1 DEF Shaped
  <2>2. Secret(d.mqtt, o.mqtt, "password") = s.mqtt.password
    BY <1>1, <2>1, HasKeys, SecretTaken
  <2>3. Kept(s).mqtt = [s.mqtt EXCEPT !.publish_format = FormatOfName(@)]
    BY DEF Kept, Shaped
  <2>4. u.mqtt = UnmarshalMqtt(d.mqtt, s.mqtt)
    BY <1>1 DEF u, Unmarshal
  <2> DEFINE m == s.mqtt
  <2> DEFINE f == FormatOfName(m.publish_format)
  <2>5. UnmarshalMqtt(d.mqtt, m) =
          [enabled |-> m.enabled, prefix |-> m.prefix, server |-> m.server,
           username |-> m.username, password |-> Secret(d.mqtt, m, "password"),
           publish_status |-> m.publish_status, publish_format |-> f,
           publish_interval |-> m.publish_interval, ha |-> m.ha]
    <3> DEFINE p == Secret(d.mqtt, m, "password")
    <3> DEFINE x == d.mqtt
    <3>1. UnmarshalMqtt(x, m) =
            [x EXCEPT !.enabled = m.enabled, !.prefix = m.prefix, !.server = m.server,
                      !.username = m.username, !.password = p,
                      !.publish_status = m.publish_status, !.publish_format = f,
                      !.publish_interval = m.publish_interval, !.ha = m.ha]
      BY DEF UnmarshalMqtt
    <3>2. x = [enabled |-> x.enabled, prefix |-> x.prefix, server |-> x.server,
               username |-> x.username, password |-> x.password,
               publish_status |-> x.publish_status, publish_format |-> x.publish_format,
               publish_interval |-> x.publish_interval, ha |-> x.ha]
      BY DEF Shaped
    <3> HIDE DEF m, f, p, x
    <3>3. UnmarshalMqtt(x, m) =
            [enabled |-> m.enabled, prefix |-> m.prefix, server |-> m.server,
             username |-> m.username, password |-> p,
             publish_status |-> m.publish_status, publish_format |-> f,
             publish_interval |-> m.publish_interval, ha |-> m.ha]
      BY <3>1, <3>2
    <3>. QED
      BY <3>3 DEF p, x
  <2>6. m = [enabled |-> m.enabled, prefix |-> m.prefix, server |-> m.server,
             username |-> m.username, password |-> m.password,
             publish_status |-> m.publish_status, publish_format |-> m.publish_format,
             publish_interval |-> m.publish_interval, ha |-> m.ha]
    BY DEF Shaped
  <2>7. Secret(d.mqtt, m, "password") = m.password
    BY <1>1, <2>2
  <2> HIDE DEF m, f
  <2>8. [m EXCEPT !.publish_format = f] =
          [enabled |-> m.enabled, prefix |-> m.prefix, server |-> m.server,
           username |-> m.username, password |-> m.password,
           publish_status |-> m.publish_status, publish_format |-> f,
           publish_interval |-> m.publish_interval, ha |-> m.ha]
    BY <2>6
  <2>9. UnmarshalMqtt(d.mqtt, m) = [m EXCEPT !.publish_format = f]
    BY <2>5, <2>7, <2>8
  <2>. QED
    BY <2>3, <2>4, <2>9 DEF m, f
<1>8. u.revision = s.revision /\ u.prometheus = s.prometheus
  BY <1>1 DEF u, Unmarshal, Shaped
<1>9. Shaped(u) /\ Shaped(Kept(s))
  BY UnmarshalShaped, KeptAlike DEF u
<1>10. /\ Kept(s).revision = s.revision /\ Kept(s).general = s.general /\ Kept(s).web = s.web
       /\ Kept(s).wifi = s.wifi /\ Kept(s).bluetooth = s.bluetooth
       /\ Kept(s).prometheus = s.prometheus
  BY DEF Kept, Shaped
<1>11. u = Kept(s)
  <2> HIDE DEF u
  <2>. QED
    BY <1>3, <1>4, <1>5, <1>6, <1>7, <1>8, <1>9, <1>10 DEF Shaped
<1>. QED
  BY <1>2, <1>11 DEF o, u

\* Between the opening of the file and its end the file holds nothing; at any
\* other time it holds what was saved last.
SetInv ==
  /\ settings = atBoot
  /\ Shaped(settings) /\ Usable(settings)
  /\ Shaped(last) /\ Usable(last)
  /\ ~Interrupted => Loaded = last
  /\ Interrupted => file = <<>> /\ Shaped(task[1].new) /\ Usable(task[1].new)

LEMMA SaveKeeps ==
  ASSUME SetInv, NEW b, NEW new, Save(b, new), Shaped(new), Usable(new),
         UNCHANGED <<settings, last, atBoot>>
  PROVE  SetInv'
<1>1. task' = Handler(b, "write", new) /\ file' = <<>>
  BY DEF Save, Handler
<1>2. ~Free' /\ task'[1].step = "write" /\ task'[1].new = new
  BY <1>1, HandlerIs DEF Free
<1>3. Interrupted'
  BY <1>2 DEF Interrupted
<1>. QED
  BY <1>1, <1>2, <1>3 DEF SetInv

LEMMA SavedIsKept ==
  ASSUME SetInv, TaskOK, Write
  PROVE  SetInv'
<1>1. PICK b, step, new : b \in Browsers /\ task = Handler(b, step, new)
  BY DEF TaskOK, Write, Handles
<1>2. ~Free /\ step = "write" /\ task[1].step = "write" /\ task[1].new = new
  BY <1>1, HandlerIs DEF Write, Free
<1>3. Shaped(new) /\ Usable(new)
  BY <1>2 DEF SetInv, Interrupted
<1>4. file' = <<Marshal(new)>> /\ last' = Kept(new) /\ UNCHANGED <<settings, atBoot>>
  BY <1>2 DEF Write, Kept
<1>5. task' = Handler(b, "respond", new)
  BY <1>1, <1>2, HandlerIs DEF Write
<1>6. ~Interrupted'
  BY <1>5, HandlerIs DEF Interrupted
<1>7. Loaded' = Kept(new)
  <2>1. CanUnmarshal(Marshal(new)) /\ Unmarshal(Defaults, Marshal(new)) = Kept(new)
    BY <1>3, RoundTrip, DefaultsShaped
  <2>2. file' # <<>> /\ file'[1] = Marshal(new)
    BY <1>4
  <2>. QED
    BY <2>1, <2>2 DEF Loaded
<1>8. Shaped(Kept(new)) /\ Usable(Kept(new))
  BY <1>3, KeptAlike
<1>. QED
  BY <1>4, <1>6, <1>7, <1>8 DEF SetInv

LEMMA RestartLoads ==
  ASSUME SetInv, Boot
  PROVE  SetInv'
<1>1. /\ settings' = Loaded /\ task' = <<>> /\ file' = file
      /\ atBoot' = (IF Interrupted THEN Defaults ELSE last) /\ last' = atBoot'
  BY DEF Boot
<1>2. Loaded = IF Interrupted THEN Defaults ELSE last
  BY DEF SetInv, Loaded
<1>3. Loaded' = Loaded
  BY <1>1 DEF Loaded
<1>4. ~Interrupted'
  BY <1>1 DEF Interrupted, Free
<1>5. Shaped(Loaded) /\ Usable(Loaded)
  BY <1>2, DefaultsShaped, DefaultsUsable DEF SetInv
<1>. QED
  BY <1>1, <1>2, <1>3, <1>4, <1>5 DEF SetInv

\* The web task goes on, and nothing is written.
LEMMA NothingSaved ==
  ASSUME SetInv, ~Interrupted, ~Interrupted', UNCHANGED <<settings, file, last, atBoot>>
  PROVE  SetInv'
<1>1. Loaded' = Loaded
  BY DEF Loaded
<1>. QED
  BY <1>1 DEF SetInv

LEMMA SetStep == SetInv /\ TellInv /\ [Next]_vars => SetInv'
<1> SUFFICES ASSUME SetInv, TaskOK, [Next]_vars PROVE SetInv'
  BY DEF TellInv
<1>1. CASE UNCHANGED modem
  <2>1. Loaded' = Loaded /\ Interrupted' = Interrupted
    BY <1>1 DEF modem, Loaded, Interrupted, Free
  <2>. QED
    BY <1>1, <2>1 DEF modem, SetInv
<1>2. ASSUME NEW b \in Browsers, Browser(b) PROVE SetInv'
  <2>1. CASE PostSettings(b)
    <3>1. PICK doc : Acceptable(doc) /\ Save(b, Unmarshal(settings, doc))
      BY <2>1 DEF PostSettings
    <3>2. Shaped(Unmarshal(settings, doc))
      BY UnmarshalShaped DEF SetInv
    <3>3. Usable(Unmarshal(settings, doc))
      BY <3>1, ValidUsable DEF Acceptable
    <3>. QED
      BY <2>1, <3>1, <3>2, <3>3, SaveKeeps DEF PostSettings
  <2>2. CASE PostReset(b)
    BY <2>2, SaveKeeps, DefaultsShaped, DefaultsUsable DEF PostReset
  <2>3. CASE PostPairings(b)
    <3>1. task' = Handler(b, "respond", settings) /\ Free
      BY <2>3 DEF PostPairings, Handler
    <3>2. ~Interrupted /\ ~Interrupted'
      BY <3>1, HandlerIs DEF Interrupted
    <3>. QED
      BY <2>3, <3>2, NothingSaved DEF PostPairings
  <2>4. CASE Load(b) \/ LoadFails(b) \/ Info(b) \/ RequestFails(b)
    BY <1>1, <2>4 DEF Load, LoadFails, Info, RequestFails
  <2>5. CASE PostRejected(b) \/ PostFails(b) \/ SeesReboot(b) \/ GivesUp(b)
    BY <1>1, <2>5 DEF PostRejected, PostFails, SeesReboot, GivesUp
  <2>6. CASE SendPiece(b) \/ UploadDone(b) \/ UploadBreaks(b)
    BY <1>1, <2>6 DEF SendPiece, UploadDone, UploadBreaks
  <2>. QED
    BY <1>2, <2>1, <2>2, <2>3, <2>4, <2>5, <2>6 DEF Browser
<1>3. ASSUME NEW b \in Browsers, User(b) PROVE SetInv'
  BY <1>1, <1>3 DEF User, TryAgain, StartOther, StartScript, StartSave, Begin
<1>4. CASE Write
  BY <1>4, SavedIsKept
<1>5. CASE Respond
  <2>1. PICK b, step, new : b \in Browsers /\ task = Handler(b, step, new)
    BY <1>5 DEF TaskOK, Respond, Handles
  <2>2. task[1].step = "respond" /\ task' = Handler(b, "restart", new)
    BY <1>5, <2>1, HandlerIs DEF Respond
  <2>3. ~Interrupted /\ ~Interrupted'
    BY <2>2, HandlerIs DEF Interrupted
  <2>. QED
    BY <1>5, <2>3, NothingSaved DEF Respond
<1>6. CASE delayedRestart \/ loopRestart \/ Crash
  BY <1>6, RestartLoads DEF delayedRestart, loopRestart, Crash
<1>7. CASE Tick \/ UNCHANGED vars
  BY <1>1, <1>7 DEF Tick, vars
<1>. QED
  BY <1>2, <1>3, <1>4, <1>5, <1>6, <1>7 DEF Next, WebTask

LEMMA SetAlways == Spec => []SetInv
<1>1. Init => SetInv
  <2>1. ASSUME Init PROVE Loaded = Defaults /\ ~Interrupted
    BY <2>1 DEF Init, Loaded, Interrupted, Free
  <2>. QED
    BY <2>1, DefaultsShaped, DefaultsUsable DEF Init, SetInv
<1>. QED
  BY <1>1, SetStep, TellAlways, PTL DEF Spec

\* The modem runs what was saved last before it started, or the defaults if
\* that start fell into the saving: whatever documents were posted, whoever
\* restarted it and whenever the power failed (settings.cpp:66-131).
THEOREM SettingsSurviveRestarts == Spec => []SettingsSurvive
<1>1. SetInv => SettingsSurvive
  BY DEF SetInv, SettingsSurvive
<1>. QED
  BY <1>1, SetAlways, PTL

\* No document, and no loss of the file, leaves settings nobody gets in with
\* (ui_adapter.cpp:139, http_common.cpp:12, wifi_adapter.cpp:157).
THEOREM WayInStays == Spec => []SettingsUsable
<1>1. SetInv => SettingsUsable
  BY DEF SetInv, Usable, SettingsUsable
<1>. QED
  BY <1>1, SetAlways, PTL

-----------------------------------------------------------------------------
(* Secrets.                                                                *)

Secrets(g) == DOMAIN Defaults[g] \intersect SecretKeys

LEMMA SecretKeysAre ==
  /\ SecretKeys = {"password", "pin", "sta_psk", "ap_psk"}
  /\ \A j, k \in SecretKeys : HasOf[j] = HasOf[k] => j = k
  /\ \A j, k \in SecretKeys : HasOf[j] # k
<1>1. SecretKeys = {"password", "pin", "sta_psk", "ap_psk"}
  BY DEF SecretKeys, HasOf
<1>. QED
  BY <1>1, HasKeys

LEMMA SecretsAre ==
  /\ Secrets("general") = {"password"} /\ Secrets("web") = {"password"}
  /\ Secrets("wifi") = {"sta_psk", "ap_psk"} /\ Secrets("bluetooth") = {"pin"}
  /\ Secrets("mqtt") = {"password"} /\ Secrets("prometheus") = {}
<1> DEFINE d == Defaults
<1>1. /\ DOMAIN d.general = {"name", "encryption", "password"}
      /\ DOMAIN d.web = {"protected", "username", "password"}
      /\ DOMAIN d.wifi = {"mode", "sta_ssid", "sta_psk", "ap_ssid", "ap_psk"}
      /\ DOMAIN d.bluetooth = {"enabled", "pin_enabled", "pin"}
      /\ DOMAIN d.mqtt = {"enabled", "prefix", "server", "username", "password",
                          "publish_status", "publish_format", "publish_interval", "ha"}
      /\ DOMAIN d.prometheus = {"enabled"}
  <2>1. Shaped(d)
    BY DefaultsShaped
  <2> HIDE DEF d
  <2>. QED
    BY <2>1 DEF Shaped
<1> HIDE DEF d
<1>2. \A g : Secrets(g) = DOMAIN d[g] \intersect {"password", "pin", "sta_psk", "ap_psk"}
  BY SecretKeysAre DEF Secrets, d
<1>. QED
  BY <1>1, <1>2

\* what the page shows of a group
LEMMA Shown ==
  ASSUME NEW g, NEW k \in SecretKeys, k \in DOMAIN g
  PROVE  LET t == fillSecret(stripSecret(g)) IN
         k \in DOMAIN t /\ HasOf[k] \in DOMAIN t /\ t[k] \in {NoText, secretFiller}
<1> DEFINE h == stripSecret(g)
<1> DEFINE t == fillSecret(h)
<1>1. HasOf[k] \in DOMAIN h
  BY DEF stripSecret
<1> HIDE DEF h
<1>2. k \in DOMAIN t /\ HasOf[k] \in DOMAIN t /\ t[k] = IF h[HasOf[k]] THEN secretFiller ELSE NoText
  BY <1>1 DEF fillSecret
<1>3. t[k] \in {NoText, secretFiller}
  BY <1>2, Zenon
<1>. QED
  BY <1>2, <1>3 DEF t, h

LEMMA OnEachGroup ==
  ASSUME NEW o, Groups \subseteq DOMAIN o
  PROVE  LET t == fillSecrets(stripSecrets(o)) IN
         /\ DOMAIN t = DOMAIN o
         /\ \A g \in Groups : t[g] = fillSecret(stripSecret(o[g]))
  BY DEF fillSecrets, stripSecrets, OnGroups

\* what the modem takes from what the page sends
LEMMA TakenFromPage ==
  ASSUME NEW s, NEW f, NEW o, NEW k \in SecretKeys, k \in DOMAIN f, HasOf[k] \in DOMAIN f
  PROVE  Secret(s, stripFiller(f, o), k) = IF f[k] # o[k] THEN f[k] ELSE s[k]
<1> DEFINE t == stripFiller(f, o)
<1>1. DOMAIN t = DOMAIN f
  BY DEF stripFiller
<1>2. t[k] = f[k]
  <2>1. ~ \E j \in SecretKeys \intersect DOMAIN f : k = HasOf[j]
    BY SecretKeysAre
  <2>. QED
    BY <2>1 DEF stripFiller
<1>3. t[HasOf[k]] <=> f[k] # o[k]
  <2>1. \E j \in SecretKeys \intersect DOMAIN f : HasOf[k] = HasOf[j]
    OBVIOUS
  <2>2. (CHOOSE j \in SecretKeys : HasOf[k] = HasOf[j]) = k
    BY SecretKeysAre
  <2>3. t[HasOf[k]] = (f[k] # o[k])
    BY <2>1, <2>2, Zenon DEF stripFiller
  <2>. QED
    BY <2>3
<1> HIDE DEF t
<1>4. containsAndHas(t, k) <=> f[k] # o[k]
  BY <1>1, <1>3, Zenon DEF containsAndHas
<1>. QED
  BY <1>2, <1>4, Zenon DEF Secret, t

\* Settings hold as secrets their defaults and what users have typed.
Known(s) ==
  \A g \in Groups : \A k \in Secrets(g) : s[g][k] \in {Defaults[g][k]} \union Typed(g, k)

\* The page of a browser, edited, and as it was loaded.
Paged(f, o) ==
  /\ Groups \subseteq DOMAIN f
  /\ \A g \in Groups : \A k \in Secrets(g) :
       /\ k \in DOMAIN f[g] /\ HasOf[k] \in DOMAIN f[g]
       /\ o[g][k] \in {NoText, secretFiller}
       /\ f[g][k] \in {o[g][k]} \union Typed(g, k)

SecretInv ==
  /\ Known(settings) /\ Known(last)
  /\ Interrupted => Known(task[1].new)
  /\ DOMAIN original = Browsers /\ DOMAIN front = Browsers
  /\ \A b \in Browsers : original[b] # <<>> =>
       1 \in DOMAIN front[b] /\ Paged(front[b][1], original[b][1])

LEMMA PageShown ==
  ASSUME NEW s, Shaped(s)
  PROVE  LET t == fillSecrets(stripSecrets(Marshal(s))) IN Paged(t, t)
<1> DEFINE m == Marshal(s)
<1> DEFINE t == fillSecrets(stripSecrets(m))
<1>1. /\ m.general = s.general /\ m.web = s.web /\ m.wifi = MarshalWiFi(s.wifi)
      /\ m.bluetooth = s.bluetooth /\ m.mqtt = s.mqtt
      /\ Groups \subseteq DOMAIN m
  BY DEF Shaped, Marshal, Groups
<1>2. \A k \in Secrets("wifi") : k \in DOMAIN MarshalWiFi(s.wifi)
  BY SecretsAre DEF Shaped, MarshalWiFi
<1>3. ASSUME NEW g \in Groups, NEW k \in Secrets(g) PROVE k \in DOMAIN m[g]
  <2> HIDE DEF m
  <2>1. \A j \in Secrets("general") : j \in DOMAIN s.general
    BY SecretsAre DEF Shaped
  <2>2. \A j \in Secrets("web") : j \in DOMAIN s.web
    BY SecretsAre DEF Shaped
  <2>3. \A j \in Secrets("bluetooth") : j \in DOMAIN s.bluetooth
    BY SecretsAre DEF Shaped
  <2>4. \A j \in Secrets("mqtt") : j \in DOMAIN s.mqtt
    BY SecretsAre DEF Shaped
  <2>. QED
    BY <1>1, <1>2, <2>1, <2>2, <2>3, <2>4, SecretsAre DEF Groups
<1> HIDE DEF m
<1>4. /\ Groups \subseteq DOMAIN t
      /\ \A g \in Groups : t[g] = fillSecret(stripSecret(m[g]))
  BY <1>1, OnEachGroup
<1>5. ASSUME NEW g \in Groups, NEW k \in Secrets(g)
      PROVE  k \in DOMAIN t[g] /\ HasOf[k] \in DOMAIN t[g] /\ t[g][k] \in {NoText, secretFiller}
  <2>1. k \in SecretKeys /\ k \in DOMAIN m[g]
    BY <1>3 DEF Secrets
  <2>. QED
    BY <1>4, <2>1, Shown
<1> HIDE DEF t
<1>6. Paged(t, t)
  BY <1>4, <1>5 DEF Paged
<1>. QED
  BY <1>6 DEF t, m

\* Whatever is edited is typed.
LEMMA PageEdited ==
  ASSUME NEW f, NEW o, Paged(f, o), NEW e \in DOMAIN Edits
  PROVE  Paged([f EXCEPT ![Edits[e].group] = Edited(@, Edits[e].values)], o)
<1> DEFINE h == [f EXCEPT ![Edits[e].group] = Edited(@, Edits[e].values)]
<1>1. Groups \subseteq DOMAIN h
  BY DEF Paged
<1>2. ASSUME NEW g \in Groups, NEW k \in Secrets(g)
      PROVE  /\ k \in DOMAIN h[g] /\ HasOf[k] \in DOMAIN h[g]
             /\ h[g][k] \in {o[g][k]} \union Typed(g, k)
  <2>1. /\ g \in DOMAIN f /\ k \in DOMAIN f[g] /\ HasOf[k] \in DOMAIN f[g]
        /\ f[g][k] \in {o[g][k]} \union Typed(g, k)
    BY <1>2 DEF Paged
  <2>2. CASE Edits[e].group # g
    <3>1. h[g] = f[g]
      BY <2>1, <2>2
    <3>. QED
      BY <2>1, <3>1
  <2>3. CASE Edits[e].group = g
    <3>1. h[g] = Edited(f[g], Edits[e].values)
      BY <2>1, <2>3
    <3>2. /\ DOMAIN h[g] = DOMAIN f[g]
          /\ h[g][k] = IF k \in DOMAIN Edits[e].values THEN Edits[e].values[k] ELSE f[g][k]
      BY <2>1, <3>1 DEF Edited
    <3>3. k \in DOMAIN Edits[e].values => Edits[e].values[k] \in Typed(g, k)
      BY <2>3 DEF Typed, Sets
    <3>. QED
      BY <2>1, <3>2, <3>3
  <2>. QED
    BY <2>2, <2>3
<1> HIDE DEF h
<1>3. Paged(h, o)
  BY <1>1, <1>2 DEF Paged
<1>. QED
  BY <1>3 DEF h

LEMMA UnmarshalKnown ==
  ASSUME NEW s, NEW o, Known(s), Shaped(s),
         \A g \in Groups : \A k \in Secrets(g) :
           Secret(s[g], o[g], k) \in {s[g][k]} \union Typed(g, k)
  PROVE  Known(Unmarshal(s, o))
<1> DEFINE u == Unmarshal(s, o)
<1>1. ASSUME NEW g \in Groups, NEW k \in Secrets(g) PROVE u[g][k] = Secret(s[g], o[g], k)
  <2>1. /\ u.general = UnmarshalGeneral(s.general, o.general)
        /\ u.web = UnmarshalWeb(s.web, o.web)
        /\ u.wifi = UnmarshalWiFi(s.wifi, o.wifi)
        /\ u.bluetooth = UnmarshalBluetooth(s.bluetooth, o.bluetooth)
        /\ u.mqtt = UnmarshalMqtt(s.mqtt, o.mqtt)
    BY DEF Unmarshal
  <2> HIDE DEF u
  <2>2. u.general.password = Secret(s.general, o.general, "password")
    BY <2>1 DEF UnmarshalGeneral
  <2>3. u.web.password = Secret(s.web, o.web, "password")
    BY <2>1 DEF UnmarshalWeb
  <2>4. /\ u.wifi.sta_psk = Secret(s.wifi, o.wifi, "sta_psk")
        /\ u.wifi.ap_psk = Secret(s.wifi, o.wifi, "ap_psk")
    BY <2>1 DEF UnmarshalWiFi
  <2>5. u.bluetooth.pin = Secret(s.bluetooth, o.bluetooth, "pin")
    BY <2>1 DEF UnmarshalBluetooth
  <2>6. u.mqtt.password = Secret(s.mqtt, o.mqtt, "password")
    BY <2>1 DEF UnmarshalMqtt, Shaped
  <2>. QED
    BY <2>2, <2>3, <2>4, <2>5, <2>6, SecretsAre DEF Groups
<1> HIDE DEF u
<1>2. Known(u)
  BY <1>1 DEF Known
<1>. QED
  BY <1>2 DEF u

LEMMA KeptKnown ==
  ASSUME NEW s, Shaped(s), Known(s)
  PROVE  Known(Kept(s))
<1> DEFINE k == Kept(s)
<1>1. /\ k.general = s.general /\ k.web = s.web /\ k.wifi = s.wifi
      /\ k.bluetooth = s.bluetooth /\ k.prometheus = s.prometheus
      /\ k.mqtt.password = s.mqtt.password
  BY DEF Shaped, Kept
<1> HIDE DEF k
<1>2. ASSUME NEW g \in Groups, NEW j \in Secrets(g) PROVE k[g][j] = s[g][j]
  BY <1>1, <1>2, SecretsAre DEF Groups
<1>3. Known(k)
  BY <1>2 DEF Known
<1>. QED
  BY <1>3 DEF k

LEMMA UploadKnown ==
  ASSUME SetInv, SecretInv, NEW b \in Browsers, NEW doc \in Uploaded(b), Acceptable(doc),
         Job(b) = "save" => original[b] # <<>>
  PROVE  Known(Unmarshal(settings, doc))
<1> DEFINE f == front[b][1]
<1> DEFINE o == original[b][1]
<1>1. ASSUME NEW g \in Groups, NEW k \in Secrets(g)
      PROVE  Secret(settings[g], doc[g], k) \in {settings[g][k]} \union Typed(g, k)
  <2>1. k \in SecretKeys
    BY DEF Secrets
  <2>2. CASE Job(b) = "save"
    <3>1. /\ Groups \subseteq DOMAIN f /\ k \in DOMAIN f[g] /\ HasOf[k] \in DOMAIN f[g]
          /\ f[g][k] \in {o[g][k]} \union Typed(g, k)
      BY <2>2 DEF SecretInv, Paged
    <3>2. doc[g] = stripFiller(f[g], o[g])
      <4>1. doc = Saved(b)
        BY <2>2 DEF Uploaded
      <4>2. stripFillers(f, o)[g] = stripFiller(f[g], o[g])
        BY <3>1 DEF stripFillers
      <4>3. g # "revision"
        BY DEF Groups
      <4>4. g \in DOMAIN stripFillers(f, o)
        BY <3>1 DEF stripFillers
      <4>5. doc[g] = stripFillers(f, o)[g]
        BY <4>1, <4>3, <4>4 DEF Saved, f, o
      <4>. QED
        BY <4>2, <4>5
    <3> HIDE DEF f, o
    <3>3. Secret(settings[g], doc[g], k) = IF f[g][k] # o[g][k] THEN f[g][k] ELSE settings[g][k]
      BY <2>1, <3>1, <3>2, TakenFromPage
    <3>. QED
      BY <3>1, <3>3
  <2>3. CASE doc \in Documents
    <3>1. g \in DOMAIN doc
      BY DEF Acceptable, CanUnmarshal
    <3>2. k \in DOMAIN doc[g] => doc[g][k] \in Typed(g, k)
      BY <2>3, <3>1 DEF Typed
    <3>3. \/ Secret(settings[g], doc[g], k) = settings[g][k]
          \/ k \in DOMAIN doc[g] /\ Secret(settings[g], doc[g], k) = doc[g][k]
      BY Zenon DEF Secret, containsAndHas
    <3>. QED
      BY <3>2, <3>3
  <2>. QED
    BY <2>2, <2>3 DEF Uploaded
<1>. QED
  BY <1>1, UnmarshalKnown DEF SetInv, SecretInv

LEMMA DefaultsKnown == Known(Defaults)
  BY DEF Known

\* The pages stay as they are.
LEMMA PagesStay ==
  ASSUME SecretInv, UNCHANGED <<original, front>>, Known(settings)', Known(last)',
         Interrupted' => Known(task'[1].new)
  PROVE  SecretInv'
  BY DEF SecretInv

-----------------------------------------------------------------------------
(* What browsers are at.                                                   *)

\* A browser that is at work has a job, and saves only what it has loaded.
AtWork(b) == pc[b] \notin {"load", "idle"}

BusyInv ==
  /\ pc \in [Browsers -> Pcs] /\ jobs \in [Browsers -> Seq(Jobs)]
  /\ DOMAIN original = Browsers
  /\ \A b \in Browsers :
       /\ AtWork(b) => jobs[b] # <<>>
       /\ pc[b] \in {"info", "post"} /\ Job(b) = "save" => original[b] # <<>>

\* Pages are not unloaded.
Loads == DOMAIN original' = Browsers /\ \A b \in Browsers : original[b] # <<>> => original'[b] # <<>>

LEMMA GoingKeepsJobs ==
  ASSUME BusyInv, NEW b \in Browsers, NEW from, NEW to \in Pcs, GoTo(b, from, to), UNCHANGED jobs, Loads,
         to \notin {"load", "idle"} => jobs[b] # <<>>,
         to \in {"info", "post"} /\ Job(b) = "save" => original[b] # <<>>
  PROVE  BusyInv'
<1>1. /\ pc' \in [Browsers -> Pcs] /\ pc'[b] = to
      /\ \A c \in Browsers \ {b} : pc'[c] = pc[c]
  BY DEF GoTo, BusyInv
<1>2. \A c : Job(c)' = Job(c)
  BY DEF Job
<1>. QED
  BY <1>1, <1>2 DEF BusyInv, AtWork, Loads

LEMMA EndingKeepsJobs ==
  ASSUME BusyInv, NEW b \in Browsers, NEW told, Ends(b, told), AtWork(b), Loads
  PROVE  BusyInv'
<1>1. /\ pc' \in [Browsers -> Pcs] /\ pc'[b] = "idle"
      /\ \A c \in Browsers \ {b} : pc'[c] = pc[c]
  BY DEF Ends, BusyInv, Pcs
<1>2. jobs[b] \in Seq(Jobs) /\ jobs[b] # <<>>
  BY DEF BusyInv
<1>3. Tail(jobs[b]) \in Seq(Jobs)
  BY <1>2
<1>4. /\ jobs' \in [Browsers -> Seq(Jobs)]
      /\ \A c \in Browsers \ {b} : jobs'[c] = jobs[c]
  BY <1>3 DEF Ends, BusyInv
<1>5. \A c \in Browsers \ {b} : Job(c)' = Job(c)
  BY <1>4 DEF Job
<1>. QED
  BY <1>1, <1>4, <1>5 DEF BusyInv, AtWork, Loads

LEMMA BootKeepsJobs ==
  ASSUME BusyInv, Boot
  PROVE  BusyInv'
<1>1. UNCHANGED original
  BY DEF Boot, page
<1>2. ASSUME NEW b \in Browsers
      PROVE  /\ pc'[b] \in Pcs /\ jobs'[b] \in Seq(Jobs)
             /\ AtWork(b)' => jobs'[b] # <<>>
             /\ pc'[b] \in {"info", "post"} /\ Job(b)' = "save" => original'[b] # <<>>
  <2>1. /\ pc'[b] = IF Hanging(b) THEN "idle" ELSE pc[b]
        /\ jobs'[b] = IF Hanging(b) THEN Tail(jobs[b]) ELSE jobs[b]
    BY DEF Boot
  <2>2. pc[b] \in Pcs /\ jobs[b] \in Seq(Jobs)
    BY DEF BusyInv
  <2>3. CASE Hanging(b)
    <3>1. jobs[b] # <<>>
      BY <2>3 DEF BusyInv, AtWork, Hanging
    <3>2. Tail(jobs[b]) \in Seq(Jobs)
      BY <2>2, <3>1
    <3>. QED
      BY <2>1, <2>3, <3>2 DEF Pcs, AtWork
  <2>4. CASE ~Hanging(b)
    <3>1. Job(b)' = Job(b)
      BY <2>1, <2>4 DEF Job
    <3>. QED
      BY <1>1, <2>1, <2>2, <2>4, <3>1 DEF BusyInv, AtWork
  <2>. QED
    BY <2>3, <2>4
<1>3. DOMAIN pc' = Browsers /\ DOMAIN jobs' = Browsers
  BY DEF Boot
<1>4. pc' \in [Browsers -> Pcs] /\ jobs' \in [Browsers -> Seq(Jobs)]
  <2>1. pc' = [b \in Browsers |-> pc'[b]] /\ jobs' = [b \in Browsers |-> jobs'[b]]
    BY DEF Boot
  <2>. QED
    BY <1>2, <2>1
<1>. QED
  BY <1>1, <1>2, <1>4 DEF BusyInv

LEMMA BusyStep == BusyInv /\ TellInv /\ [Next]_vars => BusyInv'
<1> SUFFICES ASSUME BusyInv, TellInv, [Next]_vars PROVE BusyInv'
  OBVIOUS
<1>1. CASE UNCHANGED <<pc, jobs, original>>
  BY <1>1 DEF BusyInv, AtWork, Job
<1>2. UNCHANGED original => Loads
  BY DEF Loads, BusyInv
<1>3. \A b \in Browsers : /\ AtWork(b) => jobs[b] # <<>>
                          /\ Job(b) # "none" => jobs[b] # <<>>
  BY DEF BusyInv, Job
<1>4. ASSUME NEW b \in Browsers, Browser(b) PROVE BusyInv'
  <2>1. CASE Load(b) \/ LoadFails(b)
    <3>1. Loads
      <4>1. CASE Load(b)
        <5>1. PICK doc : original' = [original EXCEPT ![b] = <<doc>>]
          BY <4>1 DEF Load
        <5>. QED
          BY <5>1 DEF Loads, BusyInv
      <4>2. CASE LoadFails(b)
        BY <1>2, <4>2 DEF LoadFails, page
      <4>. QED
        BY <2>1, <4>1, <4>2
    <3>2. CASE GoTo(b, "load", "idle") /\ UNCHANGED jobs
      BY <3>1, <3>2, GoingKeepsJobs DEF Pcs
    <3>3. CASE pc[b] = "reload" /\ Ends(b, shown[b])
      BY <3>1, <3>3, EndingKeepsJobs DEF AtWork
    <3>. QED
      BY <2>1, <3>2, <3>3 DEF Load, LoadFails
  <2>2. CASE Info(b)
    <3>1. PICK to \in {"upload", "post"} : GoTo(b, "info", to)
      BY <2>2 DEF Info
    <3>2. /\ pc[b] = "info" /\ to \in Pcs /\ UNCHANGED <<jobs, original>>
          /\ jobs[b] # <<>> /\ (Job(b) = "save" => original[b] # <<>>)
      BY <2>2, <3>1 DEF Info, GoTo, page, Pcs, BusyInv, AtWork
    <3>. QED
      BY <1>2, <3>1, <3>2, GoingKeepsJobs
  <2>3. CASE RequestFails(b) \/ PostRejected(b) \/ PostFails(b) \/ GivesUp(b) \/ UploadBreaks(b)
    <3>1. Ends(b, "error") /\ AtWork(b) /\ UNCHANGED original
      BY <2>3 DEF RequestFails, PostRejected, PostFails, GivesUp, UploadBreaks, AtWork, page
    <3>. QED
      BY <1>2, <3>1, EndingKeepsJobs
  <2>4. CASE PostSettings(b) \/ PostReset(b) \/ PostPairings(b)
    <3>1. GoTo(b, "post", "posted") /\ UNCHANGED <<jobs, original>>
      BY <2>4 DEF PostSettings, PostReset, PostPairings, page
    <3>2. jobs[b] # <<>>
      BY <1>3, <3>1 DEF GoTo, AtWork
    <3>. QED
      BY <1>2, <3>1, <3>2, GoingKeepsJobs DEF Pcs
  <2>5. CASE SeesReboot(b) \/ UploadDone(b)
    <3>1. AtWork(b) /\ UNCHANGED original
      BY <2>5 DEF SeesReboot, UploadDone, AtWork, page
    <3>2. CASE \E told : Ends(b, told)
      BY <1>2, <3>1, <3>2, EndingKeepsJobs
    <3>3. CASE /\ \E from : GoTo(b, from, "reload") \/ GoTo(b, from, "await")
               /\ UNCHANGED jobs
      BY <1>2, <1>3, <3>1, <3>3, GoingKeepsJobs DEF Pcs
    <3>. QED
      BY <2>5, <3>2, <3>3 DEF SeesReboot, UploadDone
  <2>6. CASE SendPiece(b)
    BY <1>1, <2>6 DEF SendPiece, page
  <2>. QED
    BY <1>4, <2>1, <2>2, <2>3, <2>4, <2>5, <2>6 DEF Browser
<1>5. ASSUME NEW b \in Browsers, User(b) PROVE BusyInv'
  <2>1. CASE TryAgain(b)
    BY <1>2, <2>1, GoingKeepsJobs DEF TryAgain, page, Pcs
  <2>2. CASE StartOther(b) \/ StartScript(b) \/ \E e \in DOMAIN Edits : StartSave(b, e)
    <3>1. PICK to \in {"info", "post"} : GoTo(b, "idle", to)
      BY <2>2 DEF StartOther, StartScript, StartSave, Begin
    <3>2. /\ Job(b) # "none" /\ UNCHANGED <<jobs, original>>
          /\ Job(b) = "save" => original[b] # <<>>
      BY <2>2 DEF StartOther, StartScript, StartSave, Begin, page, Uploads
    <3>. QED
      BY <1>2, <1>3, <3>1, <3>2, GoingKeepsJobs DEF Pcs
  <2>. QED
    BY <1>5, <2>1, <2>2 DEF User
<1>6. CASE Write \/ Tick \/ UNCHANGED vars
  BY <1>1, <1>6 DEF Write, Tick, vars, page
<1>7. CASE Respond
  <2>1. PICK b, step, new : Handles(b, step, new)
    BY <1>7 DEF Respond, TellInv, TaskOK
  <2>2. b \in Browsers /\ task[1].by = b /\ UNCHANGED original
    BY <1>7, <2>1, HandlerIs DEF Handles, Respond, page
  <2>3. AtWork(b)
    BY <1>7, <2>2 DEF Respond, TellInv, Told, At, AtWork
  <2>4. CASE \E told : Ends(b, told)
    BY <1>2, <2>2, <2>3, <2>4, EndingKeepsJobs
  <2>5. CASE GoTo(b, "posted", "await") /\ UNCHANGED jobs
    BY <1>2, <1>3, <2>2, <2>3, <2>5, GoingKeepsJobs DEF Pcs
  <2>. QED
    BY <1>7, <2>2, <2>4, <2>5 DEF Respond
<1>8. CASE delayedRestart \/ loopRestart \/ Crash
  BY <1>8, BootKeepsJobs DEF delayedRestart, loopRestart, Crash
<1>. QED
  BY <1>4, <1>5, <1>6, <1>7, <1>8 DEF Next, WebTask

LEMMA BusyAlways == Spec => []BusyInv
<1>1. Init => BusyInv
  <2>1. ASSUME Init PROVE BusyInv
    <3>1. PICK s \in Scenarios : jobs = s.jobs
      BY <2>1 DEF Init
    <3>2. jobs \in [Browsers -> Seq(Jobs)]
      BY <3>1, ScenariosAssumption
    <3>. QED
      BY <2>1, <3>2 DEF Init, BusyInv, Pcs, AtWork
  <2>. QED
    BY <2>1
<1>. QED
  BY <1>1, BusyStep, TellAlways, PTL DEF Spec

-----------------------------------------------------------------------------

LEMMA SecretsLoaded ==
  ASSUME SetInv, SecretInv, NEW b \in Browsers, Load(b)
  PROVE  SecretInv'
<1> DEFINE t == fillSecrets(stripSecrets(Marshal(settings)))
<1>1. Paged(t, t)
  BY PageShown DEF SetInv
<1>2. /\ original' = [original EXCEPT ![b] = <<t>>] /\ front' = [front EXCEPT ![b] = <<t>>]
      /\ UNCHANGED <<settings, last, task>>
  BY DEF Load, modem
<1> HIDE DEF t
<1>3. /\ DOMAIN original' = Browsers /\ DOMAIN front' = Browsers
      /\ original'[b] = <<t>> /\ front'[b] = <<t>>
      /\ \A c \in Browsers \ {b} : original'[c] = original[c] /\ front'[c] = front[c]
  BY <1>2 DEF SecretInv
<1>4. 1 \in DOMAIN front'[b] /\ Paged(front'[b][1], original'[b][1])
  BY <1>1, <1>3
<1>5. Known(settings)' /\ Known(last)' /\ (Interrupted' => Known(task'[1].new))
  BY <1>2 DEF SecretInv, Known, Typed, Sets, Interrupted, Free
<1>6. ASSUME NEW c \in Browsers, original'[c] # <<>>
      PROVE  1 \in DOMAIN front'[c] /\ Paged(front'[c][1], original'[c][1])
  BY <1>3, <1>4, <1>6 DEF SecretInv
<1>. QED
  BY <1>3, <1>5, <1>6 DEF SecretInv, Known, Paged, Typed, Sets

LEMMA SecretsEdited ==
  ASSUME SecretInv, NEW b \in Browsers, NEW e \in DOMAIN Edits, StartSave(b, e)
  PROVE  SecretInv'
<1> DEFINE h == [front[b][1] EXCEPT ![Edits[e].group] = Edited(@, Edits[e].values)]
<1>1. 1 \in DOMAIN front[b] /\ Paged(front[b][1], original[b][1])
  BY DEF StartSave, SecretInv
<1>2. Paged(h, original[b][1])
  BY <1>1, PageEdited
<1>3. /\ front' = [front EXCEPT ![b] = [@ EXCEPT ![1] = h]]
      /\ UNCHANGED <<settings, last, task, original>>
  BY DEF StartSave, Begin, modem
<1> HIDE DEF h
<1>4. /\ DOMAIN front' = Browsers /\ 1 \in DOMAIN front'[b] /\ front'[b][1] = h
      /\ \A c \in Browsers \ {b} : front'[c] = front[c]
  BY <1>1, <1>3 DEF SecretInv
<1>5. Known(settings)' /\ Known(last)' /\ (Interrupted' => Known(task'[1].new))
  BY <1>3 DEF SecretInv, Known, Typed, Sets, Interrupted, Free
<1>6. ASSUME NEW c \in Browsers, original'[c] # <<>>
      PROVE  1 \in DOMAIN front'[c] /\ Paged(front'[c][1], original'[c][1])
  BY <1>2, <1>3, <1>4, <1>6 DEF SecretInv
<1>. QED
  BY <1>3, <1>4, <1>5, <1>6 DEF SecretInv, Known, Paged, Typed, Sets

LEMMA SecretStep == SecretInv /\ SetInv /\ BusyInv /\ TellInv /\ [Next]_vars => SecretInv'
<1> SUFFICES ASSUME SecretInv, SetInv, BusyInv, TaskOK, [Next]_vars PROVE SecretInv'
  BY DEF TellInv
<1>1. CASE UNCHANGED <<modem, original, front>>
  BY <1>1 DEF modem, SecretInv, Interrupted, Free, Known, Paged
<1>2. ASSUME UNCHANGED <<original, front, settings, last>>, ~Interrupted' PROVE SecretInv'
  BY <1>2 DEF SecretInv, Known, Paged
<1>3. ASSUME NEW b, NEW new, Save(b, new), Known(new), UNCHANGED <<original, front, settings, last>>
      PROVE  SecretInv'
  <2>1. task'[1].new = new
    BY <1>3, HandlerIs DEF Save
  <2>. QED
    BY <1>3, <2>1 DEF SecretInv, Known, Paged
<1>4. ASSUME NEW b \in Browsers, Browser(b) PROVE SecretInv'
  <2>1. CASE Load(b)
    BY <2>1, SecretsLoaded
  <2>2. CASE PostSettings(b)
    <3>1. PICK doc \in Uploaded(b) : Acceptable(doc) /\ Save(b, Unmarshal(settings, doc))
      BY <2>2 DEF PostSettings
    <3>2. Job(b) = "save" => original[b] # <<>>
      BY <2>2 DEF PostSettings, GoTo, BusyInv
    <3>3. Known(Unmarshal(settings, doc))
      BY <3>1, <3>2, UploadKnown
    <3>. QED
      BY <1>3, <2>2, <3>1, <3>3 DEF PostSettings, page
  <2>3. CASE PostReset(b)
    BY <1>3, <2>3, DefaultsKnown DEF PostReset, page
  <2>4. CASE PostPairings(b)
    <3>1. ~Interrupted'
      BY <2>4 DEF PostPairings, Interrupted
    <3>. QED
      BY <1>2, <2>4, <3>1 DEF PostPairings, page
  <2>5. CASE LoadFails(b) \/ Info(b) \/ RequestFails(b)
    BY <1>1, <2>5 DEF LoadFails, Info, RequestFails, page
  <2>6. CASE PostRejected(b) \/ PostFails(b) \/ SeesReboot(b) \/ GivesUp(b)
    BY <1>1, <2>6 DEF PostRejected, PostFails, SeesReboot, GivesUp, page
  <2>7. CASE SendPiece(b) \/ UploadDone(b) \/ UploadBreaks(b)
    BY <1>1, <2>7 DEF SendPiece, UploadDone, UploadBreaks, page
  <2>. QED
    BY <1>4, <2>1, <2>2, <2>3, <2>4, <2>5, <2>6, <2>7 DEF Browser
<1>5. ASSUME NEW b \in Browsers, User(b) PROVE SecretInv'
  <2>1. CASE TryAgain(b) \/ StartOther(b) \/ StartScript(b)
    BY <1>1, <2>1 DEF TryAgain, StartOther, StartScript, Begin, page
  <2>. QED
    BY <1>5, <2>1, SecretsEdited DEF User
<1>6. CASE Write
  <2>1. PICK b, step, new : Handles(b, step, new)
    BY <1>6 DEF TaskOK, Write
  <2>2. task = Handler(b, "write", new) /\ Interrupted /\ task[1].new = new
    BY <1>6, <2>1, HandlerIs DEF Handles, Write, Interrupted
  <2>3. Shaped(new) /\ Known(new)
    BY <2>2 DEF SetInv, SecretInv
  <2>4. last' = Kept(new) /\ UNCHANGED <<original, front, settings>>
    BY <1>6, <2>2 DEF Write, Kept, page
  <2>5. ~Interrupted'
    <3>1. task' = Handler(b, "respond", new)
      BY <1>6, <2>2, HandlerIs DEF Write
    <3>. QED
      BY <3>1, HandlerIs DEF Interrupted
  <2>6. Known(Kept(new))
    BY <2>3, KeptKnown
  <2>. QED
    BY <2>4, <2>5, <2>6 DEF SecretInv, Known, Paged
<1>7. CASE Respond
  <2>1. PICK b, step, new : Handles(b, step, new)
    BY <1>7 DEF TaskOK, Respond
  <2>2. ~Interrupted'
    <3>1. task' = Handler(b, "restart", new)
      BY <1>7, <2>1, HandlerIs DEF Handles, Respond
    <3>. QED
      BY <3>1, HandlerIs DEF Interrupted
  <2>. QED
    BY <1>2, <1>7, <2>2 DEF Respond, page
<1>8. CASE delayedRestart \/ loopRestart \/ Crash
  <2>1. Boot
    BY <1>8 DEF delayedRestart, loopRestart, Crash
  <2>2. settings' \in {Defaults, last} /\ last' \in {Defaults, last}
    BY <2>1 DEF Boot, SetInv, Loaded
  <2>3. ~Interrupted' /\ UNCHANGED <<original, front>>
    BY <2>1 DEF Boot, Interrupted, Free, page
  <2>. QED
    BY <2>2, <2>3, DefaultsKnown DEF SecretInv, Known, Paged
<1>9. CASE Tick \/ UNCHANGED vars
  BY <1>1, <1>9 DEF Tick, vars, page
<1>. QED
  BY <1>4, <1>5, <1>6, <1>7, <1>8, <1>9 DEF Next, WebTask

LEMMA SecretAlways == Spec => []SecretInv
<1>1. Init => SecretInv
  BY DefaultsKnown DEF Init, SecretInv, Interrupted, Free
<1>. QED
  BY <1>1, SecretStep, SetAlways, BusyAlways, TellAlways, PTL DEF Spec

\* Secrets stay in the modem, and the text that stands for one on the page is
\* never saved in its place: by no sequence of loading, editing and saving of
\* any number of users, whatever else is uploaded (settings.cpp:532,
\* service.ts:167).
THEOREM SecretsAreKept == Spec => []SecretsKept
<1>1. SecretInv => SecretsKept
  <2>1. ASSUME SecretInv, NEW g \in Groups, NEW k \in Secrets(g)
        PROVE  /\ settings[g][k] \in {Defaults[g][k]} \union Typed(g, k)
               /\ \A b \in Browsers : original[b] # <<>> => original[b][1][g][k] \in {NoText, secretFiller}
    BY <2>1 DEF SecretInv, Known, Paged
  <2>. QED
    BY <2>1 DEF SecretsKept, Secrets
<1>. QED
  BY <1>1, SecretAlways, PTL

-----------------------------------------------------------------------------
(* Types.                                                                  *)

Updates == {"no", "begun", "writing"}
Pieces == Seq(Browsers \X (1 .. Chunks))
SessionType == [result : Results, index : 0 .. Chunks]
OutcomeType == [result : Results, updating : Updates, staged : Pieces, bootStaged : BOOLEAN]

Sessions == {t \in Seq(SessionType) : Len(t) <= 1}

UploadTypes ==
  /\ session \in [Browsers -> Sessions]
  /\ updating \in Updates
  /\ staged \in Pieces
  /\ bootStaged \in BOOLEAN /\ restart \in BOOLEAN /\ brokenOff \in BOOLEAN
  /\ sent \in [Browsers -> 0 .. Chunks]

LEMMA SessionsAre == <<>> \in Sessions /\ \A t \in SessionType : <<t>> \in Sessions
  BY DEF Sessions

LEMMA OutcomeTyped ==
  ASSUME UploadTypes, NEW b \in Browsers, NEW i \in 1 .. Chunks, NEW s \in SessionType, NEW good
  PROVE  handle(b, i, s, good) \in OutcomeType
<1>1. \A r \in Results, u \in Updates, p \in Pieces, boot \in BOOLEAN :
        Outcome(r, u, p, boot) \in OutcomeType
  BY DEF Outcome, OutcomeType
<1>2. staged \in Pieces /\ bootStaged \in BOOLEAN /\ updating \in Updates /\ s.result \in Results
  BY DEF UploadTypes, SessionType
<1>3. <<<<b, i>>>> \in Pieces /\ Append(staged, <<b, i>>) \in Pieces
  BY <1>2 DEF Pieces
<1>4. ASSUME NEW u \in Updates PROVE WritePiece(b, i, u) \in OutcomeType
  <2>1. /\ {"short_write_error", "started", "success", "update_end_failed"} \subseteq Results
        /\ {"no", "writing"} \subseteq Updates
    BY DEF Results, Updates
  <2>. QED
    BY <1>1, <1>2, <1>3, <2>1, Zenon DEF WritePiece
<1>5. /\ {"index_mismatch", "update_begin_failed", "verify_header_failed"} \subseteq Results
      /\ "begun" \in Updates
  BY DEF Results, Updates
<1>. QED
  BY <1>1, <1>2, <1>4, <1>5, Zenon DEF handle

LEMMA UploadTyped ==
  ASSUME UploadTypes, NEW b \in Browsers, SendPiece(b)
  PROVE  UploadTypes'
<1> DEFINE i == sent[b] + 1
<1> DEFINE begins == i = 1 /\ auth(b)
<1> DEFINE s == IF begins THEN [result |-> "pending", index |-> 0] ELSE session[b][1]
<1> DEFINE o == handle(b, i, s, Job(b) = "upload")
<1>1. i \in 1 .. Chunks /\ sent' = [sent EXCEPT ![b] = i]
  BY ChunksAssumption DEF SendPiece, UploadTypes
<1>2. sent' \in [Browsers -> 0 .. Chunks]
  BY <1>1, ChunksAssumption DEF UploadTypes
<1>3. CASE UNCHANGED otaVars
  BY <1>2, <1>3 DEF otaVars, UploadTypes
<1>4. CASE /\ begins \/ session[b] # <<>>
           /\ session' = [session EXCEPT ![b] = Session(o.result, i)]
           /\ updating' = o.updating /\ staged' = o.staged /\ bootStaged' = o.bootStaged
           /\ brokenOff' = (brokenOff /\ o.updating # "no")
           /\ UNCHANGED restart
  <2>1. s \in SessionType
    <3>1. CASE begins
      BY <3>1, ChunksAssumption DEF SessionType, Results
    <3>2. CASE ~begins
      <4>1. session[b] \in Seq(SessionType) /\ session[b] # <<>>
        BY <1>4, <3>2 DEF UploadTypes, Sessions
      <4>2. session[b][1] \in SessionType
        BY <4>1
      <4>. QED
        BY <3>2, <4>2
    <3>. QED
      BY <3>1, <3>2
  <2> HIDE DEF s, begins
  <2>2. o \in OutcomeType
    BY <1>1, <2>1, OutcomeTyped
  <2> HIDE DEF o
  <2>3. Session(o.result, i) \in Sessions
    BY <1>1, <2>2, SessionsAre DEF Session, SessionType, OutcomeType
  <2>4. session' \in [Browsers -> Sessions]
    BY <1>4, <2>3 DEF UploadTypes
  <2>5. /\ updating' \in Updates /\ staged' \in Pieces
        /\ bootStaged' \in BOOLEAN
    BY <1>4, <2>2 DEF OutcomeType
  <2>6. restart' \in BOOLEAN /\ brokenOff' \in BOOLEAN
    BY <1>4 DEF UploadTypes
  <2>. QED
    BY <1>2, <2>4, <2>5, <2>6 DEF UploadTypes
<1>. QED
  BY <1>3, <1>4 DEF SendPiece, handleUpload

LEMMA UploadStep == UploadTypes /\ [Next]_vars => UploadTypes'
<1> SUFFICES ASSUME UploadTypes, [Next]_vars PROVE UploadTypes'
  OBVIOUS
<1>1. CASE UNCHANGED <<otaVars, sent>>
  BY <1>1 DEF otaVars, UploadTypes
<1>2. ASSUME NEW b \in Browsers, session' = [session EXCEPT ![b] = <<>>],
             UNCHANGED <<sent, staged, bootStaged>>,
             updating' \in Updates, restart' \in BOOLEAN, brokenOff' \in BOOLEAN
      PROVE  UploadTypes'
  <2>1. session' \in [Browsers -> Sessions]
    BY <1>2, SessionsAre DEF UploadTypes
  <2>. QED
    BY <1>2, <2>1 DEF UploadTypes
<1>3. ASSUME NEW b \in Browsers, Browser(b) PROVE UploadTypes'
  <2>1. CASE SendPiece(b)
    BY <2>1, UploadTyped
  <2>2. CASE UploadDone(b)
    <3>1. /\ updating' \in Updates
          /\ session' = [session EXCEPT ![b] = <<>>] /\ UNCHANGED <<sent, staged, bootStaged>>
      BY <2>2 DEF UploadDone, respond, request, UploadTypes, Updates
    <3>2. restart' \in BOOLEAN /\ brokenOff' \in BOOLEAN
      BY <2>2 DEF UploadDone, respond
    <3>. QED
      BY <1>2, <3>1, <3>2
  <2>3. CASE UploadBreaks(b)
    <3>1. /\ updating' \in Updates /\ restart' \in BOOLEAN
          /\ session' = [session EXCEPT ![b] = <<>>] /\ UNCHANGED <<sent, staged, bootStaged>>
      BY <2>3 DEF UploadBreaks, Disconnect, request, UploadTypes, Updates
    <3>2. brokenOff' \in BOOLEAN
      BY <2>3 DEF UploadBreaks, Disconnect
    <3>. QED
      BY <1>2, <3>1, <3>2
  <2>4. CASE Load(b) \/ LoadFails(b) \/ Info(b) \/ RequestFails(b) \/ PostSettings(b)
    BY <1>1, <2>4 DEF Load, LoadFails, Info, RequestFails, PostSettings, request
  <2>5. CASE PostRejected(b) \/ PostFails(b) \/ PostReset(b) \/ PostPairings(b)
    BY <1>1, <2>5 DEF PostRejected, PostFails, PostReset, PostPairings, request
  <2>6. CASE SeesReboot(b) \/ GivesUp(b)
    BY <1>1, <2>6 DEF SeesReboot, GivesUp, request
  <2>. QED
    BY <1>3, <2>1, <2>2, <2>3, <2>4, <2>5, <2>6 DEF Browser
<1>4. ASSUME NEW b \in Browsers, User(b) PROVE UploadTypes'
  <2>1. CASE TryAgain(b)
    BY <1>1, <2>1 DEF TryAgain, request
  <2>2. CASE UNCHANGED otaVars /\ sent' = [sent EXCEPT ![b] = 0]
    BY <2>2, ChunksAssumption DEF otaVars, UploadTypes
  <2>. QED
    BY <1>4, <2>1, <2>2 DEF User, StartOther, StartScript, StartSave, Begin
<1>5. CASE Write \/ Respond \/ Tick
  BY <1>1, <1>5 DEF Write, Respond, Tick, request
<1>6. CASE delayedRestart \/ loopRestart \/ Crash
  <2>1. OtaBoot /\ UNCHANGED sent
    BY <1>6 DEF delayedRestart, loopRestart, Crash, Boot
  <2>. QED
    <3>1. session' \in [Browsers -> Sessions]
      BY <2>1, SessionsAre DEF OtaBoot
    <3>2. updating' \in Updates /\ staged' \in Pieces
      BY <2>1 DEF OtaBoot, Updates, Pieces
    <3>. QED
      BY <2>1, <3>1, <3>2 DEF OtaBoot, UploadTypes
<1>7. CASE UNCHANGED vars
  BY <1>1, <1>7 DEF vars, request
<1>. QED
  BY <1>3, <1>4, <1>5, <1>6, <1>7 DEF Next, WebTask
LEMMA UploadsTyped == UploadTypes => OtaTypeOK
<1>1. ASSUME UploadTypes PROVE session \in [Browsers -> Seq(SessionType)]
  <2>1. Sessions \subseteq Seq(SessionType)
    BY DEF Sessions
  <2>. QED
    BY <1>1, <2>1 DEF UploadTypes
<1>2. ASSUME UploadTypes, NEW b \in Browsers PROVE Len(session[b]) <= 1
  BY <1>2 DEF UploadTypes, Sessions
<1>. QED
  BY <1>1, <1>2 DEF UploadTypes, OtaTypeOK, SessionType, Updates, Pieces

Fates == {"none", "done", "installed", "running", "lost"}
ShownTo == {"nothing", "error", "success"}

RestTypes ==
  /\ uptime \in 0 .. MaxUptime
  /\ before \in [Browsers -> 0 .. MaxUptime]
  /\ shown \in [Browsers -> ShownTo]
  /\ fate \in [Browsers -> Fates]
  /\ crashes \in Nat /\ faults \in Nat

LEMMA RestStep == RestTypes /\ [Next]_vars => RestTypes'
<1> SUFFICES ASSUME RestTypes, [Next]_vars PROVE RestTypes'
  OBVIOUS
<1> USE DEF ShownTo, Fates
<1>1. uptime' \in 0 .. MaxUptime
  <2>1. uptime' = uptime \/ Tick \/ Boot
    BY DEF Next, Browser, User, WebTask, Load, LoadFails, Info, RequestFails, PostSettings,
           PostRejected, PostFails, PostReset, PostPairings, SeesReboot, GivesUp, SendPiece,
           UploadDone, UploadBreaks, TryAgain, StartOther, StartScript, StartSave, Begin, Write,
           Respond, delayedRestart, loopRestart, Crash, vars
  <2>. QED
    BY <2>1, MaxUptimeAssumption DEF RestTypes, Tick, Boot
<1>2. before' \in [Browsers -> 0 .. MaxUptime]
  <2>1. before' = before \/ \E b \in Browsers : Info(b)
    BY DEF Next, Browser, User, WebTask, Load, LoadFails, RequestFails, PostSettings,
           PostRejected, PostFails, PostReset, PostPairings, SeesReboot, GivesUp, SendPiece,
           UploadDone, UploadBreaks, TryAgain, StartOther, StartScript, StartSave, Begin, Write,
           Respond, delayedRestart, loopRestart, Crash, Tick, Boot, vars, request
  <2>. QED
    BY <2>1 DEF RestTypes, Info
<1>3. shown' \in [Browsers -> ShownTo]
  <2>1. \/ shown' = shown
        \/ \E b \in Browsers : Ends(b, shown[b])
        \/ \E b, told : told \in ShownTo /\ shown' = [shown EXCEPT ![b] = told]
        \/ Boot
    BY DEF Next, Browser, User, WebTask, Load, LoadFails, Info, RequestFails, PostSettings,
           PostRejected, PostFails, PostReset, PostPairings, SeesReboot, GivesUp, SendPiece,
           UploadDone, UploadBreaks, TryAgain, StartOther, StartScript, StartSave, Begin, Write,
           Respond, delayedRestart, loopRestart, Crash, Tick, vars, Ends
  <2>. QED
    BY <2>1 DEF RestTypes, Boot, Ends
<1>4. fate' \in [Browsers -> Fates]
  <2>1. \/ fate' = fate
        \/ \E b, what : what \in Fates /\ fate' = [fate EXCEPT ![b] = what]
        \/ Boot
    BY DEF Next, Browser, User, WebTask, Load, LoadFails, Info, RequestFails, PostSettings,
           PostRejected, PostFails, PostReset, PostPairings, SeesReboot, GivesUp, SendPiece,
           UploadDone, UploadBreaks, TryAgain, StartOther, StartScript, StartSave, Begin, Write,
           Respond, delayedRestart, loopRestart, Crash, Tick, vars, request
  <2>. QED
    BY <2>1 DEF RestTypes, Boot
<1>5. crashes' \in Nat
  <2>1. crashes' = crashes \/ Crash
    BY DEF Next, Browser, User, WebTask, Load, LoadFails, Info, RequestFails, PostSettings,
           PostRejected, PostFails, PostReset, PostPairings, SeesReboot, GivesUp, SendPiece,
           UploadDone, UploadBreaks, TryAgain, StartOther, StartScript, StartSave, Begin, Write,
           Respond, delayedRestart, loopRestart, Tick, vars
  <2>. QED
    BY <2>1 DEF RestTypes, Crash
<1>6. faults' \in Nat
  <2>1. faults' = faults \/ Fault
    BY DEF Next, Browser, User, WebTask, Load, LoadFails, Info, RequestFails, PostSettings,
           PostRejected, PostFails, PostReset, PostPairings, SeesReboot, GivesUp, SendPiece,
           UploadDone, UploadBreaks, TryAgain, StartOther, StartScript, StartSave, Begin, Write,
           Respond, delayedRestart, loopRestart, Tick, vars, Crash, Unanswered
  <2>. QED
    BY <2>1 DEF RestTypes, Fault
<1>. QED
  BY <1>1, <1>2, <1>3, <1>4, <1>5, <1>6 DEF RestTypes

-----------------------------------------------------------------------------

LEMMA MembersAre ==
  /\ Members.general = [name |-> Seq(Characters), encryption |-> BOOLEAN, password |-> STRING]
  /\ Members.web = [protected |-> BOOLEAN, username |-> STRING, password |-> STRING]
  /\ Members.wifi = [mode |-> STRING, sta_ssid |-> STRING, sta_psk |-> STRING,
                     ap_ssid |-> STRING, ap_psk |-> STRING]
  /\ Members.bluetooth = [enabled |-> BOOLEAN, pin_enabled |-> BOOLEAN, pin |-> STRING]
  /\ Members.mqtt = [enabled |-> BOOLEAN, prefix |-> STRING, server |-> ServerType,
                     username |-> STRING, password |-> STRING, publish_status |-> BOOLEAN,
                     publish_format |-> STRING, publish_interval |-> Nat, ha |-> BOOLEAN]
  /\ Members.prometheus = [enabled |-> BOOLEAN]
  BY DEF Members

\* A group of a document that fits.
FitsIn(g, o) ==
  \A k \in DOMAIN Members[g] :
    IF k \in DOMAIN o THEN o[k] \in Members[g][k] ELSE k \in SecretKeys

LEMMA SecretTyped ==
  ASSUME NEW g, NEW o, NEW k, g[k] \in STRING, k \in DOMAIN o => o[k] \in STRING
  PROVE  Secret(g, o, k) \in STRING
<1>1. Secret(g, o, k) = g[k] \/ (k \in DOMAIN o /\ Secret(g, o, k) = o[k])
  BY Zenon DEF Secret, containsAndHas
<1>. QED
  BY <1>1

LEMMA TextsAre ==
  /\ NoText \in STRING /\ secretFiller \in STRING
  /\ \A t \in {"0", "1", "2", "3", "off", "sta", "ap", "1234", "123456", "ArduMower Modem"} :
       t \in STRING
  BY TextsAssumption, Zenon DEF secretFiller

LEMMA NamesTyped ==
  /\ \A n : FormatOfName(n) \in STRING
  /\ \A m \in 0 .. 2 : ModeName[m] \in STRING
<1>1. \A n : FormatOfName(n) = IF n = "json" THEN "1" ELSE IF n = "text" THEN "2" ELSE "3"
  BY DEF FormatOfName
<1>2. ModeName[0] = "off" /\ ModeName[1] = "sta" /\ ModeName[2] = "ap"
  BY DEF ModeName
<1>3. \A n : FormatOfName(n) \in STRING
  BY <1>1, TextsAre
<1>4. \A m \in 0 .. 2 : m = 0 \/ m = 1 \/ m = 2
  OBVIOUS
<1>5. "off" \in STRING /\ "sta" \in STRING /\ "ap" \in STRING
  BY TextsAre
<1>. QED
  BY <1>2, <1>3, <1>4, <1>5

LEMMA FitsGroups ==
  ASSUME NEW o
  PROVE  Fits(o) <=> o.revision \in Nat /\ \A g \in Groups : FitsIn(g, o[g])
  BY DEF Fits, FitsIn

LEMMA UnmarshalTyped ==
  ASSUME NEW s \in SettingsType, NEW o, Fits(o)
  PROVE  Unmarshal(s, o) \in SettingsType
<1>0. \A g \in Groups : FitsIn(g, o[g])
  BY FitsGroups
<1> USE DEF Groups
<1>1. UnmarshalGeneral(s.general, o.general) \in
        [name : Seq(Characters), encryption : BOOLEAN, password : STRING]
  <2>1. /\ o.general.name \in Seq(Characters) /\ o.general.encryption \in BOOLEAN
        /\ "password" \in DOMAIN o.general => o.general.password \in STRING
    <3>1. FitsIn("general", o.general)
      BY <1>0
    <3>. QED
      BY <3>1, MembersAre, SecretKeysAre DEF FitsIn
  <2>2. Secret(s.general, o.general, "password") \in STRING
    BY <2>1, SecretTyped DEF SettingsType
  <2>. QED
    BY <2>1, <2>2 DEF UnmarshalGeneral
<1>2. UnmarshalWeb(s.web, o.web) \in [protected : BOOLEAN, username : STRING, password : STRING]
  <2>1. /\ o.web.protected \in BOOLEAN /\ o.web.username \in STRING
        /\ "password" \in DOMAIN o.web => o.web.password \in STRING
    <3>1. FitsIn("web", o.web)
      BY <1>0
    <3>. QED
      BY <3>1, MembersAre, SecretKeysAre DEF FitsIn
  <2>2. Secret(s.web, o.web, "password") \in STRING
    BY <2>1, SecretTyped DEF SettingsType
  <2>. QED
    BY <2>1, <2>2 DEF UnmarshalWeb
<1>3. UnmarshalWiFi(s.wifi, o.wifi) \in
        [mode : 0 .. 2, sta_ssid : STRING, sta_psk : STRING, ap_ssid : STRING, ap_psk : STRING]
  <2>1. /\ o.wifi.sta_ssid \in STRING /\ o.wifi.ap_ssid \in STRING
        /\ "sta_psk" \in DOMAIN o.wifi => o.wifi.sta_psk \in STRING
        /\ "ap_psk" \in DOMAIN o.wifi => o.wifi.ap_psk \in STRING
    <3>1. FitsIn("wifi", o.wifi)
      BY <1>0
    <3>. QED
      BY <3>1, MembersAre, SecretKeysAre DEF FitsIn
  <2>2. /\ Secret(s.wifi, o.wifi, "sta_psk") \in STRING
        /\ Secret(s.wifi, o.wifi, "ap_psk") \in STRING
    BY <2>1, SecretTyped DEF SettingsType
  <2>. QED
    BY <2>1, <2>2, ModesHaveNames DEF UnmarshalWiFi
<1>4. UnmarshalBluetooth(s.bluetooth, o.bluetooth) \in
        [enabled : BOOLEAN, pin_enabled : BOOLEAN, pin : STRING]
  <2>1. /\ o.bluetooth.enabled \in BOOLEAN /\ o.bluetooth.pin_enabled \in BOOLEAN
        /\ "pin" \in DOMAIN o.bluetooth => o.bluetooth.pin \in STRING
    <3>1. FitsIn("bluetooth", o.bluetooth)
      BY <1>0
    <3>. QED
      BY <3>1, MembersAre, SecretKeysAre DEF FitsIn
  <2>2. Secret(s.bluetooth, o.bluetooth, "pin") \in STRING
    BY <2>1, SecretTyped DEF SettingsType
  <2>. QED
    BY <2>1, <2>2 DEF UnmarshalBluetooth
<1> DEFINE MqttType == [enabled : BOOLEAN, prefix : STRING, server : ServerType,
                        username : STRING, password : STRING, publish_status : BOOLEAN,
                        publish_format : STRING, publish_interval : Nat, ha : BOOLEAN]
<1>5. UnmarshalMqtt(s.mqtt, o.mqtt) \in MqttType
  <2>1. /\ o.mqtt.enabled \in BOOLEAN /\ o.mqtt.prefix \in STRING /\ o.mqtt.server \in ServerType
        /\ o.mqtt.username \in STRING /\ o.mqtt.publish_status \in BOOLEAN
        /\ o.mqtt.publish_interval \in Nat /\ o.mqtt.ha \in BOOLEAN
        /\ "password" \in DOMAIN o.mqtt => o.mqtt.password \in STRING
    <3>1. FitsIn("mqtt", o.mqtt)
      BY <1>0
    <3>. QED
      BY <3>1, MembersAre, SecretKeysAre DEF FitsIn
  <2>2. s.mqtt \in MqttType
    BY DEF SettingsType
  <2>3. Secret(s.mqtt, o.mqtt, "password") \in STRING
    BY <2>1, <2>2, SecretTyped
  <2>4. FormatOfName(o.mqtt.publish_format) \in STRING
    BY NamesTyped
  <2> DEFINE p == Secret(s.mqtt, o.mqtt, "password")
  <2> DEFINE f == FormatOfName(o.mqtt.publish_format)
  <2>5. UnmarshalMqtt(s.mqtt, o.mqtt) =
          [s.mqtt EXCEPT !.enabled = o.mqtt.enabled, !.prefix = o.mqtt.prefix,
                         !.server = o.mqtt.server, !.username = o.mqtt.username, !.password = p,
                         !.publish_status = o.mqtt.publish_status, !.publish_format = f,
                         !.publish_interval = o.mqtt.publish_interval, !.ha = o.mqtt.ha]
    BY DEF UnmarshalMqtt
  <2> HIDE DEF p, f
  <2>6. p \in STRING /\ f \in STRING
    BY <2>3, <2>4 DEF p, f
  <2>. QED
    BY <2>1, <2>2, <2>5, <2>6
<1>6. o.prometheus.enabled \in BOOLEAN
  <2>1. FitsIn("prometheus", o.prometheus)
    BY <1>0
  <2>. QED
    BY <2>1, MembersAre, SecretKeysAre DEF FitsIn
<1>. QED
  BY <1>0, <1>1, <1>2, <1>3, <1>4, <1>5, <1>6, FitsGroups DEF Unmarshal, SettingsType

\* no member is one that tells whether there is a secret
LEMMA NoMemberTells ==
  \A g \in Groups : \A k \in DOMAIN Members[g] :
    /\ \A j \in SecretKeys : k # HasOf[j]
    /\ k \in SecretKeys => Members[g][k] = STRING
<1>1. ASSUME NEW g \in Groups
      PROVE  \A k \in DOMAIN Members[g] :
               /\ \A j \in SecretKeys : k # HasOf[j]
               /\ k \in SecretKeys => Members[g][k] = STRING
  <2>1. CASE g = "general"
    BY <2>1, MembersAre, SecretKeysAre, HasKeys
  <2>2. CASE g = "web"
    BY <2>2, MembersAre, SecretKeysAre, HasKeys
  <2>3. CASE g = "wifi"
    BY <2>3, MembersAre, SecretKeysAre, HasKeys
  <2>4. CASE g = "bluetooth"
    BY <2>4, MembersAre, SecretKeysAre, HasKeys
  <2>5. CASE g = "mqtt"
    BY <2>5, MembersAre, SecretKeysAre, HasKeys
  <2>6. CASE g = "prometheus"
    BY <2>6, MembersAre, SecretKeysAre, HasKeys
  <2>. QED
    BY <2>1, <2>2, <2>3, <2>4, <2>5, <2>6 DEF Groups
<1>. QED
  BY <1>1

\* What is not a secret, nor tells of one, is shown as it is.
LEMMA ShownAsItIs ==
  ASSUME NEW g, NEW k \in DOMAIN g, k \notin SecretKeys, \A j \in SecretKeys : k # HasOf[j]
  PROVE  LET t == fillSecret(stripSecret(g)) IN k \in DOMAIN t /\ t[k] = g[k]
<1> DEFINE h == stripSecret(g)
<1>1. k \in DOMAIN h /\ h[k] = g[k]
  BY DEF stripSecret
<1> HIDE DEF h
<1>2. k \in DOMAIN fillSecret(h) /\ fillSecret(h)[k] = h[k]
  BY <1>1 DEF fillSecret
<1>. QED
  BY <1>1, <1>2 DEF h

LEMMA MarshalFits ==
  ASSUME NEW s \in SettingsType
  PROVE  LET m == Marshal(s) IN
         /\ m.revision \in Nat
         /\ \A g \in Groups : \A k \in DOMAIN Members[g] :
              k \in DOMAIN m[g] /\ m[g][k] \in Members[g][k]
<1> DEFINE m == Marshal(s)
<1>1. /\ m.general = s.general /\ m.web = s.web /\ m.wifi = MarshalWiFi(s.wifi)
      /\ m.bluetooth = s.bluetooth /\ m.mqtt = s.mqtt /\ m.prometheus = s.prometheus
      /\ m.revision \in Nat
  BY DEF SettingsType, Marshal
<1> HIDE DEF m
<1>2. ASSUME NEW k \in DOMAIN Members.general
      PROVE  k \in DOMAIN s.general /\ s.general[k] \in Members.general[k]
  BY <1>2, MembersAre DEF SettingsType
<1>3. ASSUME NEW k \in DOMAIN Members.web PROVE k \in DOMAIN s.web /\ s.web[k] \in Members.web[k]
  BY <1>3, MembersAre DEF SettingsType
<1>4. ASSUME NEW k \in DOMAIN Members.wifi PROVE k \in DOMAIN m.wifi /\ m.wifi[k] \in Members.wifi[k]
  <2>1. m.wifi = [s.wifi EXCEPT !.mode = ModeName[s.wifi.mode]]
    BY <1>1 DEF MarshalWiFi
  <2>2. ModeName[s.wifi.mode] \in STRING
    BY NamesTyped DEF SettingsType
  <2>. QED
    BY <1>4, <2>1, <2>2, MembersAre DEF SettingsType
<1>5. ASSUME NEW k \in DOMAIN Members.bluetooth
      PROVE  k \in DOMAIN s.bluetooth /\ s.bluetooth[k] \in Members.bluetooth[k]
  BY <1>5, MembersAre DEF SettingsType
<1>6. ASSUME NEW k \in DOMAIN Members.mqtt PROVE k \in DOMAIN s.mqtt /\ s.mqtt[k] \in Members.mqtt[k]
  BY <1>6, MembersAre DEF SettingsType
<1>7. ASSUME NEW k \in DOMAIN Members.prometheus
      PROVE  k \in DOMAIN s.prometheus /\ s.prometheus[k] \in Members.prometheus[k]
  BY <1>7, MembersAre DEF SettingsType
<1>8. ASSUME NEW g \in Groups, NEW k \in DOMAIN Members[g]
      PROVE  k \in DOMAIN m[g] /\ m[g][k] \in Members[g][k]
  BY <1>1, <1>2, <1>3, <1>4, <1>5, <1>6, <1>7, <1>8 DEF Groups
<1>. QED
  BY <1>1, <1>8 DEF m

LEMMA PageFits ==
  ASSUME NEW s \in SettingsType
  PROVE  LET t == fillSecrets(stripSecrets(Marshal(s))) IN Fits(t) /\ "revision" \in DOMAIN t
<1> DEFINE m == Marshal(s)
<1> DEFINE t == fillSecrets(stripSecrets(m))
<1>1. /\ DOMAIN m = {"revision"} \union Groups
      /\ m.revision \in Nat
      /\ \A g \in Groups : \A k \in DOMAIN Members[g] :
           k \in DOMAIN m[g] /\ m[g][k] \in Members[g][k]
  <2>1. DOMAIN m = {"revision"} \union Groups
    BY DEF Marshal, SettingsType, Groups
  <2>. QED
    BY <2>1, MarshalFits
<1> HIDE DEF m
<1>2. DOMAIN t = DOMAIN m /\ \A g \in Groups : t[g] = fillSecret(stripSecret(m[g]))
  BY <1>1, OnEachGroup
<1>3. t.revision = m.revision
  <2>1. "revision" \notin Groups /\ "revision" \in DOMAIN m
    BY <1>1 DEF Groups
  <2>. QED
    BY <2>1 DEF fillSecrets, stripSecrets, OnGroups
<1>4. NoText \in STRING /\ secretFiller \in STRING
  BY TextsAre
<1> HIDE DEF t
<1>5. ASSUME NEW g \in Groups, NEW k \in DOMAIN Members[g]
      PROVE  k \in DOMAIN t[g] /\ t[g][k] \in Members[g][k]
  <2>1. k \in DOMAIN m[g] /\ m[g][k] \in Members[g][k]
    BY <1>1
  <2>2. CASE k \in SecretKeys
    <3>1. k \in DOMAIN t[g] /\ t[g][k] \in {NoText, secretFiller}
      BY <1>2, <2>1, <2>2, Shown
    <3>2. Members[g][k] = STRING
      BY <2>2, NoMemberTells
    <3>. QED
      BY <1>4, <3>1, <3>2
  <2>3. CASE k \notin SecretKeys
    <3>1. \A j \in SecretKeys : k # HasOf[j]
      BY NoMemberTells
    <3>. QED
      BY <1>2, <2>1, <2>3, <3>1, ShownAsItIs
  <2>. QED
    BY <2>2, <2>3
<1>6. Fits(t) /\ "revision" \in DOMAIN t
  BY <1>1, <1>2, <1>3, <1>5 DEF Fits
<1>. QED
  BY <1>6 DEF t, m

LEMMA EditedFits ==
  ASSUME NEW f, Groups \subseteq DOMAIN f, Fits(f), NEW e \in DOMAIN Edits
  PROVE  Fits([f EXCEPT ![Edits[e].group] = Edited(@, Edits[e].values)])
<1> DEFINE h == [f EXCEPT ![Edits[e].group] = Edited(@, Edits[e].values)]
<1>1. /\ Edits[e].group \in Groups
      /\ \A k \in DOMAIN Edits[e].values : Edits[e].values[k] \in Members[Edits[e].group][k]
  BY EditsAssumption
<1>2. h.revision = f.revision
  BY <1>1 DEF Groups
<1>3. ASSUME NEW g \in Groups, NEW k \in DOMAIN Members[g]
      PROVE  IF k \in DOMAIN h[g] THEN h[g][k] \in Members[g][k] ELSE k \in SecretKeys
  <2>1. IF k \in DOMAIN f[g] THEN f[g][k] \in Members[g][k] ELSE k \in SecretKeys
    BY DEF Fits
  <2>2. CASE Edits[e].group # g
    <3>1. h[g] = f[g]
      BY <2>2
    <3>. QED
      BY <2>1, <3>1
  <2>3. CASE Edits[e].group = g
    <3>1. h[g] = Edited(f[g], Edits[e].values)
      BY <2>3
    <3>2. /\ DOMAIN h[g] = DOMAIN f[g]
          /\ k \in DOMAIN f[g] =>
               h[g][k] = IF k \in DOMAIN Edits[e].values THEN Edits[e].values[k] ELSE f[g][k]
      BY <3>1 DEF Edited
    <3> HIDE DEF h
    <3>. QED
      BY <1>1, <2>1, <2>3, <3>2
  <2>. QED
    BY <2>2, <2>3
<1> HIDE DEF h
<1>4. Fits(h)
  BY <1>2, <1>3 DEF Fits
<1>. QED
  BY <1>4 DEF h

LEMMA SavedFits ==
  ASSUME NEW b, LET f == front[b][1] IN
                Groups \subseteq DOMAIN f /\ "revision" \in DOMAIN f /\ Fits(f),
         Fits(original[b][1])
  PROVE  Fits(Saved(b))
<1> DEFINE f == front[b][1]
<1> DEFINE o == original[b][1]
<1> DEFINE t == stripFillers(f, o)
<1>1. /\ DOMAIN t = DOMAIN f
      /\ \A g \in Groups : t[g] = stripFiller(f[g], o[g])
  BY DEF stripFillers
<1>2. Saved(b) = [t EXCEPT !.revision = o.revision + 1]
  BY DEF Saved
<1>3. o.revision + 1 \in Nat
  BY DEF Fits
<1>4. "revision" \notin Groups
  BY DEF Groups
<1>5. Fits(f) /\ Groups \subseteq DOMAIN f /\ "revision" \in DOMAIN f
  OBVIOUS
<1> HIDE DEF t, f, o
<1>6. Saved(b).revision \in Nat /\ \A g \in Groups : Saved(b)[g] = stripFiller(f[g], o[g])
  BY <1>1, <1>2, <1>3, <1>4, <1>5
<1>7. ASSUME NEW g \in Groups, NEW k \in DOMAIN Members[g]
      PROVE  /\ DOMAIN stripFiller(f[g], o[g]) = DOMAIN f[g]
             /\ k \in DOMAIN f[g] => stripFiller(f[g], o[g])[k] = f[g][k]
  BY NoMemberTells DEF stripFiller
<1>. QED
  BY <1>5, <1>6, <1>7 DEF Fits

LEMMA DefaultsTyped == Defaults \in SettingsType
<1> DEFINE d == Defaults
<1>1. Letters(9) \in Seq(Characters)
  <2>1. "letter" \in Characters
    BY DEF Characters
  <2>. QED
    BY <2>1 DEF Letters
<1>2. Server(NoText, <<>>, -1) \in ServerType
  <2>1. <<>> \in Seq(Characters)
    OBVIOUS
  <2>2. \A x \in STRING, h \in Seq(Characters), p \in Int : Server(x, h, p) \in ServerType
    BY DEF Server, ServerType
  <2>3. -1 \in Int
    OBVIOUS
  <2>. QED
    BY <2>1, <2>2, <2>3, TextsAre
<1> DEFINE arduMower == "ArduMower Modem"
<1>3. /\ "0" \in STRING /\ "1234" \in STRING /\ "123456" \in STRING
      /\ arduMower \in STRING /\ NoText \in STRING
  BY TextsAre
<1> DEFINE nowhere == Server(NoText, <<>>, -1)
<1>4. /\ d.wifi = [mode |-> 0, sta_ssid |-> NoText, sta_psk |-> NoText,
                   ap_ssid |-> arduMower, ap_psk |-> arduMower]
      /\ d.mqtt = [enabled |-> FALSE, prefix |-> NoText, server |-> nowhere,
                   username |-> NoText, password |-> NoText, publish_status |-> TRUE,
                   publish_format |-> "0", publish_interval |-> 30, ha |-> FALSE]
  BY DEF Defaults
<1> HIDE DEF arduMower, nowhere
<1>5. d.general \in [name : Seq(Characters), encryption : BOOLEAN, password : STRING]
  BY <1>1, <1>3 DEF Defaults
<1>6. d.web \in [protected : BOOLEAN, username : STRING, password : STRING]
  BY <1>3 DEF Defaults
<1>7. d.wifi \in [mode : 0 .. 2, sta_ssid : STRING, sta_psk : STRING, ap_ssid : STRING, ap_psk : STRING]
  BY <1>3, <1>4
<1>8. d.bluetooth \in [enabled : BOOLEAN, pin_enabled : BOOLEAN, pin : STRING]
  BY <1>3 DEF Defaults
<1>9. d.mqtt \in [enabled : BOOLEAN, prefix : STRING, server : ServerType,
                  username : STRING, password : STRING, publish_status : BOOLEAN,
                  publish_format : STRING, publish_interval : Nat, ha : BOOLEAN]
  <2>1. nowhere \in ServerType
    BY <1>2 DEF nowhere
  <2> HIDE DEF d
  <2>. QED
    BY <1>3, <1>4, <2>1
<1>10. d.revision \in Nat /\ d.prometheus \in [enabled : BOOLEAN]
  BY DEF Defaults
<1>11. Shaped(d)
  BY DefaultsShaped
<1> HIDE DEF d
<1>12. d \in SettingsType
  BY <1>5, <1>6, <1>7, <1>8, <1>9, <1>10, <1>11 DEF SettingsType, Shaped
<1>. QED
  BY <1>12 DEF d

LEMMA KeptTyped ==
  ASSUME NEW s \in SettingsType
  PROVE  Kept(s) \in SettingsType
<1> DEFINE f == FormatOfName(s.mqtt.publish_format)
<1>1. f \in STRING
  BY NamesTyped
<1>2. Kept(s) = [s EXCEPT !.mqtt = [s.mqtt EXCEPT !.publish_format = f]]
  BY DEF Kept
<1> HIDE DEF f
<1>. QED
  BY <1>1, <1>2 DEF SettingsType

-----------------------------------------------------------------------------

\* The file, when there is one, has all that is looked for.
FileReadable == Len(file) <= 1 /\ (file # <<>> => CanUnmarshal(file[1]))

PagesFit ==
  \A b \in Browsers : original[b] # <<>> =>
    Fits(original[b][1]) /\ Fits(front[b][1]) /\ "revision" \in DOMAIN front[b][1]

SettingsTyped ==
  /\ settings \in SettingsType /\ last \in SettingsType
  /\ ~Free => task[1].new \in SettingsType
  /\ FileReadable
  /\ PagesFit

LEMMA UploadedFits ==
  ASSUME PagesFit, SecretInv, BusyInv, NEW b \in Browsers, pc[b] = "post",
         NEW doc \in Uploaded(b), Acceptable(doc)
  PROVE  Fits(doc)
<1>1. CASE Job(b) = "save"
  <2>1. original[b] # <<>>
    BY <1>1 DEF BusyInv
  <2>2. /\ Groups \subseteq DOMAIN front[b][1] /\ "revision" \in DOMAIN front[b][1]
        /\ Fits(front[b][1]) /\ Fits(original[b][1])
    BY <2>1 DEF PagesFit, SecretInv, Paged
  <2>3. doc = Saved(b)
    BY <1>1 DEF Uploaded
  <2>. QED
    BY <2>2, <2>3, SavedFits
<1>2. CASE doc \in Documents
  BY <1>2, DocumentsAssumption DEF Acceptable
<1>. QED
  BY <1>1, <1>2 DEF Uploaded

LEMMA SettingsTypedStep ==
  SettingsTyped /\ SecretInv /\ SetInv /\ BusyInv /\ TellInv /\ [Next]_vars => SettingsTyped'
<1> SUFFICES ASSUME SettingsTyped, SecretInv, SetInv, BusyInv, TaskOK, [Next]_vars
             PROVE  SettingsTyped'
  BY DEF TellInv
<1>1. CASE UNCHANGED <<modem, original, front>>
  BY <1>1 DEF modem, SettingsTyped, Free, FileReadable, PagesFit
<1>2. ASSUME NEW b, NEW new \in SettingsType, Save(b, new),
             UNCHANGED <<original, front, settings, last>>
      PROVE  SettingsTyped'
  <2>1. task'[1].new = new /\ file' = <<>>
    BY <1>2, HandlerIs DEF Save
  <2>2. FileReadable'
    BY <2>1 DEF FileReadable
  <2>. QED
    BY <1>2, <2>1, <2>2 DEF SettingsTyped, PagesFit
<1>3. ASSUME NEW b, NEW step, NEW new \in SettingsType, task' = Handler(b, step, new),
             UNCHANGED <<original, front, settings>>, last' \in SettingsType, FileReadable'
      PROVE  SettingsTyped'
  BY <1>3, HandlerIs DEF SettingsTyped, PagesFit
<1>4. ASSUME NEW b \in Browsers, Browser(b) PROVE SettingsTyped'
  <2>1. CASE Load(b)
    <3> DEFINE t == fillSecrets(stripSecrets(Marshal(settings)))
    <3>1. Fits(t) /\ "revision" \in DOMAIN t
      BY PageFits DEF SettingsTyped
    <3>2. /\ original' = [original EXCEPT ![b] = <<t>>] /\ front' = [front EXCEPT ![b] = <<t>>]
          /\ UNCHANGED <<settings, last, task, file>>
      BY <2>1 DEF Load, modem
    <3> HIDE DEF t
    <3>3. /\ original'[b] = <<t>> /\ front'[b] = <<t>>
          /\ \A c \in Browsers \ {b} : original'[c] = original[c] /\ front'[c] = front[c]
      BY <3>2 DEF SecretInv
    <3>4. original'[b][1] = t /\ front'[b][1] = t
      BY <3>3
    <3>5. PagesFit'
      BY <3>1, <3>3, <3>4 DEF SettingsTyped, PagesFit
    <3>. QED
      BY <3>2, <3>5 DEF SettingsTyped, FileReadable, Free
  <2>2. CASE PostSettings(b)
    <3>1. PICK doc \in Uploaded(b) : Acceptable(doc) /\ Save(b, Unmarshal(settings, doc))
      BY <2>2 DEF PostSettings
    <3>2. Fits(doc)
      BY <2>2, <3>1, UploadedFits DEF PostSettings, GoTo, SettingsTyped
    <3>3. Unmarshal(settings, doc) \in SettingsType
      BY <3>2, UnmarshalTyped DEF SettingsTyped
    <3>. QED
      BY <1>2, <2>2, <3>1, <3>3 DEF PostSettings, page
  <2>3. CASE PostReset(b)
    BY <1>2, <2>3, DefaultsTyped DEF PostReset, page
  <2>4. CASE PostPairings(b)
    <3>1. task' = Handler(b, "respond", settings) /\ UNCHANGED <<original, front, settings, last, file>>
      BY <2>4 DEF PostPairings, Handler, page
    <3>. QED
      BY <1>3, <3>1 DEF SettingsTyped, FileReadable
  <2>5. CASE LoadFails(b) \/ Info(b) \/ RequestFails(b)
    BY <1>1, <2>5 DEF LoadFails, Info, RequestFails, page
  <2>6. CASE PostRejected(b) \/ PostFails(b) \/ SeesReboot(b) \/ GivesUp(b)
    BY <1>1, <2>6 DEF PostRejected, PostFails, SeesReboot, GivesUp, page
  <2>7. CASE SendPiece(b) \/ UploadDone(b) \/ UploadBreaks(b)
    BY <1>1, <2>7 DEF SendPiece, UploadDone, UploadBreaks, page
  <2>. QED
    BY <1>4, <2>1, <2>2, <2>3, <2>4, <2>5, <2>6, <2>7 DEF Browser
<1>5. ASSUME NEW b \in Browsers, User(b) PROVE SettingsTyped'
  <2>1. CASE TryAgain(b) \/ StartOther(b) \/ StartScript(b)
    BY <1>1, <2>1 DEF TryAgain, StartOther, StartScript, Begin, page
  <2>2. ASSUME NEW e \in DOMAIN Edits, StartSave(b, e) PROVE SettingsTyped'
    <3> DEFINE h == [front[b][1] EXCEPT ![Edits[e].group] = Edited(@, Edits[e].values)]
    <3>1. /\ 1 \in DOMAIN front[b] /\ Groups \subseteq DOMAIN front[b][1]
          /\ Fits(front[b][1]) /\ "revision" \in DOMAIN front[b][1]
      BY <2>2 DEF StartSave, SecretInv, Paged, SettingsTyped, PagesFit
    <3>2. Fits(h) /\ "revision" \in DOMAIN h
      BY <3>1, EditedFits
    <3>3. /\ front' = [front EXCEPT ![b] = [@ EXCEPT ![1] = h]]
          /\ UNCHANGED <<settings, last, task, file, original>>
      BY <2>2 DEF StartSave, Begin, modem
    <3> HIDE DEF h
    <3>4. front'[b][1] = h /\ \A c \in Browsers \ {b} : front'[c] = front[c]
      BY <3>1, <3>3 DEF SecretInv
    <3>5. PagesFit'
      BY <3>2, <3>3, <3>4 DEF SettingsTyped, PagesFit
    <3>. QED
      BY <3>3, <3>5 DEF SettingsTyped, FileReadable, Free
  <2>. QED
    BY <1>5, <2>1, <2>2 DEF User
<1>6. CASE Write
  <2>1. PICK b, step, new : Handles(b, step, new)
    BY <1>6 DEF TaskOK, Write
  <2>2. task = Handler(b, "write", new) /\ Interrupted /\ task[1].new = new /\ ~Free
    BY <1>6, <2>1, HandlerIs DEF Handles, Write, Interrupted
  <2>3. new \in SettingsType /\ Shaped(new)
    BY <2>2 DEF SettingsTyped, SetInv
  <2>4. task' = Handler(b, "respond", new) /\ file' = <<Marshal(new)>>
    BY <1>6, <2>2, HandlerIs DEF Write
  <2>5. last' \in SettingsType
    <3>1. last' = Kept(new)
      BY <1>6, <2>2 DEF Write, Kept
    <3>. QED
      BY <2>3, <3>1, KeptTyped
  <2>6. FileReadable'
    <3>1. CanUnmarshal(Marshal(new))
      BY <2>3, RoundTrip
    <3>2. Len(file') = 1 /\ file'[1] = Marshal(new)
      BY <2>4
    <3>. QED
      BY <3>1, <3>2 DEF FileReadable
  <2>. QED
    BY <1>3, <1>6, <2>3, <2>4, <2>5, <2>6 DEF Write, page
<1>7. CASE Respond
  <2>1. PICK b, step, new : Handles(b, step, new)
    BY <1>7 DEF TaskOK, Respond
  <2>2. task[1].new = new /\ ~Free /\ task' = Handler(b, "restart", new)
    BY <1>7, <2>1, HandlerIs DEF Handles, Respond
  <2>. QED
    BY <1>3, <1>7, <2>2 DEF Respond, page, SettingsTyped, FileReadable
<1>8. CASE delayedRestart \/ loopRestart \/ Crash
  <2>1. Boot
    BY <1>8 DEF delayedRestart, loopRestart, Crash
  <2>2. settings' \in {Defaults, last} /\ last' \in {Defaults, last}
    BY <2>1 DEF Boot, SetInv, Loaded
  <2>3. Free' /\ UNCHANGED <<original, front, file>>
    BY <2>1 DEF Boot, Free, page
  <2>. QED
    BY <2>2, <2>3, DefaultsTyped DEF SettingsTyped, FileReadable, PagesFit
<1>9. CASE Tick \/ UNCHANGED vars
  BY <1>1, <1>9 DEF Tick, vars, page
<1>. QED
  BY <1>4, <1>5, <1>6, <1>7, <1>8, <1>9 DEF Next, WebTask

LEMMA TypeOKHolds ==
  SettingsTyped /\ SetInv /\ BusyInv /\ TellInv /\ UploadTypes /\ RestTypes => TypeOK
<1> SUFFICES ASSUME SettingsTyped, SetInv, BusyInv, TellInv, UploadTypes, RestTypes PROVE TypeOK
  OBVIOUS
<1>1. /\ Len(task) <= 1
      /\ \A i \in DOMAIN task :
           task[i] \in [by : Browsers, step : {"write", "respond", "restart"}, new : SettingsType]
  <2>1. CASE Free
    BY <2>1 DEF Free
  <2>2. CASE ~Free
    <3>1. PICK b, step, new : Handles(b, step, new)
      BY <2>2 DEF TellInv, TaskOK
    <3>2. new \in SettingsType
      BY <2>2, <3>1, HandlerIs DEF Handles, SettingsTyped
    <3> DEFINE h == [by |-> b, step |-> step, new |-> new]
    <3>3. h \in [by : Browsers, step : {"write", "respond", "restart"}, new : SettingsType]
      BY <3>1, <3>2 DEF Handles
    <3>4. task = <<h>>
      BY <3>1 DEF Handles, Handler
    <3> HIDE DEF h
    <3>. QED
      BY <3>3, <3>4
  <2>. QED
    BY <2>1, <2>2
<1>2. settings \in SettingsType /\ last \in SettingsType /\ atBoot \in SettingsType
  BY DEF SettingsTyped, SetInv
<1>. QED
  BY <1>1, <1>2, UploadsTyped
  DEF TypeOK, SettingsTyped, FileReadable, BusyInv, UploadTypes, RestTypes, ShownTo, Fates

\* Variables keep their types whatever is edited, uploaded and interrupted: in
\* particular the file, when it is not empty, has all the keys that unmarshal
\* insists on, and every mode has a name (settings.cpp:149, 167).
THEOREM TypeCorrect == Spec => []TypeOK
<1>1. Init => SettingsTyped /\ UploadTypes /\ RestTypes
  <2> SUFFICES ASSUME Init PROVE SettingsTyped /\ UploadTypes /\ RestTypes
    OBVIOUS
  <2>1. SettingsTyped
    BY DefaultsTyped DEF Init, SettingsTyped, FileReadable, PagesFit, Free
  <2>2. session \in [Browsers -> Sessions]
    BY SessionsAre DEF Init, OtaInit
  <2>3. UploadTypes
    <3>1. sent \in [Browsers -> 0 .. Chunks]
      BY ChunksAssumption DEF Init
    <3>2. updating \in Updates /\ staged \in Pieces
      BY DEF Init, OtaInit, Updates, Pieces
    <3>. QED
      BY <2>2, <3>1, <3>2 DEF Init, OtaInit, UploadTypes
  <2>4. crashes \in Nat /\ faults \in Nat
    BY ScenariosAssumption DEF Init
  <2>5. RestTypes
    BY <2>4, MaxUptimeAssumption DEF Init, RestTypes, ShownTo, Fates
  <2>. QED
    BY <2>1, <2>3, <2>5
<1>. QED
  BY <1>1, SettingsTypedStep, UploadStep, RestStep, TypeOKHolds,
     SecretAlways, SetAlways, BusyAlways, TellAlways, PTL DEF Spec

-----------------------------------------------------------------------------
(* What is saved of a page.                                                *)

LEMMA MembersOfDefaults == \A g \in Groups : DOMAIN Defaults[g] = DOMAIN Members[g]
<1> DEFINE d == Defaults
<1>1. Shaped(d)
  BY DefaultsShaped
<1> HIDE DEF d
<1>2. /\ DOMAIN d.general = DOMAIN Members.general /\ DOMAIN d.web = DOMAIN Members.web
      /\ DOMAIN d.wifi = DOMAIN Members.wifi /\ DOMAIN d.bluetooth = DOMAIN Members.bluetooth
      /\ DOMAIN d.prometheus = DOMAIN Members.prometheus
  BY <1>1, MembersAre DEF Shaped
<1>3. DOMAIN d.mqtt = DOMAIN Members.mqtt
  BY <1>1, MembersAre DEF Shaped
<1>4. \A g \in Groups : DOMAIN d[g] = DOMAIN Members[g]
  BY <1>2, <1>3 DEF Groups
<1>. QED
  BY <1>4 DEF d

\* what the modem takes of member k of a document's group
TakenFrom(old, o, k) ==
  IF k \in SecretKeys THEN Secret(old, o, k)
  ELSE IF k = "mode" THEN ModeOfName(o[k])
  ELSE IF k = "publish_format" THEN FormatOfName(o[k]) ELSE o[k]

LEMMA MemberTaken ==
  ASSUME NEW s, NEW o, Shaped(s), NEW g \in Groups, NEW k \in DOMAIN Members[g]
  PROVE  Unmarshal(s, o)[g][k] = TakenFrom(s[g], o[g], k)
<1> DEFINE u == Unmarshal(s, o)
<1>1. /\ u.general = UnmarshalGeneral(s.general, o.general)
      /\ u.web = UnmarshalWeb(s.web, o.web)
      /\ u.wifi = UnmarshalWiFi(s.wifi, o.wifi)
      /\ u.bluetooth = UnmarshalBluetooth(s.bluetooth, o.bluetooth)
      /\ u.mqtt = UnmarshalMqtt(s.mqtt, o.mqtt)
      /\ u.prometheus = [enabled |-> o.prometheus.enabled]
  BY DEF Unmarshal
<1> HIDE DEF u
<1>2. CASE g = "general"
  <2>1. u[g][k] = TakenFrom(s[g], o[g], k)
    BY <1>1, <1>2, MembersAre, SecretKeysAre DEF TakenFrom, UnmarshalGeneral
  <2>. QED
    BY <2>1 DEF u
<1>3. CASE g = "web"
  <2>1. u[g][k] = TakenFrom(s[g], o[g], k)
    BY <1>1, <1>3, MembersAre, SecretKeysAre DEF TakenFrom, UnmarshalWeb
  <2>. QED
    BY <2>1 DEF u
<1>4. CASE g = "wifi"
  <2>1. u[g][k] = TakenFrom(s[g], o[g], k)
    BY <1>1, <1>4, MembersAre, SecretKeysAre DEF TakenFrom, UnmarshalWiFi
  <2>. QED
    BY <2>1 DEF u
<1>5. CASE g = "bluetooth"
  <2>1. u[g][k] = TakenFrom(s[g], o[g], k)
    BY <1>1, <1>5, MembersAre, SecretKeysAre DEF TakenFrom, UnmarshalBluetooth
  <2>. QED
    BY <2>1 DEF u
<1>6. CASE g = "mqtt"
  <2>1. /\ u.mqtt.enabled = o.mqtt.enabled /\ u.mqtt.prefix = o.mqtt.prefix
        /\ u.mqtt.server = o.mqtt.server /\ u.mqtt.username = o.mqtt.username
        /\ u.mqtt.password = Secret(s.mqtt, o.mqtt, "password")
        /\ u.mqtt.publish_status = o.mqtt.publish_status
        /\ u.mqtt.publish_format = FormatOfName(o.mqtt.publish_format)
        /\ u.mqtt.publish_interval = o.mqtt.publish_interval /\ u.mqtt.ha = o.mqtt.ha
    BY <1>1 DEF UnmarshalMqtt, Shaped
  <2>2. k \in {"enabled", "prefix", "server", "username", "password", "publish_status",
               "publish_format", "publish_interval", "ha"}
    BY <1>6, MembersAre
  <2>3. u[g][k] = TakenFrom(s[g], o[g], k)
    BY <1>6, <2>1, <2>2, SecretKeysAre DEF TakenFrom
  <2>. QED
    BY <2>3 DEF u
<1>7. CASE g = "prometheus"
  <2>1. u[g][k] = TakenFrom(s[g], o[g], k)
    BY <1>1, <1>7, MembersAre, SecretKeysAre DEF TakenFrom
  <2>. QED
    BY <2>1 DEF u
<1>. QED
  BY <1>2, <1>3, <1>4, <1>5, <1>6, <1>7 DEF Groups

\* A member in the document that is written.
LEMMA MemberWritten ==
  ASSUME NEW s, Shaped(s), NEW g \in Groups, NEW k \in DOMAIN Members[g]
  PROVE  Marshal(s)[g][k] = IF k = "mode" THEN ModeName[s[g][k]] ELSE s[g][k]
<1> DEFINE m == Marshal(s)
<1>1. /\ m.general = s.general /\ m.web = s.web /\ m.wifi = MarshalWiFi(s.wifi)
      /\ m.bluetooth = s.bluetooth /\ m.mqtt = s.mqtt /\ m.prometheus = s.prometheus
  BY DEF Shaped, Marshal
<1> HIDE DEF m
<1>2. CASE g = "wifi"
  <2>1. \A j \in DOMAIN Members.wifi : m.wifi[j] = IF j = "mode" THEN ModeName[s.wifi[j]] ELSE s.wifi[j]
    BY <1>1, MembersAre DEF MarshalWiFi, Shaped
  <2>. QED
    BY <1>2, <2>1 DEF m
<1>3. CASE g # "wifi"
  <2>1. m[g] = s[g]
    BY <1>1, <1>3 DEF Groups
  <2>2. k # "mode"
    BY <1>3, MembersAre DEF Groups
  <2>. QED
    BY <2>1, <2>2 DEF m
<1>. QED
  BY <1>2, <1>3

\* what becomes of member k of a page
LEMMA MemberSaved ==
  ASSUME NEW s, Shaped(s), NEW g \in Groups, NEW k \in DOMAIN Members[g], NEW doc,
         NEW f, NEW o, doc[g] = stripFiller(f, o), k \in DOMAIN f,
         k \in SecretKeys => HasOf[k] \in DOMAIN f
  PROVE  Marshal(Unmarshal(s, doc))[g][k] =
           IF k \in SecretKeys /\ f[k] = o[k] THEN s[g][k] ELSE Meant(k, f[k])
<1> DEFINE u == Unmarshal(s, doc)
<1>1. u[g][k] = TakenFrom(s[g], doc[g], k)
  BY MemberTaken
<1>2. Marshal(u)[g][k] = IF k = "mode" THEN ModeName[u[g][k]] ELSE u[g][k]
  BY UnmarshalShaped, MemberWritten
<1> HIDE DEF u
<1>3. CASE k \in SecretKeys
  <2>1. TakenFrom(s[g], doc[g], k) = IF f[k] # o[k] THEN f[k] ELSE s[g][k]
    BY <1>3, TakenFromPage DEF TakenFrom
  <2>2. k # "mode" /\ k # "publish_format"
    BY <1>3, SecretKeysAre
  <2>3. Marshal(u)[g][k] = IF k \in SecretKeys /\ f[k] = o[k] THEN s[g][k] ELSE Meant(k, f[k])
    BY <1>1, <1>2, <1>3, <2>1, <2>2 DEF Meant
  <2>. QED
    BY <2>3 DEF u
<1>4. CASE k \notin SecretKeys
  <2>1. doc[g][k] = f[k]
    BY NoMemberTells DEF stripFiller
  <2>2. /\ u[g][k] = IF k = "mode" THEN ModeOfName(f[k])
                     ELSE IF k = "publish_format" THEN FormatOfName(f[k]) ELSE f[k]
    BY <1>1, <1>4, <2>1 DEF TakenFrom
  <2>3. Marshal(u)[g][k] = Meant(k, f[k])
    BY <1>2, <2>2 DEF Meant
  <2>. QED
    BY <1>4, <2>3 DEF u
<1>. QED
  BY <1>3, <1>4

\* Only the handler for settings posts a page.
LEMMA SavesAreHandled ==
  ASSUME BusyInv, [Next]_vars, NEW b \in Browsers, GoTo(b, "post", "posted"), Job(b) = "save"
  PROVE  PostSettings(b)
<1>1. pc[b] = "post" /\ pc'[b] = "posted" /\ pc' # pc
  BY DEF GoTo, BusyInv
<1>2. ASSUME NEW c, NEW from, NEW to, GoTo(c, from, to) PROVE c = b /\ to = "posted"
  <2>1. pc' = [pc EXCEPT ![c] = to] /\ DOMAIN pc = Browsers
    BY <1>2 DEF GoTo, BusyInv
  <2>. QED
    BY <1>1, <2>1
<1>3. ASSUME NEW c, NEW told, Ends(c, told) PROVE FALSE
  <2>1. pc' = [pc EXCEPT ![c] = "idle"] /\ DOMAIN pc = Browsers
    BY <1>3 DEF Ends, BusyInv
  <2>. QED
    BY <1>1, <2>1
<1>4. ~Boot
  <2>1. ASSUME Boot PROVE FALSE
    <3>1. pc'[b] = IF Hanging(b) THEN "idle" ELSE pc[b]
      BY <2>1 DEF Boot
    <3>. QED
      BY <1>1, <3>1
  <2>. QED
    BY <2>1
<1>5. ASSUME NEW c \in Browsers, Browser(c) PROVE PostSettings(c) /\ c = b
  <2>1. ~(Load(c) \/ LoadFails(c))
    <3>1. Load(c) \/ LoadFails(c) => GoTo(c, "load", "idle") \/ Ends(c, shown[c])
      BY Zenon DEF Load, LoadFails
    <3>. QED
      BY <1>2, <1>3, <3>1
  <2>. QED
    BY <1>1, <1>2, <1>3, <1>5, <2>1
    DEF Browser, Info, RequestFails, PostSettings, PostRejected, PostFails, PostReset, PostPairings,
        SeesReboot, GivesUp, SendPiece, UploadDone, UploadBreaks
<1>6. ASSUME NEW c \in Browsers, User(c) PROVE FALSE
  BY <1>2, <1>6 DEF User, TryAgain, StartOther, StartScript, StartSave, Begin
<1>7. ~WebTask
  <2>1. ~Respond
    BY <1>1, <1>2, <1>3 DEF Respond
  <2>. QED
    BY <1>1, <1>4, <2>1 DEF WebTask, Write, delayedRestart
<1>8. ~(loopRestart \/ Crash \/ Tick \/ UNCHANGED vars)
  BY <1>1, <1>4 DEF loopRestart, Crash, Tick, vars
<1>. QED
  BY <1>5, <1>6, <1>7, <1>8 DEF Next

LEMMA PageSavedStep ==
  ASSUME SetInv, SecretInv, BusyInv, PagesFit, NEW b \in Browsers, PostSettings(b), Job(b) = "save"
  PROVE  \A g \in Groups : \A k \in DOMAIN Defaults[g] :
           LET x == front[b][1][g][k] IN
           Marshal(task'[1].new)[g][k] =
             IF k \in SecretKeys /\ x = original[b][1][g][k] THEN settings[g][k] ELSE Meant(k, x)
<1> DEFINE f == front[b][1]
<1> DEFINE o == original[b][1]
<1>1. task'[1].new = Unmarshal(settings, Saved(b))
  BY DEF PostSettings, Uploaded, Save
<1>2. original[b] # <<>>
  BY DEF BusyInv, PostSettings, GoTo
<1>3. Paged(f, o) /\ Fits(f)
  BY <1>2 DEF SecretInv, PagesFit
<1>4. \A g \in Groups : Saved(b)[g] = stripFiller(f[g], o[g])
  <2> DEFINE t == stripFillers(f, o)
  <2>1. /\ DOMAIN t = DOMAIN f /\ Groups \subseteq DOMAIN t
        /\ \A g \in Groups : t[g] = stripFiller(f[g], o[g])
    BY <1>3 DEF Paged, stripFillers
  <2>2. Saved(b) = [t EXCEPT !.revision = o.revision + 1]
    BY DEF Saved
  <2>3. "revision" \notin Groups
    BY DEF Groups
  <2> HIDE DEF t, f, o
  <2>. QED
    BY <2>1, <2>2, <2>3
<1> HIDE DEF f, o
<1>5. ASSUME NEW g \in Groups, NEW k \in DOMAIN Defaults[g]
      PROVE  Marshal(Unmarshal(settings, Saved(b)))[g][k] =
               IF k \in SecretKeys /\ f[g][k] = o[g][k] THEN settings[g][k] ELSE Meant(k, f[g][k])
  <2>1. k \in DOMAIN Members[g]
    BY MembersOfDefaults
  <2>2. k \in DOMAIN f[g] /\ (k \in SecretKeys => HasOf[k] \in DOMAIN f[g])
    <3>1. k \in SecretKeys => k \in Secrets(g)
      BY DEF Secrets
    <3>. QED
      BY <1>3, <2>1, <3>1 DEF Paged, Fits
  <2>. QED
    BY <1>4, <2>1, <2>2, MemberSaved DEF SetInv
<1>. QED
  BY <1>1, <1>5 DEF f, o

\* However long ago a page was loaded, and whatever others have saved since, its
\* user gets what he sees, and the secrets he did not touch stay those that the
\* modem has now (service.ts:167, settings.cpp:62).
THEOREM PagesAreSaved == Spec => PageIsSaved
<1>1. Init => SettingsTyped
  <2> SUFFICES ASSUME Init PROVE SettingsTyped
    OBVIOUS
  <2>. QED
    BY DefaultsTyped DEF Init, SettingsTyped, FileReadable, PagesFit, Free
<1>2. SetInv /\ SecretInv /\ BusyInv /\ SettingsTyped /\ [Next]_vars =>
        [\A b \in Browsers : SavesThePage(b)]_vars
  <2> SUFFICES ASSUME SetInv, SecretInv, BusyInv, SettingsTyped, [Next]_vars, NEW b \in Browsers
               PROVE  SavesThePage(b)
    OBVIOUS
  <2>1. CASE GoTo(b, "post", "posted") /\ Job(b) = "save"
    <3>1. PostSettings(b)
      BY <2>1, SavesAreHandled
    <3>. QED
      BY <2>1, <3>1, PageSavedStep DEF SavesThePage, SettingsTyped
  <2>2. CASE ~(GoTo(b, "post", "posted") /\ Job(b) = "save")
    BY <2>2 DEF SavesThePage
  <2>. QED
    BY <2>1, <2>2
<1>. QED
  BY <1>1, <1>2, SettingsTypedStep, SecretAlways, SetAlways, BusyAlways, TellAlways, PTL
  DEF Spec, PageIsSaved

-----------------------------------------------------------------------------
(* What comes back from the file.                                          *)

\* All settings that can be saved are found again by unmarshal, whatever was in
\* memory before, and are what they were, but for the publish format: its number
\* is written and its name is read (settings.cpp:138, 167).
THEOREM SettingsComeBack ==
  \A s, d \in SettingsType :
    CanUnmarshal(Marshal(s)) /\ Unmarshal(d, Marshal(s)) = Kept(s)
<1>1. \A s \in SettingsType : Shaped(s)
  <2> TAKE s \in SettingsType
  <2>1. s = [revision |-> s.revision, general |-> s.general, web |-> s.web, wifi |-> s.wifi,
             bluetooth |-> s.bluetooth, mqtt |-> s.mqtt, prometheus |-> s.prometheus]
    BY DEF SettingsType
  <2>2. /\ s.general \in [name : Seq(Characters), encryption : BOOLEAN, password : STRING]
        /\ s.web \in [protected : BOOLEAN, username : STRING, password : STRING]
        /\ s.wifi \in [mode : 0 .. 2, sta_ssid : STRING, sta_psk : STRING, ap_ssid : STRING, ap_psk : STRING]
        /\ s.bluetooth \in [enabled : BOOLEAN, pin_enabled : BOOLEAN, pin : STRING]
        /\ s.mqtt \in [enabled : BOOLEAN, prefix : STRING, server : ServerType,
                       username : STRING, password : STRING, publish_status : BOOLEAN,
                       publish_format : STRING, publish_interval : Nat, ha : BOOLEAN]
        /\ s.prometheus \in [enabled : BOOLEAN]
    BY DEF SettingsType
  <2>. QED
    BY <2>1, <2>2 DEF Shaped
<1>. QED
  BY <1>1, RoundTrip
=============================================================================
