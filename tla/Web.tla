--------------------------------- MODULE Web ---------------------------------
(***************************************************************************)
(* The web API of the modem (ui_adapter.cpp, http_common.cpp), the         *)
(* settings in memory and in the file, the firmware update, and the web    *)
(* front end in the browsers of several users (service.ts, backend.ts,     *)
(* firmware/service.ts).                                                   *)
(*                                                                         *)
(* The web server's task runs one handler at a time, and the one that      *)
(* saves ends in a restart.  The loop task restarts after an update, the   *)
(* power may fail, a request or its response may get lost.                 *)
(***************************************************************************)
EXTENDS Settings, Ota

CONSTANTS
  Edits,       \* what a user may change: names to [group, values]
  Documents,   \* what a client other than the front end may upload
  Scenarios,   \* the jobs of each browser and what may fail
  MaxUptime    \* bound: later is as good as MaxUptime

Uploads == {"upload", "upload no firmware"}
Jobs == {"save", "reset", "pairings", "script"} \union Uploads

ASSUME ScenariosAssumption ==
  Scenarios \subseteq [jobs : [Browsers -> Seq(Jobs)], crashes : Nat, faults : Nat]
ASSUME MaxUptimeAssumption == MaxUptime \in Nat
\* The page lets users change what is there, to what may stand there.
ASSUME EditsAssumption ==
  \A e \in DOMAIN Edits : LET edit == Edits[e] IN
    /\ edit.group \in Groups
    /\ DOMAIN edit.values \subseteq DOMAIN Members[edit.group]
    /\ \A k \in DOMAIN edit.values : edit.values[k] \in Members[edit.group][k]
\* Nobody leaves out keys the modem does not look for.
ASSUME DocumentsAssumption == \A doc \in Documents : CanUnmarshal(doc) => Fits(doc)

VARIABLES
  settings,   \* in memory
  file,       \* the document in the settings file, if there is a readable one
  uptime,     \* millis(), as /api/modem/info tells it
  task,       \* the handler the web task is in: none or [by, step, new]
  pc,         \* of each browser
  jobs,       \* what its user is at, and will do after that
  original,   \* the settings as loaded, and as edited (FrontendSettings)
  front,
  knows,      \* the password its user logs in with
  before,     \* uptime before the request
  sent,       \* pieces of the file sent
  shown,      \* what the user was told last
  fate,       \* history: what has come of the request
  last,       \* history: the settings saved last
  atBoot,     \* history: the same, when the modem started
  crashes,    \* bounds: what may yet fail
  faults

modem   == <<settings, file, task, last, atBoot>>
page    == <<original, front, knows>>
request == <<before, sent, fate>>
vars    == <<modem, uptime, pc, jobs, page, request, shown, crashes, faults, otaVars>>

Job(b) == IF jobs[b] = <<>> THEN "none" ELSE Head(jobs[b])
Free == task = <<>>

\* Common::auth
auth(b) ==
  \/ ~settings.web.protected
  \/ settings.web.username = NoText \/ settings.web.password = NoText
  \/ knows[b] = settings.web.password

Init ==
  /\ settings = Defaults
  /\ file = <<>>
  /\ uptime = 0
  /\ task = <<>>
  /\ \E s \in Scenarios : jobs = s.jobs /\ crashes = s.crashes /\ faults = s.faults
  /\ pc = [b \in Browsers |-> IF jobs[b] = <<>> THEN "idle" ELSE "load"]
  /\ original = [b \in Browsers |-> <<>>]
  /\ front = [b \in Browsers |-> <<>>]
  /\ knows = [b \in Browsers |-> NoText]
  /\ before = [b \in Browsers |-> 0]
  /\ sent = [b \in Browsers |-> 0]
  /\ shown = [b \in Browsers |-> "nothing"]
  /\ fate = [b \in Browsers |-> "none"]
  /\ last = Defaults
  /\ atBoot = Defaults
  /\ OtaInit

GoTo(b, from, to) == pc[b] = from /\ pc' = [pc EXCEPT ![b] = to]

\* The job of b ends and the user is told.
Ends(b, told) ==
  /\ pc' = [pc EXCEPT ![b] = "idle"]
  /\ jobs' = [jobs EXCEPT ![b] = Tail(@)]
  /\ shown' = [shown EXCEPT ![b] = told]

Fault == faults > 0 /\ faults' = faults - 1

\* A request is lost, or waits for a web task that is about to restart.
Unanswered == IF Free THEN Fault ELSE UNCHANGED faults

-----------------------------------------------------------------------------
(* The page                                                                *)

\* load, at first and after a successful save
Load(b) ==
  /\ pc[b] \in {"load", "reload"}
  /\ Free /\ auth(b)
  /\ LET doc == <<fillSecrets(stripSecrets(Marshal(settings)))>> IN
       /\ original' = [original EXCEPT ![b] = doc]
       /\ front' = [front EXCEPT ![b] = doc]
  /\ IF pc[b] = "load" THEN GoTo(b, "load", "idle") /\ UNCHANGED <<jobs, shown>>
                       ELSE Ends(b, shown[b])
  /\ UNCHANGED <<modem, uptime, knows, request, crashes, faults, otaVars>>

LoadFails(b) ==
  /\ pc[b] \in {"load", "reload"}
  /\ \/ Free /\ ~auth(b) /\ UNCHANGED faults
     \/ Unanswered
  /\ IF pc[b] = "load" THEN GoTo(b, "load", "idle") /\ UNCHANGED <<jobs, shown>>
                       ELSE Ends(b, shown[b])
  /\ UNCHANGED <<modem, uptime, page, request, crashes, otaVars>>

\* Unable to load Modem settings: try again
TryAgain(b) ==
  /\ GoTo(b, "idle", "load")
  /\ original[b] = <<>> /\ jobs[b] # <<>>
  /\ UNCHANGED <<modem, uptime, jobs, page, request, shown, crashes, faults, otaVars>>

Begin(b, to) ==
  /\ GoTo(b, "idle", to)
  /\ shown' = [shown EXCEPT ![b] = "nothing"]
  /\ fate' = [fate EXCEPT ![b] = "none"]
  /\ sent' = [sent EXCEPT ![b] = 0]
  /\ UNCHANGED <<modem, uptime, jobs, before, crashes, faults, otaVars>>

\* e sets k of group g
Sets(e, g, k) == Edits[e].group = g /\ k \in DOMAIN Edits[e].values

Edited(g, values) == [k \in DOMAIN g |-> IF k \in DOMAIN values THEN values[k] ELSE g[k]]

\* The user edits and saves.  Who sets the password knows it.
StartSave(b, e) ==
  /\ Job(b) = "save" /\ original[b] # <<>>
  /\ front' = [front EXCEPT ![b][1][Edits[e].group] = Edited(@, Edits[e].values)]
  /\ knows' = IF Sets(e, "web", "password")
              THEN [knows EXCEPT ![b] = Edits[e].values.password] ELSE knows
  /\ Begin(b, "info")
  /\ UNCHANGED original

\* of the firmware dialog, or of the Bluetooth settings
StartOther(b) ==
  /\ Job(b) \in Uploads \union {"pairings"} /\ original[b] # <<>>
  /\ Begin(b, "info")
  /\ UNCHANGED page

\* not from the page
StartScript(b) ==
  /\ Job(b) \in {"reset", "script"}
  /\ Begin(b, "post")
  /\ UNCHANGED page

\* info, which needs no authentication
Info(b) ==
  /\ GoTo(b, "info", IF Job(b) \in Uploads THEN "upload" ELSE "post")
  /\ Free
  /\ before' = [before EXCEPT ![b] = uptime]
  /\ UNCHANGED <<modem, uptime, jobs, page, sent, fate, shown, crashes, faults, otaVars>>

RequestFails(b) ==
  /\ pc[b] \in {"info", "post"}
  /\ Unanswered
  /\ Ends(b, "error")
  /\ UNCHANGED <<modem, uptime, page, request, crashes, otaVars>>

-----------------------------------------------------------------------------
(* Requests that end in a restart                                          *)

\* SettingsServiceClass.save
Saved(b) ==
  [stripFillers(front[b][1], original[b][1]) EXCEPT !.revision = original[b][1].revision + 1]

Uploaded(b) == IF Job(b) = "save" THEN {Saved(b)} ELSE IF Job(b) = "script" THEN Documents ELSE {}

Acceptable(doc) == CanUnmarshal(doc) /\ Valid(Unmarshal(settings, doc))

\* save opens the file, which empties it.
Save(b, new) ==
  /\ file' = <<>>
  /\ task' = <<[by |-> b, step |-> "write", new |-> new]>>

PostSettings(b) ==
  /\ GoTo(b, "post", "posted")
  /\ Free /\ auth(b)
  /\ \E doc \in Uploaded(b) : Acceptable(doc) /\ Save(b, Unmarshal(settings, doc))
  /\ UNCHANGED <<settings, last, atBoot, uptime, jobs, page, request, shown, crashes, faults, otaVars>>

\* decode, validate or authentication
PostRejected(b) ==
  /\ pc[b] = "post"
  /\ Free
  /\ ~auth(b) \/ \E doc \in Uploaded(b) : ~Acceptable(doc)
  /\ Ends(b, "error")
  /\ UNCHANGED <<modem, uptime, page, request, crashes, faults, otaVars>>

\* The file cannot be opened.
PostFails(b) ==
  /\ pc[b] = "post"
  /\ Free /\ auth(b)
  /\ Job(b) = "reset" \/ \E doc \in Uploaded(b) : Acceptable(doc)
  /\ Fault
  /\ Ends(b, "error")
  /\ UNCHANGED <<modem, uptime, page, request, crashes, otaVars>>

PostReset(b) ==
  /\ GoTo(b, "post", "posted")
  /\ Free /\ auth(b)
  /\ Job(b) = "reset"
  /\ Save(b, Defaults)
  /\ UNCHANGED <<settings, last, atBoot, uptime, jobs, page, request, shown, crashes, faults, otaVars>>

PostPairings(b) ==
  /\ GoTo(b, "post", "posted")
  /\ Free /\ auth(b)
  /\ Job(b) = "pairings"
  /\ task' = <<[by |-> b, step |-> "respond", new |-> settings]>>
  /\ fate' = [fate EXCEPT ![b] = "done"]
  /\ UNCHANGED <<settings, file, last, atBoot, uptime, jobs, page, before, sent, shown,
                 crashes, faults, otaVars>>

\* serializeJson and close
Write ==
  /\ ~Free /\ task[1].step = "write"
  /\ file' = <<Marshal(task[1].new)>>
  /\ task' = <<[task[1] EXCEPT !.step = "respond"]>>
  /\ last' = [task[1].new EXCEPT !.mqtt.publish_format = FormatOfName(@)]
  /\ fate' = [fate EXCEPT ![task[1].by] = "done"]
  /\ UNCHANGED <<settings, atBoot, uptime, pc, jobs, page, before, sent, shown,
                 crashes, faults, otaVars>>

\* The front end waits for the restart, a script does not.
Respond ==
  LET b == task[1].by IN
  /\ ~Free /\ task[1].step = "respond"
  /\ task' = <<[task[1] EXCEPT !.step = "restart"]>>
  /\ \/ /\ Job(b) \in {"reset", "script"}
        /\ Ends(b, "nothing")
        /\ UNCHANGED faults
     \/ /\ Job(b) \in {"save", "pairings"}
        /\ GoTo(b, "posted", "await")
        /\ UNCHANGED <<jobs, shown, faults>>
     \/ Fault /\ Ends(b, "error")
  /\ UNCHANGED <<settings, file, last, atBoot, uptime, page, request, crashes, otaVars>>

-----------------------------------------------------------------------------
(* Restarts                                                                *)

\* Settings::begin
Loaded == IF file # <<>> /\ CanUnmarshal(file[1]) THEN Unmarshal(Defaults, file[1]) ELSE Defaults

\* whose requests the restart ends
Hanging(b) == pc[b] = "posted" \/ (pc[b] = "upload" /\ sent[b] > 0)

\* A restart between the opening of the file and its end loses the settings.
Interrupted == ~Free /\ task[1].step = "write"

Boot ==
  /\ settings' = Loaded
  /\ atBoot' = IF Interrupted THEN Defaults ELSE last
  /\ last' = atBoot'
  /\ uptime' = 0
  /\ task' = <<>>
  /\ pc' = [b \in Browsers |-> IF Hanging(b) THEN "idle" ELSE pc[b]]
  /\ jobs' = [b \in Browsers |-> IF Hanging(b) THEN Tail(jobs[b]) ELSE jobs[b]]
  /\ shown' = [b \in Browsers |-> IF Hanging(b) THEN "error" ELSE shown[b]]
  /\ fate' = [b \in Browsers |->
                IF fate[b] = "installed" THEN (IF Starts(b) THEN "running" ELSE "lost")
                ELSE IF fate[b] = "done" THEN "running" ELSE fate[b]]
  /\ OtaBoot
  /\ UNCHANGED <<file, page, before, sent>>

\* Mutant of delayedRestart: the handler is done, and somebody else restarts.
delayedRestartLater ==
  /\ ~Free /\ task[1].step = "restart"
  /\ task' = <<>>
  /\ restart' = TRUE
  /\ UNCHANGED <<settings, file, last, atBoot, uptime, pc, jobs, page, request, shown, crashes, faults,
                 session, updating, staged, bootStaged, brokenOff>>

\* The web task waits, and restarts the modem.
delayedRestart ==
  /\ ~Free /\ task[1].step = "restart"
  /\ Boot
  /\ UNCHANGED <<crashes, faults>>

\* of the loop task, a second after an update: whatever the web task is at
loopRestart == restart /\ Boot /\ UNCHANGED <<crashes, faults>>

Crash ==
  /\ crashes > 0
  /\ crashes' = crashes - 1
  /\ Boot
  /\ UNCHANGED faults

Tick ==
  /\ uptime < MaxUptime
  /\ uptime' = uptime + 1
  /\ UNCHANGED <<modem, pc, jobs, page, request, shown, crashes, faults, otaVars>>

-----------------------------------------------------------------------------
(* Waiting for the restart                                                 *)

\* modemReboot also asks for the status, makeRebootAwaiter does not.  The page
\* is loaded again.
SeesReboot(b) ==
  /\ pc[b] = "await"
  /\ Free
  /\ uptime < before[b]
  /\ Job(b) \in Uploads \/ auth(b)
  /\ IF Job(b) = "save"
     THEN /\ GoTo(b, "await", "reload")
          /\ shown' = [shown EXCEPT ![b] = "success"]
          /\ UNCHANGED jobs
     ELSE Ends(b, "success")
  /\ UNCHANGED <<modem, uptime, page, request, crashes, faults, otaVars>>

\* Mutant of GivesUp: only when a request fails.
GivesUpOnError(b) ==
  /\ pc[b] = "await"
  /\ Fault
  /\ Ends(b, "error")
  /\ UNCHANGED <<modem, uptime, page, request, crashes, otaVars>>

\* after 10 s
GivesUp(b) ==
  /\ pc[b] = "await"
  /\ Ends(b, "error")
  /\ UNCHANGED <<modem, uptime, page, request, crashes, faults, otaVars>>

-----------------------------------------------------------------------------
(* Upload of firmware                                                      *)

SendPiece(b) ==
  /\ pc[b] = "upload" /\ sent[b] < Chunks
  /\ Free
  /\ handleUpload(b, sent[b] + 1, auth(b), Job(b) = "upload")
  /\ sent' = [sent EXCEPT ![b] = @ + 1]
  /\ fate' = IF Succeeded(b)' THEN [fate EXCEPT ![b] = "installed"] ELSE fate
  /\ UNCHANGED <<modem, uptime, pc, jobs, page, before, shown, crashes, faults>>

\* handleUploadRequest: all of the file has come.
UploadDone(b) ==
  /\ pc[b] = "upload" /\ sent[b] = Chunks
  /\ Free
  /\ respond(b)
  /\ IF Succeeded(b) THEN GoTo(b, "upload", "await") /\ UNCHANGED <<jobs, shown>>
                     ELSE Ends(b, "error")
  /\ UNCHANGED <<modem, uptime, page, request, crashes, faults>>

UploadBreaks(b) ==
  /\ pc[b] = "upload" /\ sent[b] > 0
  /\ Fault
  /\ Disconnect(b)
  /\ Ends(b, "error")
  /\ UNCHANGED <<modem, uptime, page, request, crashes>>

-----------------------------------------------------------------------------

Browser(b) ==
  \/ Load(b) \/ LoadFails(b)
  \/ Info(b) \/ RequestFails(b)
  \/ PostSettings(b) \/ PostRejected(b) \/ PostFails(b) \/ PostReset(b) \/ PostPairings(b)
  \/ SeesReboot(b) \/ GivesUp(b)
  \/ SendPiece(b) \/ UploadDone(b) \/ UploadBreaks(b)

User(b) == TryAgain(b) \/ StartOther(b) \/ StartScript(b) \/ \E e \in DOMAIN Edits : StartSave(b, e)

WebTask == Write \/ Respond \/ delayedRestart

Next ==
  \/ \E b \in Browsers : Browser(b) \/ User(b)
  \/ WebTask \/ loopRestart \/ Crash \/ Tick

\* The tasks of the modem go on, and a browser goes on with what it is at; users
\* need not do anything.
Fairness ==
  /\ WF_vars(WebTask)
  /\ WF_vars(loopRestart)
  /\ \A b \in Browsers : WF_vars(Browser(b))

Spec == Init /\ [][Next]_vars /\ Fairness

-----------------------------------------------------------------------------
(* Properties                                                              *)

Pcs == {"load", "reload", "idle", "info", "post", "posted", "await", "upload"}

\* Settings, file and handlers are of their types.
TypeOK ==
  /\ settings \in SettingsType /\ last \in SettingsType /\ atBoot \in SettingsType
  /\ Len(file) <= 1 /\ (file # <<>> => CanUnmarshal(file[1]))
  /\ Len(task) <= 1
  /\ \A i \in DOMAIN task :
       task[i] \in [by : Browsers, step : {"write", "respond", "restart"}, new : SettingsType]
  /\ uptime \in 0 .. MaxUptime
  /\ pc \in [Browsers -> Pcs]
  /\ jobs \in [Browsers -> Seq(Jobs)]
  /\ before \in [Browsers -> 0 .. MaxUptime]
  /\ sent \in [Browsers -> 0 .. Chunks]
  /\ shown \in [Browsers -> {"nothing", "error", "success"}]
  /\ fate \in [Browsers -> {"none", "done", "installed", "running", "lost"}]
  /\ crashes \in Nat /\ faults \in Nat
  /\ OtaTypeOK

\* The modem runs the settings that were saved last before it started, save
\* for the publish format, or the defaults if a restart fell into their
\* saving; nothing else changes them, no rejected upload either.
SettingsSurvive == settings = atBoot

\* The settings in memory leave a way in: with protection nobody gets in
\* without the password, the station has what it needs to connect, the access
\* point has a name (ui_adapter.cpp:139, http_common.cpp:12, wifi_adapter.cpp:157).
SettingsUsable ==
  /\ settings.web.protected => settings.web.username # NoText /\ settings.web.password # NoText
  /\ settings.wifi.mode = 1 => staSettingsValid(settings.wifi)
  /\ settings.wifi.mode # 1 => settings.wifi.ap_ssid # NoText /\ settings.wifi.ap_psk # NoText
  /\ settings.general.name # <<>>

\* what users have made of k of group g, on the page or in a document of their own
Typed(g, k) ==
  {Edits[e].values[k] : e \in {e \in DOMAIN Edits : Sets(e, g, k)}}
    \union {doc[g][k] : doc \in {d \in Documents : g \in DOMAIN d /\ k \in DOMAIN d[g]}}

\* No secret leaves the modem, and none is replaced by the text that stands for
\* it on the page: what the modem holds is its default or what a user has typed
\* (settings.cpp:532, service.ts:167).
SecretsKept ==
  \A g \in Groups : \A k \in DOMAIN Defaults[g] \intersect SecretKeys :
    /\ settings[g][k] \in {Defaults[g][k]} \union Typed(g, k)
    /\ \A b \in Browsers : original[b] # <<>> => original[b][1][g][k] \in {NoText, secretFiller}

\* what the modem makes of member k of a page, in its documents
Meant(k, x) ==
  CASE k = "mode" -> ModeName[ModeOfName(x)] [] k = "publish_format" -> FormatOfName(x) [] OTHER -> x

\* The modem saves what the page says, however long ago it was loaded; only the
\* secrets that the user left alone are those of the modem as it is now
\* (service.ts:167, settings.cpp:62).
SavesThePage(b) ==
  GoTo(b, "post", "posted") /\ Job(b) = "save" =>
    \A g \in Groups : \A k \in DOMAIN Defaults[g] :
      LET x == front[b][1][g][k] IN
      Marshal(task'[1].new)[g][k] =
        IF k \in SecretKeys /\ x = original[b][1][g][k] THEN settings[g][k] ELSE Meant(k, x)
PageIsSaved == [][\A b \in Browsers : SavesThePage(b)]_vars

\* Who was told that his settings are saved, or the pairings reset, is told the
\* truth: the modem has restarted since.  Who was told that his firmware is
\* installed may have been told before the restart that is due, or his upload
\* was overwritten by another before it (service.ts:126, firmware/service.ts:109).
SuccessIsTrue ==
  \A b \in Browsers : shown[b] = "success" =>
    \/ fate[b] = "running"
    \/ fate[b] = "installed" /\ restart
    \/ fate[b] = "lost"

\* Update is held by a session or waits for a client that has gone; whoever is
\* refused for that reason frees it (ota_http_server.cpp:133).
UpdateIsHeld == updating # "no" => brokenOff \/ \E b \in Browsers : session[b] # <<>>

Busy(b) == pc[b] # "idle"

\* The front end does not stay busy: it loads, is told of success or an error,
\* or gives up (backend.ts:26).
BusyEnds == \A b \in Browsers : Busy(b) ~> ~Busy(b)
=============================================================================
