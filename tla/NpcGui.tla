-------------------------------- MODULE NpcGui --------------------------------
(***************************************************************************)
(* The npc-gui frontend (src/cmd/npc-gui/frontend/src/main.js): the view   *)
(* state, what #content shows, and the Wails backend calls.  A call is a   *)
(* request that the Go side executes (reading or changing its state) and  *)
(* whose promise later resolves or rejects; the continuation then runs on *)
(* the event loop.  FifoReplies says whether calls are executed and        *)
(* resolved in the order they were made.  Configurations are abstracted   *)
(* to their id and status; logs to a version that every change bumps.     *)
(***************************************************************************)
EXTENDS Integers, Sequences, SequencesExt, FiniteSets

CONSTANTS
  Ids,          \* configuration ids the backend can hand out
  Null,         \* JavaScript null
  FifoReplies,  \* the backend executes and answers calls in call order
  FailOps,      \* backend calls that may reject
  NilOps,       \* calls whose empty Go slice may arrive as null
  MaxInFlight,  \* bound: backend calls outstanding at once
  MaxTimers,    \* bound: setTimeout callbacks pending at once
  MaxLogVer,    \* bound: changes to the backend log
  MaxForms,     \* bound: configuration forms rendered
  UserOps,      \* the handlers the user may trigger
  MaxClicks     \* bound: user actions taken

VARIABLES
  db,             \* backend: status of each configuration id
  logVer,         \* backend: version of the log, bumped by every change
  logEmpty,       \* backend: the log has no lines
  made,           \* backend: <<form, id>> for each configuration created
  started,        \* DOMContentLoaded has run
  version,        \* #version shows the backend version
  currentConfigs, \* main.js currentConfigs
  currentView,    \* main.js currentView
  editingConfig,  \* id of main.js editingConfig, or Null
  page,           \* what #content holds: none, empty, list, form, logs
  listShown,      \* the configuration list rendered in #content
  formOf,         \* the configuration the rendered form was built from
  formGen,        \* forms rendered so far; identifies the current form
  logsShown,      \* log version rendered in #logs-content; -1 "Loading"
  calls,          \* backend calls in flight, in call order
  timers,         \* pending setTimeout callbacks, in scheduling order
  clicks          \* user actions taken so far

vars == <<db, logVer, logEmpty, made, started, version, currentConfigs,
          currentView, editingConfig, page, listShown, formOf, formGen,
          logsShown, calls, timers, clicks>>
backend == <<db, logVer, logEmpty, made>>
view    == <<page, listShown, formOf, logsShown>>
front   == <<started, version, currentConfigs, currentView, editingConfig,
            formGen>>

Status == {"absent", "stopped", "running"}
Ops == {"GetVersion", "ListConfigs", "SaveConfig", "DeleteConfig",
        "StartClient", "StopClient", "GetLogs", "ClearLogs"}
NoConfigs == [i \in Ids |-> "absent"]
Loading == -1

-----------------------------------------------------------------------------
(* Calls and rendering, shared by the handlers.                            *)

Call(op, id, g) ==
  [op |-> op, id |-> id, gen |-> g, done |-> FALSE, ok |-> TRUE,
   res |-> NoConfigs, nil |-> FALSE, ver |-> 0]
CanCall(n) == Len(calls) + n <= MaxInFlight

\* A handler whose only effect is the backend call c.
CallOnly(c) ==
  /\ CanCall(1) /\ calls' = Append(calls, c)
  /\ UNCHANGED <<backend, front, view, timers>>

\* loadConfigs() / updateLogs(): the call they make.
LoadConfigs == Call("ListConfigs", Null, 0)
UpdateLogs  == Call("GetLogs", Null, 0)

\* renderConfigList / createConfigItem: the list of cfgs with its buttons.
RenderConfigList(cfgs) ==
  /\ page' = "list" /\ listShown' = cfgs
  /\ formOf' = Null /\ logsShown' = Loading
RenderConfigForm(id) ==
  /\ page' = "form" /\ formOf' = id /\ formGen' = formGen + 1
  /\ listShown' = NoConfigs /\ logsShown' = Loading
\* renderLogs(): "Loading logs..." and a GetLogs call.
RenderLogs ==
  /\ page' = "logs" /\ logsShown' = Loading
  /\ listShown' = NoConfigs /\ formOf' = Null

\* A user action: the handler is exercised and the budget not spent.
Click(op) == op \in UserOps /\ clicks < MaxClicks /\ clicks' = clicks + 1

Listed(id) == page = "list" /\ listShown[id] # "absent"

-----------------------------------------------------------------------------
(* Page start and user handlers.                                           *)

\* DOMContentLoaded: renderApp (GetVersion), loadConfigs, startLogPolling.
Start ==
  /\ ~started
  /\ started' = TRUE /\ page' = "empty"
  /\ calls' = calls \o <<Call("GetVersion", Null, 0), LoadConfigs>>
  /\ UNCHANGED <<clicks, backend, version, currentConfigs, currentView,
                 editingConfig, listShown, formOf, formGen, logsShown, timers>>

SwitchView(v) ==
  /\ Click("switchView")
  /\ started
  /\ currentView' = v
  /\ \/ v = "list" /\ RenderConfigList(currentConfigs) /\ UNCHANGED calls
     \/ v = "logs" /\ CanCall(1) /\ RenderLogs
        /\ calls' = Append(calls, UpdateLogs)
  /\ UNCHANGED <<backend, started, version, currentConfigs, editingConfig,
                 formGen, timers>>

ShowConfigForm ==
  /\ Click("showConfigForm")
  /\ page = "list" /\ formGen < MaxForms
  /\ editingConfig' = Null
  /\ RenderConfigForm(Null)
  /\ UNCHANGED <<backend, started, version, currentConfigs, currentView,
                 calls, timers>>

\* editConfig(id): find in currentConfigs, which may be newer than the list.
EditConfig(id) ==
  /\ Click("editConfig")
  /\ Listed(id)
  /\ IF currentConfigs[id] # "absent"
       THEN formGen < MaxForms /\ editingConfig' = id /\ RenderConfigForm(id)
       ELSE editingConfig' = Null
            /\ UNCHANGED <<page, listShown, formOf, formGen, logsShown>>
  /\ UNCHANGED <<backend, started, version, currentConfigs, currentView,
                 calls, timers>>

CancelConfigForm ==
  /\ Click("cancelConfigForm")
  /\ page = "form"
  /\ editingConfig' = Null
  /\ RenderConfigList(currentConfigs)
  /\ UNCHANGED <<backend, started, version, currentConfigs, currentView,
                 formGen, calls, timers>>

\* submitConfigForm: the id comes from editingConfig, not from the form.
SubmitConfigForm ==
  /\ Click("submitConfigForm")
  /\ page = "form"
  /\ CallOnly(Call("SaveConfig", editingConfig, formGen))

\* deleteConfig(id) after the native confirm() was answered yes.
DeleteConfig(id) ==
  /\ Click("deleteConfig")
  /\ Listed(id)
  /\ CallOnly(Call("DeleteConfig", id, 0))

\* toggleClient(id, isActive): isActive as rendered in the list.
TogglesPending == Len(SelectSeq(calls, LAMBDA c :
                    c.op \in {"StartClient", "StopClient"}))
ToggleClient(id) ==
  /\ Click("toggleClient")
  /\ Listed(id)
  /\ Len(timers) + 2 * (TogglesPending + 1) <= MaxTimers
  /\ CallOnly(Call(IF listShown[id] = "running" THEN "StopClient"
                                                  ELSE "StartClient", id, 0))

ClearsPending == Len(SelectSeq(calls, LAMBDA c : c.op = "ClearLogs"))
ClearLogsView ==
  /\ Click("clearLogsView")
  /\ page = "logs" /\ logVer + ClearsPending < MaxLogVer
  /\ CallOnly(Call("ClearLogs", Null, 0))

\* Mutant: the interval polls in the list view instead of the logs view.
PollTick_wrongView ==
  /\ started /\ currentView = "list"
  /\ CallOnly(UpdateLogs) /\ UNCHANGED clicks

\* The 2 s interval of startLogPolling: updateLogs only in the logs view.
PollTick ==
  /\ started /\ currentView = "logs"
  /\ CallOnly(UpdateLogs) /\ UNCHANGED clicks

-----------------------------------------------------------------------------
(* The Go backend (not in this repository): it executes a call atomically. *)

FirstUndone == SelectInSeq(calls, LAMBDA c : ~c.done)
Executable(i) == ~calls[i].done /\ (FifoReplies => i = FirstUndone)

\* A call rejects when it may fail, or names a configuration that is gone;
\* a new configuration needs a free id.
Rejects(c) ==
  \/ c.op \in FailOps
  \/ c.op \in {"SaveConfig", "DeleteConfig", "StartClient", "StopClient"}
     /\ c.id # Null /\ db[c.id] = "absent"
  \/ c.op = "SaveConfig" /\ c.id = Null /\ \A n \in Ids : db[n] # "absent"

\* Outcomes of executing call c: the new backend state and the reply.
Exec(i) ==
  LET c == calls[i]
      Reply(ok, res, nil, ver) ==
        calls' = [calls EXCEPT ![i] = [@ EXCEPT !.done = TRUE, !.ok = ok,
                                        !.res = res, !.nil = nil, !.ver = ver]]
  IN
  /\ Executable(i)
  /\ \/ /\ Rejects(c)
        /\ Reply(FALSE, NoConfigs, FALSE, 0) /\ UNCHANGED backend
     \/ /\ c.op = "GetVersion"
        /\ Reply(TRUE, NoConfigs, FALSE, 0) /\ UNCHANGED backend
     \/ /\ c.op = "ListConfigs"
        /\ \E nil \in IF c.op \in NilOps /\ db = NoConfigs THEN BOOLEAN ELSE {FALSE} :
             Reply(TRUE, db, nil, 0)
        /\ UNCHANGED backend
     \/ /\ c.op = "GetLogs"
        /\ \E nil \in IF c.op \in NilOps /\ logEmpty THEN BOOLEAN ELSE {FALSE} :
             Reply(TRUE, NoConfigs, nil, logVer)
        /\ UNCHANGED backend
     \/ /\ c.op = "SaveConfig" /\ c.id = Null
        /\ \E n \in Ids :
             /\ db[n] = "absent"
             /\ db' = [db EXCEPT ![n] = "stopped"]
             /\ made' = made \cup {<<c.gen, n>>}
        /\ Reply(TRUE, NoConfigs, FALSE, 0) /\ UNCHANGED <<logVer, logEmpty>>
     \/ /\ c.op = "SaveConfig" /\ c.id # Null /\ db[c.id] # "absent"
        /\ Reply(TRUE, NoConfigs, FALSE, 0) /\ UNCHANGED backend
     \/ /\ c.op \in {"DeleteConfig", "StartClient", "StopClient"}
        /\ db[c.id] # "absent"
        /\ db' = [db EXCEPT ![c.id] = CASE c.op = "DeleteConfig" -> "absent"
                                         [] c.op = "StartClient" -> "running"
                                         [] OTHER -> "stopped"]
        /\ Reply(TRUE, NoConfigs, FALSE, 0) /\ UNCHANGED <<logVer, logEmpty, made>>
     \/ /\ c.op = "ClearLogs"
        /\ logVer' = logVer + 1 /\ logEmpty' = TRUE
        /\ Reply(TRUE, NoConfigs, FALSE, 0) /\ UNCHANGED <<db, made>>
  /\ UNCHANGED <<clicks, front, view, timers>>

\* A running client writes to the log.
LogWritten ==
  /\ logVer + ClearsPending < MaxLogVer /\ \E n \in Ids : db[n] = "running"
  /\ logVer' = logVer + 1 /\ logEmpty' = FALSE
  /\ UNCHANGED <<clicks, db, made, front, view, calls, timers>>

-----------------------------------------------------------------------------
(* Promise continuations.  The call is gone from calls when they run.      *)

KeepView == UNCHANGED view

\* renderApp's GetVersion().then: the text of #version.
GetVersionThen(c, rest) ==
  /\ version' = c.ok /\ calls' = rest
  /\ KeepView /\ UNCHANGED <<currentConfigs, editingConfig, formGen, timers>>

\* Mutant: currentConfigs = configs, without the || [] for a null reply.
ListConfigsThen_noDefault(c, rest) ==
  LET cfgs == IF c.nil THEN Null ELSE c.res IN
  /\ calls' = rest
  /\ IF c.ok
       THEN /\ currentConfigs' = cfgs
            /\ IF currentView = "list" THEN RenderConfigList(cfgs) ELSE KeepView
       ELSE UNCHANGED currentConfigs /\ KeepView
  /\ UNCHANGED <<version, editingConfig, formGen, timers>>

\* loadConfigs' ListConfigs().then: configs || []; render only in 'list'.
ListConfigsThen(c, rest) ==
  LET cfgs == IF c.nil THEN NoConfigs ELSE c.res IN
  /\ calls' = rest
  /\ IF c.ok
       THEN /\ currentConfigs' = cfgs
            /\ IF currentView = "list" THEN RenderConfigList(cfgs) ELSE KeepView
       ELSE UNCHANGED currentConfigs /\ KeepView
  /\ UNCHANGED <<version, editingConfig, formGen, timers>>

\* updateLogs' GetLogs().then: only into an existing #logs-content; a null
\* reply throws at logs.length and lands in catch.
GetLogsThen(c, rest) ==
  /\ calls' = rest
  /\ IF c.ok /\ ~c.nil /\ page = "logs"
       THEN logsShown' = c.ver /\ UNCHANGED <<page, listShown, formOf>>
       ELSE KeepView
  /\ UNCHANGED <<version, currentConfigs, editingConfig, formGen, timers>>

\* Mutant: the continuation forgets the edit and reloads, but leaves the
\* form on screen.
SaveConfigThen_noRender(c, rest) ==
  /\ IF c.ok
       THEN /\ editingConfig' = Null
            /\ calls' = Append(rest, LoadConfigs)
            /\ KeepView
       ELSE calls' = rest /\ UNCHANGED editingConfig /\ KeepView
  /\ UNCHANGED <<version, currentConfigs, formGen, timers>>

\* SaveConfig().then: forget the edit, loadConfigs, renderConfigList.
SaveConfigThen(c, rest) ==
  /\ IF c.ok
       THEN /\ editingConfig' = Null
            /\ calls' = Append(rest, LoadConfigs)
            /\ RenderConfigList(currentConfigs)
       ELSE calls' = rest /\ UNCHANGED editingConfig /\ KeepView
  /\ UNCHANGED <<version, currentConfigs, formGen, timers>>

\* Mutant: the list is not reloaded after a delete.
DeleteConfigThen_noReload(c, rest) ==
  /\ calls' = rest
  /\ KeepView
  /\ UNCHANGED <<version, currentConfigs, editingConfig, formGen, timers>>

\* Mutant: the deleted configuration is dropped from the list at once,
\* before the reload answers.
DeleteConfigThen_optimistic(c, rest) ==
  /\ calls' = IF c.ok THEN Append(rest, LoadConfigs) ELSE rest
  /\ currentConfigs' = IF c.ok THEN [currentConfigs EXCEPT ![c.id] = "absent"]
                                ELSE currentConfigs
  /\ KeepView
  /\ UNCHANGED <<version, editingConfig, formGen, timers>>

\* DeleteConfig().then: loadConfigs.
DeleteConfigThen(c, rest) ==
  /\ calls' = IF c.ok THEN Append(rest, LoadConfigs) ELSE rest
  /\ KeepView
  /\ UNCHANGED <<version, currentConfigs, editingConfig, formGen, timers>>

\* Mutant: a stop schedules no reload, only a start does.
ToggleThen_noReload(c, rest) ==
  /\ calls' = rest
  /\ timers' = IF c.ok /\ c.op = "StartClient"
                 THEN timers \o <<[kind |-> "reload", id |-> c.id],
                                  [kind |-> "alert", id |-> c.id]>>
                 ELSE timers
  /\ KeepView
  /\ UNCHANGED <<version, currentConfigs, editingConfig, formGen>>

\* StartClient/StopClient().then: loadConfigs in 500 ms; after a start,
\* the "connection successful" alert in 1000 ms.
ToggleThen(c, rest) ==
  /\ calls' = rest
  /\ timers' = IF ~c.ok THEN timers
               ELSE IF c.op = "StartClient"
                 THEN timers \o <<[kind |-> "reload", id |-> c.id],
                                  [kind |-> "alert", id |-> c.id]>>
                 ELSE Append(timers, [kind |-> "reload", id |-> c.id])
  /\ KeepView
  /\ UNCHANGED <<version, currentConfigs, editingConfig, formGen>>

\* ClearLogs().then: updateLogs.
ClearLogsThen(c, rest) ==
  /\ calls' = IF c.ok THEN Append(rest, UpdateLogs) ELSE rest
  /\ KeepView
  /\ UNCHANGED <<version, currentConfigs, editingConfig, formGen, timers>>

Resolvable(i) == calls[i].done /\ (FifoReplies => i = 1)

\* A promise settles and its continuation runs to completion.
Resolve(i) ==
  LET c == calls[i]
      rest == RemoveAt(calls, i) IN
  /\ Resolvable(i)
  /\ \/ c.op = "GetVersion" /\ GetVersionThen(c, rest)
     \/ c.op = "ListConfigs" /\ ListConfigsThen(c, rest)
     \/ c.op = "GetLogs" /\ GetLogsThen(c, rest)
     \/ c.op = "SaveConfig" /\ SaveConfigThen(c, rest)
     \/ c.op = "DeleteConfig" /\ DeleteConfigThen(c, rest)
     \/ c.op \in {"StartClient", "StopClient"} /\ ToggleThen(c, rest)
     \/ c.op = "ClearLogs" /\ ClearLogsThen(c, rest)
  /\ UNCHANGED <<clicks, backend, started, currentView>>

\* A setTimeout callback of toggleClient runs; the 1000 ms alert of a start
\* never runs before the 500 ms reload scheduled with it.
TimerFire(j) ==
  LET t == timers[j] IN
  /\ t.kind = "alert" =>
       ~\E k \in 1..j-1 : timers[k] = [kind |-> "reload", id |-> t.id]
  /\ t.kind = "reload" => CanCall(1)
  /\ timers' = RemoveAt(timers, j)
  /\ calls' = IF t.kind = "reload" THEN Append(calls, LoadConfigs) ELSE calls
  /\ UNCHANGED <<clicks, backend, front, view>>

-----------------------------------------------------------------------------
\* main.js lines 16-19 before DOMContentLoaded; the backend in any state.
Init ==
  /\ db \in [Ids -> Status] /\ logVer = 0 /\ logEmpty \in BOOLEAN
  /\ made = {}
  /\ started = FALSE /\ version = FALSE
  /\ currentConfigs = NoConfigs /\ currentView = "list"
  /\ editingConfig = Null
  /\ page = "none" /\ listShown = NoConfigs /\ formOf = Null /\ formGen = 0
  /\ logsShown = Loading
  /\ calls = <<>> /\ timers = <<>> /\ clicks = 0

Next ==
  \/ Start
  \/ \E v \in {"list", "logs"} : SwitchView(v)
  \/ ShowConfigForm \/ CancelConfigForm \/ SubmitConfigForm
  \/ \E id \in Ids : EditConfig(id)
  \/ \E id \in Ids : DeleteConfig(id)
  \/ \E id \in Ids : ToggleClient(id)
  \/ ClearLogsView \/ PollTick
  \/ \E i \in DOMAIN calls : Exec(i)
  \/ \E i \in DOMAIN calls : Resolve(i)
  \/ \E j \in DOMAIN timers : TimerFire(j)
  \/ LogWritten

(***************************************************************************)
(* The page loads; the backend answers every call; the event loop runs     *)
(* every settled continuation and due timer; setInterval keeps firing.     *)
(* The user and the client's log output owe nothing.  A due reload timer  *)
(* is disabled only while the model's MaxInFlight bound is full (the      *)
(* browser has no such bound), and the bound frees up again and again as  *)
(* calls settle, so timers get strong fairness.                           *)
(***************************************************************************)
Fairness ==
  /\ WF_vars(Start)
  /\ WF_vars(\E i \in DOMAIN calls : Exec(i))
  /\ WF_vars(\E i \in DOMAIN calls : Resolve(i))
  /\ SF_vars(\E j \in DOMAIN timers : TimerFire(j))
  /\ WF_vars(PollTick)

Spec == Init /\ [][Next]_vars /\ Fairness

-----------------------------------------------------------------------------
Request == [op : Ops, id : Ids \cup {Null}, gen : 0..MaxForms,
            done : BOOLEAN, ok : BOOLEAN, res : [Ids -> Status],
            nil : BOOLEAN, ver : 0..MaxLogVer]

TypeOK ==
  /\ db \in [Ids -> Status] /\ logVer \in 0..MaxLogVer
  /\ made \subseteq (1..MaxForms) \X Ids
  /\ currentConfigs \in [Ids -> Status] /\ listShown \in [Ids -> Status]
  /\ currentView \in {"list", "logs"}
  /\ editingConfig \in Ids \cup {Null} /\ formOf \in Ids \cup {Null}
  /\ page \in {"none", "empty", "list", "form", "logs"}
  /\ logsShown \in {Loading} \cup 0..MaxLogVer
  /\ calls \in Seq(Request) /\ Len(calls) <= MaxInFlight
  /\ \A j \in DOMAIN timers :
       timers[j] \in [kind : {"reload", "alert"}, id : Ids]

(***************************************************************************)
(* A submit saves the configuration the shown form was opened for: while  *)
(* a form is shown, editingConfig (which submitConfigForm sends as the    *)
(* id) is the one the form was rendered from, whatever earlier saves      *)
(* settle in between (SaveConfig().then clears editingConfig and must     *)
(* re-render the list with it).                                            *)
(***************************************************************************)
SubmitEditsShownForm == page = "form" => editingConfig = formOf

(***************************************************************************)
(* Once every backend call has settled and no toggleClient timer is       *)
(* pending, currentConfigs is what the backend holds: every change is     *)
(* followed by a loadConfigs whose reply is the latest one applied.       *)
(***************************************************************************)
QuiescentConfigsFresh ==
  (started /\ calls = <<>> /\ timers = <<>>) => currentConfigs = db

(***************************************************************************)
(* The configuration list is always eventually consistent with the        *)
(* backend: whatever the user changed, the loadConfigs that each change's *)
(* continuation or 500 ms timer issues eventually lands, and no older     *)
(* ListConfigs reply lands after it.                                       *)
(***************************************************************************)
ConfigsEventuallyConsistent == []<>(started /\ currentConfigs = db)

(***************************************************************************)
(* The list refines ConfigCache: currentConfigs changes only to a         *)
(* ListConfigs answer, answers are applied in the order the backend gave  *)
(* them, and each answer given is eventually applied.  The snapshots in   *)
(* flight are the answered, successful ListConfigs calls, in call order.  *)
(***************************************************************************)
ReadsInFlight ==
  LET answered == SelectSeq(calls, LAMBDA c :
                    c.op = "ListConfigs" /\ c.done /\ c.ok)
  IN [j \in 1..Len(answered) |-> answered[j].res]

CC == INSTANCE ConfigCache WITH
        Keys <- Ids, Values <- Status, Empty <- NoConfigs,
        store <- db, cache <- currentConfigs, reads <- ReadsInFlight

ImplementsConfigCache == CC!Spec

(***************************************************************************)
(* While the user stays on the logs view and it shows #logs-content, the  *)
(* 2 s poller eventually brings it up to the backend's log.               *)
(***************************************************************************)
LogsEventuallyFresh ==
  (currentView = "logs" /\ page = "logs")
    ~> (currentView # "logs" \/ page # "logs" \/ logsShown = logVer)

(***************************************************************************)
(* #content agrees with currentView: the list or the form only in 'list', *)
(* the logs only in 'logs'.  SaveConfig().then renders the list whatever  *)
(* the view is by then.                                                    *)
(***************************************************************************)
ContentMatchesView ==
  /\ page \in {"list", "form"} => currentView = "list"
  /\ page = "logs" => currentView = "logs"

(***************************************************************************)
(* A shown form is replaced only by the user (Cancel, a nav button) or by *)
(* the completion of that form's own save; a background loadConfigs must  *)
(* not throw away what is being typed.                                     *)
(***************************************************************************)
UserLeftForm == CancelConfigForm \/ \E v \in {"list", "logs"} : SwitchView(v)
OwnSaveDone ==
  \E i \in DOMAIN calls :
    calls[i].op = "SaveConfig" /\ calls[i].gen = formGen /\ Resolve(i)
FormKeptUntilLeft ==
  [][page = "form" /\ page' # "form" => UserLeftForm \/ OwnSaveDone]_vars

(***************************************************************************)
(* One "Add New" form creates at most one configuration, however often    *)
(* its Save button is pressed while SaveConfig is in flight.              *)
(***************************************************************************)
OneConfigPerForm == \A a, b \in made : a[1] = b[1] => a = b

(***************************************************************************)
(* The "Connection successful!" alert of toggleClient is shown only while *)
(* that client is running.                                                 *)
(***************************************************************************)
SuccessAlertWhileRunning ==
  [][\A j \in DOMAIN timers :
       timers[j].kind = "alert" /\ TimerFire(j) => db[timers[j].id] = "running"]_vars

(***************************************************************************)
(* A Start or Stop button acts on the state the backend is in: a          *)
(* StartClient reaches a stopped client and a StopClient a running one.   *)
(* toggleClient takes isActive from the list as rendered, which is only   *)
(* reloaded 500 ms after the previous toggle settled.                     *)
(***************************************************************************)
ToggleMatchesBackend ==
  [][\A i \in DOMAIN calls :
       Exec(i) /\ calls[i].op \in {"StartClient", "StopClient"}
         => db[calls[i].id] = IF calls[i].op = "StartClient" THEN "stopped"
                                                           ELSE "running"]_vars

(***************************************************************************)
(* The log view never goes back to an older log than the one it shows.    *)
(***************************************************************************)
LogsNeverGoBack ==
  [][page = "logs" /\ page' = "logs" /\ logsShown # Loading /\ logsShown' # Loading
       => logsShown' >= logsShown]_vars
=============================================================================
