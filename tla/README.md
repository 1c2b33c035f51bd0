# TLA+ models of the nps overlay library and the npc-gui frontend

This directory holds TLA+ models of the JavaScript in this repository. They are
checked with TLC:

```
cd tla
tlc -workers 2 -config MCMsgToast.cfg MCMsgOverlay
```

`PROJECT.json` lists every run, the property it checks, the expected outcome,
the mutants, the source lines each definition models, and the hazards.

## 1. Inventory

The repository has three source files.

| File | What it is |
|---|---|
| `src/web/static/js/msg.js` | `msg`, a dependency-free overlay library. It provides toasts (`success`, `failure`, `info`), `loading`, `close`, `popups`, `confirm`, `alert` and `input`. |
| `src/cmd/npc-gui/frontend/src/main.js` | The npc-gui desktop frontend. It renders the configuration list, the edit form and the log view, and it calls the Go backend through Wails promises. |
| `src/cmd/npc-gui/frontend/wailsjs/go/models.ts` | The generated `NPCConfig` class, which copies fields from the backend. |

### 1.1 msg.js: the overlay library

**State**
* `msg.currentWindowsId` (line 16). This is the ticket of the toast that may
  auto-close. `0` means no toast.
* The document body. `show` mounts at most one `div#wangmarket_loading`.
  `popups` adds a `div#wangmarket_popups` for each call.
* Pending `setTimeout` callbacks from `delayClose` (lines 90-98). Each one
  holds its `cid` and the caller's `func`.
* `window.msg.confirm[name]`. This registry of button handlers is filled by
  `confirm` (line 328). Nothing ever removes an entry.
* The input field `#msg_input_id` and the button `#msg_input_enterButtonId_<ms>`
  of an `input` dialog.

**Operations**
* `close` (61-79) sets `currentWindowsId` to 0. It removes the *first*
  `#wangmarket_loading` and the *first* `#wangmarket_popups`, because it finds
  them with `getElementById`.
* `show` (105-129) calls `close` and then appends one loading div. If there is
  no body, it shows a native alert instead.
* `success`, `failure` and `info` (23-44) call `show`. They then call
  `delayClose` with 1500, 2500 and 2500 ms.
* `delayClose` (85-99) draws a random `cid` and stores it in
  `currentWindowsId`. It then schedules a timer. When the timer fires, it calls
  `close` only if the ticket still equals `cid`. It calls `func`
  unconditionally.
* `loading` (55-57) calls `show` only, so the ticket stays 0.
* `popups` (149-267) fills in default options and **appends** a dialog. It does
  not close the overlay that is already mounted, and it does not touch the
  ticket. It then centres the dialog from measured sizes (238-262).
* `confirm` (292-345) registers `key_<Date.getTime()>` handlers that call
  `msg.close()` and then the bound callback. It then calls `popups`. The
  object literal defines `confirm` twice (48 and 292), so the native-confirm
  wrapper at line 48 is dead code.
* `alert` (347-354) is `confirm` with a single "确定" button.
* `input` (362-390) builds a popup with a fixed field id and a timestamped
  button id. It fetches both with `getElementById`. The click handler reads
  the field, calls `close`, and calls `okFunc(value)`.

**Interactions.** Callers call the API synchronously. Timers fire later, on
the same event loop. The user clicks buttons of mounted dialogs and types into
fields. Every callback runs to completion. The races are between these event
sources, never between threads.

**What is hard**
* A toast's timer races with later calls. The ticket guard is the only
  protection.
* `popups`, `confirm` and `input` neither close the current overlay nor
  invalidate the ticket.
* `close` removes the first match by id. With stacked dialogs, that can be
  the wrong dialog.
* Random tickets and millisecond timestamps can collide.
* Registry entries are never released.

### 1.2 main.js: the npc-gui view controller

**State.** `currentConfigs`, `currentView` ('list' or 'logs'), `editingConfig`,
`logInterval`, and the rendered `#content`, which is the list, the form or the
logs.

**Operations.** `switchView`, `showConfigForm`, `editConfig`,
`cancelConfigForm`, `submitConfigForm`, `deleteConfig`, `toggleClient`,
`clearLogsView`, `loadConfigs`, `updateLogs`, and the 2 s log poller.

**Interactions.** Each backend call is a promise. Its continuation runs later
and re-renders. `toggleClient` schedules `loadConfigs` after 500 ms and an
alert after 1000 ms.

**What is hard**
* Promise continuations resolve in any order. The last `ListConfigs` to
  resolve wins, not the last one sent.
* A continuation re-renders the list even though the view changed after the
  request (326-329, 371-373).
* The form is shown while `currentView` is still 'list', so a late
  `loadConfigs` replaces the form.
* Nothing disables Save while `saveConfig` is pending. Pressing Save twice on
  one form sends two saves (326).
* `toggleClient`'s 1000 ms alert reports the toggle, even if the client was
  deleted or toggled again in the meantime (351).
* `toggleClient` reads `isActive` from the list as rendered. A second press
  before the 500 ms reload repeats the toggle (346).
* A rejected `ListConfigs` is only logged, with no retry (374). A `null` log
  reply throws inside the `.then` and is swallowed (252).

### 1.3 Not modelled
* `escapeHtml` (main.js 390-395) is a pure DOM text conversion with no state.
* `models.ts` is generated code with no behaviour beyond copying fields. NpcGui
  keeps only a configuration's id and `isActive` (`Status`).
* The Go backend (`App`) is not in this repository. NpcGui models it as an
  environment. It executes each call atomically, may reject a call, and
  answers calls either in call order or in any order.
* The form's field values and the `serverAddr` port completion (main.js
  303-324). The completion tests only for a ':', so a bare IPv6 address gets
  no port. This is listed as a hazard. A unit test suits it better than a
  model checker. No property depends on field contents, so a configuration is only
  its id and status.
* The native `alert()` and `confirm()` block the page while open. In the
  model, a `confirm` is the user's yes, and an alert leaves no state.
* Markup, styles and icons. Only the element ids, the buttons and the close
  button matter to any property.

### 1.4 What makes each component correct

**The toast core**
* At most one overlay is shown.
* While a toast is mounted, the ticket is the one its own timer holds.
* A timer closes only its own toast.
* Every toast is eventually dismissed.
* Every `onClose` continuation runs, even for a superseded toast (spec §4.2).
* The core implements the abstract OverlayManager of spec §4.1.

**Dialogs**
* A dialog's button invokes that dialog's callback.
* Handlers are released when their dialog unmounts.
* The OK button of an `input` dialog submits that dialog's own field.
* A toast timer never removes a dialog.

**The frontend**
* The rendered content agrees with `currentView`.
* An open form is never replaced by a background refresh.
* Once every request has resolved, `currentConfigs` is the backend's latest
  list.
* A submit saves the configuration the shown form edits.
* One form creates at most one configuration.
* On the Logs view, the shown logs eventually catch up with the backend.

## 2. Plan

1. **`MsgOverlay`** (done). This is the whole state machine of `msg.js`. It
   covers toasts, loading, `close`, timers, `popups`, `confirm`, `alert`,
   `input`, button and close-button clicks, typing, and a body that may appear
   late. The constant `Ops` selects which API calls the page makes.
   **`MCMsgOverlay`** instantiates it.
2. **`OverlayManager`** (done). This is the abstract promise of spec §4.1/§4.2:
   a single slot, a ticket, and pending auto-dismiss tasks with
   `closeIfCurrent`. `MsgOverlay` refines it in the toast-only configuration.
3. **`MsgLayout`** (done). The centring algorithm (238-262) and the option
   defaults (163-214) are written as operators. The run checks that the
   placed-axis test and the default-filling agree. The centring arithmetic
   itself is not checked. spec.md §4.3 gives the same formula as the code,
   so there is no independent reference to check it against. msg.js's own
   doc comment (lines 137-138: top 30%, left 5% by default) disagrees with
   both, because the code centres.
4. **`NpcGui`** (done). It models `main.js`:
   * the views and the form;
   * the backend calls, as a sequence of in-flight requests that the backend
     executes and answers, in order or not;
   * the 500 ms and 1000 ms timers of `toggleClient`;
   * log polling.

   **`MCNpcGui`** instantiates it.
5. **`ConfigCache`** (done). This is the abstract promise of the
   configuration list. It is a read cache of the backend's table:
   * a read takes a snapshot;
   * snapshots are applied in the order they were taken;
   * the cache changes in no other way.

   NpcGui refines it when the backend answers in call order. A "screen shows
   the chosen view" abstraction was not written. `ContentMatchesView` and
   `FormKeptUntilLeft` already show that the code does not keep that promise.

## 3. The modules as built

### MsgOverlay (`MsgOverlay.tla`)

**State**

| Variable | Models |
|---|---|
| `body` | A sequence of mounted overlay elements in document order. Each element is a record with `id`, a `kind` for the markup variant, `gen` (the API call that created it), `closeBtn`, `buttons` (registry handle names), `field` (the input value), `enterId` (the stamp in the button id) and `onok` (the call whose handler was attached). |
| `currentWindowsId` | `msg.currentWindowsId`. |
| `timers` | Pending `delayClose` callbacks, each with its `cid`, due time, `func` presence and `gen`. |
| `now`, `stamp` | Time in units of `Granule` ms, and the value `new Date().getTime()` returns. |
| `registry` | `window.msg.confirm`. It maps a handle `<<label, stamp>>` to the callback bound to it. |
| `hasBody` | Whether `document.body` exists. |
| `calls` | The number of API calls made. It bounds the model and numbers the elements. |
| `invoked` | A history of the caller callbacks that ran. |

**Actions.** There is one action per public function (`Toast(kind, func)`
covers `success`, `failure` and `info`). Timer firing, `Tick`, the user's
clicks and typing, and `BodyReady` are actions too.

**Fairness.** `TimerFire` and `Tick` are weakly fair: the browser runs a due
`setTimeout` callback. Callers and users have no fairness.

The runs are in PROJECT.json. Section 4 explains them.

### OverlayManager (`OverlayManager.tla`)

This is the abstract specification of the toast core. It has a slot (`shown`),
the live `ticket`, the set of `pending` closeIfCurrent tasks and the ids whose
continuation has `fired`. `MsgOverlay` maps onto it as follows:
* `shown` is `body # <<>>`.
* `ticket` is `currentWindowsId`.
* A pending task is a timer.
* `fired` is the set of `onClose` calls in `invoked`.

### MsgLayout (`MsgLayout.tla`)

This module holds the placement arithmetic of `popups` as operators:
* `Normalise` is the default-filling at lines 187-214.
* `SetLeftPosition` and `SetTopPosition` (163-168) decide whether an axis is
  placed.
* `FirstTruthy` is JavaScript's `a || b || c`.
* `LeftTwice` and `TopTwice` give the offsets of 238-262, doubled so that they
  stay integers.

The one variable ranges over every case in the bounded sets.

### NpcGui (`NpcGui.tla`)

**State**

| Variable | Models |
|---|---|
| `currentConfigs`, `currentView`, `editingConfig` | The variables of main.js 16-18. `editingConfig` is stored as an id. |
| `page` | What `#content` holds. |
| `listShown` | The list as rendered, with its buttons. |
| `formOf`, `formGen` | The form as rendered: which configuration it edits, and the form's generation. |
| `logsShown` | The log version in `#logs-content`. |
| `version` | Whether `#version` shows the version. |
| `started` | Whether `DOMContentLoaded` has run. |
| `calls` | Backend calls in flight. Each one is sent, then executed by the backend, then settled. |
| `timers` | The pending `setTimeout` callbacks. |
| `db`, `logVer`, `logEmpty`, `made` | The backend: each id's status, the log version, and which form created which configuration. |

**Actions**
* There is one action per handler: `Start`, `SwitchView`, `ShowConfigForm`,
  `EditConfig`, `CancelConfigForm`, `SubmitConfigForm`, `DeleteConfig`,
  `ToggleClient`, `ClearLogsView`, `PollTick`, `TimerFire`.
* `Resolve(i)` runs the continuation of call `i` (`ListConfigsThen`,
  `SaveConfigThen`, and so on). A continuation does everything its `.then`
  does, including the trailing `loadConfigs()` or `renderConfigList()`.
* `Exec(i)` and `LogWritten` are the backend.

**Constants and bounds**
* `UserOps` selects the handlers the user may trigger.
* `MaxClicks` bounds the number of user actions.
* `MaxInFlight`, `MaxTimers`, `MaxLogVer` and `MaxForms` bound the calls in
  flight, the pending timers, the log changes and the forms opened.
* `FifoReplies` chooses ordered or unordered replies.
* `FailOps` lists the calls that may reject.
* `NilOps` lists the calls whose empty reply may be `null`.

**Refinement.** `CC == INSTANCE ConfigCache WITH ...` maps the abstract
variables onto NpcGui's state:

| ConfigCache | NpcGui |
|---|---|
| `store` | `db` |
| `cache` | `currentConfigs` |
| `reads` | `ReadsInFlight`: the results of the answered, successful `ListConfigs` calls, in call order |

The steps correspond as follows:

| NpcGui step | ConfigCache step |
|---|---|
| The backend executing a `ListConfigs` | `Read` |
| A backend change | `Write` |
| `ListConfigsThen` | `Apply` |
| Everything else | A stutter |

`ImplementsConfigCache == CC!Spec` includes `WF(Apply)`.

**Fairness.** The following are weakly fair:
* the page load;
* the backend executing a call;
* the event loop running a settled continuation;
* the 2 s interval.

A due `setTimeout` callback is strongly fair. A reload timer issues a call,
so the model's `MaxInFlight` bound can disable it while the poller keeps
the bound full. The browser has no such bound, and the bound frees up each
time a call settles. Weak fairness would let the poller starve the timer,
which the real page cannot do.

The user and the client's log output owe nothing.

## 4. Runs and what they show

All runs use `Granule = 500` ms. The toast delays are therefore 3 and 5 ticks.

**Passing runs**

* `toast_core` (`MCMsgToast.cfg`)
  * Scope: toasts, `loading` and `close`. Cids are {0,1,2,3} with unique draws.
    Up to 3 calls are made. The body may be absent at first.
  * Checks: `TypeOK`, `SingleOverlay`, `ToastTicketIsLive`,
    `TimerClosesOnlyOwnOverlay`, `ToastEventuallyDismissed`,
    `ContinuationFires`, and refinement of `OverlayManager`.
  * Why 3 calls are enough: this bound lets a toast be superseded by a second
    toast while its timer is pending, and then closed by a third call. These
    are the orders the ticket guard exists for.
* `library` (`MCMsgLibrary.cfg`)
  * Scope: toasts with `popups`, `confirm`, `alert` and `input`, plus clicks,
    typing and close buttons.
  * Checks: `ToastTicketIsLive` only. This is a safety run; liveness over this
    larger space takes too long.
* `layout` (`MCMsgLayout.cfg`)
  * Scope: every option form, with sizes {0,6,9} and {0,6,11}. These sizes
    include the zero fall-through and dialogs both smaller and taller than the
    viewport.
  * Checks: `VerticallyPlaced`. Every dialog gets a vertical position,
    either centred by the code or placed by its options after
    default-filling. (`bottom: ''` breaks this; see `empty_bottom`.)

* `gui_any_order` (`MCNpcGui.cfg`)
  * Scope: every handler, one configuration id, up to 4 user actions and 3
    calls in flight. Replies may come in any order. The mutating calls may
    reject, and `ListConfigs` may answer `null`.
  * Checks: `TypeOK` and `SubmitEditsShownForm`. A submit saves the
    configuration the shown form edits, even when an earlier save settles
    while another form is open.
  * Checks: `LogsEventuallyFresh`. While the user stays on Logs, the poller
    eventually shows the backend's log.
* `gui_in_order` (`MCNpcGuiFifo.cfg`)
  * Scope: two ids, with the backend answering in call order. There is no
    symmetry reduction, because the run checks liveness.
  * Checks: `QuiescentConfigsFresh`. Once every call has settled and no timer
    is pending, `currentConfigs` is what the backend holds.
  * Checks: `ConfigsEventuallyConsistent`, the "always eventually
    consistent" requirement of a cache. However the user goes on (the Logs
    poller may keep calls in flight for ever), the list always comes back to
    the backend's state. This is the 500 ms reload of a toggle and the
    reload after a save or delete doing their work.
  * Checks: `ImplementsConfigCache`. The list changes only to a backend
    answer, and answers are applied in the order they were given. A mutant
    that drops a deleted configuration from the list before the reload
    answers breaks it. With replies in any order
    (`MCNpcGuiCacheOrder.cfg`), the refinement fails as well.

**Violation runs.** Each one is a disagreement between the code and spec.md,
or a code bug. They are listed in PROJECT.json "findings".
* `stacked_popups`: `popups` stacks dialogs (spec §8 "at most one overlay").
* `toast_timer_closes_dialog`: a toast timer removes a dialog opened later,
  because `popups` does not invalidate the ticket (msg.js:91).
* `handle_collision`: same-millisecond handle names collide (spec §4.4).
* `empty_bottom`: `bottom: ""` suppresses centring and is then turned into
  `auto` (msg.js:166, 194).
* `save_renders_list_in_logs`: a save that settles after the user opened Logs
  renders the list under the Logs view (main.js:329).
* `form_clobbered`: the page-load `loadConfigs` settles after the user opened
  Add New, and replaces the form (main.js:371).
* `double_submit`: pressing Save twice on one Add New form creates two
  configurations (main.js:326).

**Further counterexamples.** Each of these cfgs shows a property failing in
the code. They are not in the PROJECT.json run list, which is kept to the
deeper questions. The hazards that name them say so.

| Cfg | Property that fails | What happens |
|---|---|---|
| `MCMsgHandleLeak.cfg` | `HandlesReleased` | Handles in `window.msg.confirm` are never released (spec §3 c). |
| `MCMsgCidCollision.cfg` | `TimerClosesOnlyOwnOverlay` | A `Math.random` ticket repeats a live one (spec §3 b). |
| `MCMsgInputField.cfg` | `InputSubmitsOwnField` | An `input` dialog submits another dialog's field. |
| `MCMsgCentre.cfg` | `PlacedAsRequested` | Centring moves the first dialog in the document (msg.js:236). |
| `MCNpcGuiOrder.cfg` | `QuiescentConfigsFresh` | An older `ListConfigs` reply lands last. |
| `MCNpcGuiCacheOrder.cfg` | `ImplementsConfigCache` | An older `ListConfigs` answer is applied after a newer one. |
| `MCNpcGuiLogOrder.cfg` | `LogsNeverGoBack` | An older `GetLogs` reply replaces newer logs. |
| `MCNpcGuiAlert.cfg` | `SuccessAlertWhileRunning` | The start alert fires after the client was deleted. |
| `MCNpcGuiDoubleToggle.cfg` | `ToggleMatchesBackend` | A second press of Stop before the 500 ms reload sends StopClient to a stopped client. |
| `MCNpcGuiLostReload.cfg` | `ConfigsEventuallyConsistent` | The reload after a toggle rejects, and the list keeps the old state for good. |
| `MCNpcGuiNilLogs.cfg` | `LogsEventuallyFresh` | An empty log answered as `null` throws at `logs.length`. The view stays on "Loading logs..." after a Clear Logs. |

The two ordering cfgs, and the null and rejected replies, depend on the Wails runtime answering calls
concurrently, which is outside this repository.

**Fairness (msg.js runs).** Only the browser's timers are fair: `FireDue` for a due
`setTimeout` callback, and `Tick` for time passing while timers are pending.
The page's calls and the user's clicks have no fairness. `CHECK_DEADLOCK` is
FALSE because a page that makes no more calls really does stop.

**Mutants.** Each property of a passing run is also checked against a mutated
definition that TLC must refute. The mutants are listed in PROJECT.json. They
include:
* `show` without `close`;
* `delayClose` before `show`;
* a timer without the ticket guard;
* `onClose` inside the guard;
* `close` that keeps the ticket;
* the placed-axis test read after defaults;
* `configs` without `|| []`;
* a save continuation that leaves the form on screen;
* a poller that checks the wrong view;
* a delete without a reload;
* a stop that schedules no reload;
* an optimistic delete that edits `currentConfigs` itself.
