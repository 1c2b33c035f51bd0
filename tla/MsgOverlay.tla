----------------------------- MODULE MsgOverlay -----------------------------
(***************************************************************************)
(* The overlay library src/web/static/js/msg.js: toasts with a ticketed    *)
(* auto-dismiss timer, loading, close, popups, confirm, alert and input.   *)
(* The document body is a sequence of mounted overlay elements in document *)
(* order; getElementById is "the first element with that id".              *)
(***************************************************************************)
EXTENDS Integers, Sequences, SequencesExt, FiniteSets, TLC

CONSTANTS
  Ops,          \* the msg API calls the embedding page makes
  Labels,       \* button labels of confirm dialogs ("ok" stands for 确定)
  Values,       \* values an input field can hold
  NoValue,      \* a field that is not an input field
  Cids,         \* outcomes of parseInt(Math.random()*100000)
  UniqueCids,   \* TRUE: a drawn cid is never 0 nor a cid still in use
  Granule,      \* milliseconds per unit of model time
  ConfirmArgs,  \* confirm() arguments: [text, buttons, undefinedCb, close]
  MaxCalls      \* bound on the number of API calls

ASSUME Ops \subseteq {"success", "failure", "info", "loading", "close",
                      "popups", "confirm", "alert", "input"}
ASSUME 0 \in Cids /\ Granule \in Nat \ {0} /\ MaxCalls \in Nat

VARIABLES
  body,             \* mounted overlay elements, in document order
  currentWindowsId, \* msg.currentWindowsId
  timers,           \* pending delayClose setTimeout callbacks
  now,              \* time, in units of Granule ms
  stamp,            \* the value new Date().getTime() returns now
  registry,         \* window.msg.confirm: handle name -> bound callback
  hasBody,          \* document.body exists
  calls,            \* API calls made so far; numbers the elements
  invoked           \* history: caller callbacks that have run

vars == <<body, currentWindowsId, timers, now, stamp, registry, hasBody,
          calls, invoked>>

LoadingId == "wangmarket_loading"
PopupsId  == "wangmarket_popups"

\* The delays passed to delayClose by success, failure and info.
Delay == [success |-> 1500 \div Granule, failure |-> 2500 \div Granule,
          info |-> 2500 \div Granule]

\* An overlay element; kind names the markup variant, gen the call that made it.
Elem(id, kind, g) ==
  [id |-> id, kind |-> kind, gen |-> g, closeBtn |-> FALSE, buttons |-> {},
   field |-> NoValue, enterId |-> 0, onok |-> 0, auto |-> FALSE,
   centred |-> FALSE]

IsLoading(e) == e.id = LoadingId
IsPopups(e)  == e.id = PopupsId

\* Mutant: close forgets the loading div and removes only the popups div.
CloseDom_popupsOnly(b) == RemoveFirstMatch(b, IsPopups)

(***************************************************************************)
(* msg.close(): forget the ticket, remove the first loading div and the    *)
(* first popups div found by getElementById.                               *)
(***************************************************************************)
CloseDom(b) == RemoveFirstMatch(RemoveFirstMatch(b, IsLoading), IsPopups)

\* Mutant: show appends without closing what is mounted.
ShowDom_noClose(b, e) == IF hasBody THEN Append(b, e) ELSE b

\* msg.show(text, img): close everything, then mount one loading div if the
\* document has a body (otherwise a native alert, which leaves no state).
ShowDom(b, e) == IF hasBody THEN Append(CloseDom(b), e) ELSE CloseDom(b)

\* The cids Math.random can hand to delayClose in this state.
LiveCids == {currentWindowsId} \cup {t.cid : t \in timers}
\* Mutant: the ticket is taken from the millisecond clock, as the dialog
\* handles are, instead of from Math.random.
FreshCids_fromClock == {stamp * Granule}
FreshCids == IF UniqueCids THEN Cids \ ({0} \cup LiveCids) ELSE Cids

\* Mutant: the timer closure captures a zero ticket instead of cid.
Timer_zeroCid(cid, kind, func, g) ==
  [cid |-> 0, due |-> now + Delay[kind], func |-> func, gen |-> g]

\* The record delayClose(time, func) schedules with setTimeout.
Timer(cid, kind, func, g) ==
  [cid |-> cid, due |-> now + Delay[kind], func |-> func, gen |-> g]

CallAllowed(op) == op \in Ops /\ calls < MaxCalls

(***************************************************************************)
(* success / failure / info (text, func): show, then delayClose.           *)
(***************************************************************************)
\* Mutant: delayClose runs before show, so show's close zeroes the ticket.
ToastBody_delayFirst(kind, func) ==
  /\ \E cid \in FreshCids :
       /\ body' = ShowDom(body, Elem(LoadingId, "toast", calls + 1))
       /\ currentWindowsId' = 0
       /\ timers' = timers \cup {Timer(cid, kind, func, calls + 1)}
  /\ calls' = calls + 1
  /\ UNCHANGED <<now, stamp, registry, hasBody, invoked>>

ToastBody(kind, func) ==
  /\ \E cid \in FreshCids :
       /\ body' = ShowDom(body, Elem(LoadingId, "toast", calls + 1))
       /\ currentWindowsId' = cid
       /\ timers' = timers \cup {Timer(cid, kind, func, calls + 1)}
  /\ calls' = calls + 1
  /\ UNCHANGED <<now, stamp, registry, hasBody, invoked>>

Toast(kind, func) == CallAllowed(kind) /\ ToastBody(kind, func)

\* loading(text): show only; show's close leaves the ticket at 0.
Loading ==
  /\ CallAllowed("loading")
  /\ body' = ShowDom(body, Elem(LoadingId, "loading", calls + 1))
  /\ currentWindowsId' = 0
  /\ calls' = calls + 1
  /\ UNCHANGED <<timers, now, stamp, registry, hasBody, invoked>>

\* Mutant: close removes the overlays but keeps the ticket.
Close_keepTicket ==
  /\ CallAllowed("close")
  /\ body' = CloseDom(body)
  /\ calls' = calls + 1
  /\ UNCHANGED <<currentWindowsId, timers, now, stamp, registry, hasBody,
                 invoked>>

\* msg.close() called by the page.
Close ==
  /\ CallAllowed("close")
  /\ body' = CloseDom(body)
  /\ currentWindowsId' = 0
  /\ calls' = calls + 1
  /\ UNCHANGED <<timers, now, stamp, registry, hasBody, invoked>>

\* Mutant: the ticket comparison is dropped; the timer always closes.
TimerFire_noGuard(t) ==
  /\ t \in timers
  /\ t.due <= now
  /\ body' = CloseDom(body) /\ currentWindowsId' = 0
  /\ invoked' = IF t.func THEN invoked \cup {[gen |-> t.gen, label |-> "onClose",
                                               value |-> NoValue]}
                          ELSE invoked
  /\ timers' = timers \ {t}
  /\ UNCHANGED <<now, stamp, registry, hasBody, calls>>

\* Mutant: func is called only when the ticket matched ("fixing" §4.2).
TimerFire_funcInsideGuard(t) ==
  /\ t \in timers
  /\ t.due <= now
  /\ IF currentWindowsId = t.cid
       THEN /\ body' = CloseDom(body) /\ currentWindowsId' = 0
            /\ invoked' = IF t.func THEN invoked \cup {[gen |-> t.gen,
                             label |-> "onClose", value |-> NoValue]}
                                    ELSE invoked
       ELSE UNCHANGED <<body, currentWindowsId, invoked>>
  /\ timers' = timers \ {t}
  /\ UNCHANGED <<now, stamp, registry, hasBody, calls>>

(***************************************************************************)
(* The setTimeout callback of delayClose: close only if the ticket still   *)
(* matches, then call func whether or not it matched.                      *)
(***************************************************************************)
TimerFire(t) ==
  /\ t \in timers
  /\ t.due <= now
  /\ IF currentWindowsId = t.cid
       THEN body' = CloseDom(body) /\ currentWindowsId' = 0
       ELSE UNCHANGED <<body, currentWindowsId>>
  /\ invoked' = IF t.func THEN invoked \cup {[gen |-> t.gen, label |-> "onClose",
                                               value |-> NoValue]}
                          ELSE invoked
  /\ timers' = timers \ {t}
  /\ UNCHANGED <<now, stamp, registry, hasBody, calls>>

(***************************************************************************)
(* Dialogs.  popups appends its div without closing what is mounted and    *)
(* without touching the ticket; with no body it alerts and returns.        *)
(***************************************************************************)
\* Lines 236-262: when the call gave no position, the dialog found by
\* getElementById('wangmarket_popups').firstChild is measured and centred.
Centre(b, auto) ==
  LET k == SelectInSeq(b, IsPopups)
  IN IF auto /\ k # 0 THEN [b EXCEPT ![k].centred = TRUE] ELSE b

MountPopup(b, e) == IF hasBody THEN Centre(Append(b, e), e.auto) ELSE b

\* attribute.close: "unset" takes the default of the calling function.
CloseOption(opt, default) == IF opt = "unset" THEN default ELSE opt = "true"

CloseOptions == {"unset", "true", "false"}

\* popups(attribute); auto: neither left nor top/bottom given.  The offsets
\* themselves are computed in MsgLayout.
Popups(opt, auto) ==
  /\ CallAllowed("popups")
  /\ body' = MountPopup(body, [Elem(PopupsId, "popup", calls + 1)
                                 EXCEPT !.closeBtn = CloseOption(opt, TRUE),
                                        !.auto = auto])
  /\ calls' = calls + 1
  /\ UNCHANGED <<currentWindowsId, timers, now, stamp, registry, hasBody,
                 invoked>>

(***************************************************************************)
(* confirm(attribute): when text is set, each button label gets the        *)
(* handler window.msg.confirm[label_<getTime()>], overwriting any handler  *)
(* of that name; without text no button is rendered.  Then popups with     *)
(* close defaulting to false.  a.undefinedCb are labels bound to           *)
(* undefined (the string form called without okFunc).                      *)
(***************************************************************************)
Bind(names, g, a) ==
  [n \in DOMAIN registry \cup names |->
     IF n \in names THEN [gen |-> g, label |-> n[1],
                          defined |-> n[1] \notin a.undefinedCb]
                    ELSE registry[n]]

ConfirmBody(a) ==
  \E s \in {stamp, stamp + 1} :
    LET g     == calls + 1
        names == IF a.text THEN {<<l, s>> : l \in a.buttons} ELSE {}
    IN /\ registry' = Bind(names, g, a)
       /\ body' = MountPopup(body, [Elem(PopupsId, "confirm", g)
                                      EXCEPT !.closeBtn = CloseOption(a.close, FALSE),
                                             !.buttons = names, !.auto = TRUE])
       /\ stamp' = s
       /\ calls' = g
       /\ UNCHANGED <<currentWindowsId, timers, now, hasBody, invoked>>

Confirm(a) == CallAllowed("confirm") /\ ConfirmBody(a)

\* alert(text) is confirm({text, buttons: {确定: function(){}}}).
Alert(hasText) ==
  /\ CallAllowed("alert")
  /\ ConfirmBody([text |-> hasText, buttons |-> {"ok"}, undefinedCb |-> {},
                  close |-> "unset"])

(***************************************************************************)
(* input(text, okFunc, defaultValue): without okFunc a failure toast.      *)
(* Otherwise popups with a field #msg_input_id and a button whose id ends  *)
(* in getTime(); the onclick goes to the first element with that id.       *)
(***************************************************************************)
InputBody(def) ==
  \E s \in {stamp, stamp + 1} :
    LET g  == calls + 1
        b1 == MountPopup(body, [Elem(PopupsId, "input", g)
                                 EXCEPT !.closeBtn = TRUE, !.field = def,
                                        !.enterId = s, !.auto = TRUE])
        k  == SelectInSeq(b1, LAMBDA x : x.enterId = s)
    IN /\ body' = IF k = 0 THEN b1 ELSE [b1 EXCEPT ![k].onok = g]
       /\ stamp' = s
       /\ calls' = g
       /\ UNCHANGED <<currentWindowsId, timers, now, registry, hasBody, invoked>>

Input(okGiven, def) ==
  /\ CallAllowed("input")
  /\ IF okGiven THEN InputBody(def) ELSE ToastBody("failure", FALSE)

\* The close button of a popup: onclick="msg.close();".
CloseClick(i) ==
  /\ body[i].closeBtn
  /\ body' = CloseDom(body)
  /\ currentWindowsId' = 0
  /\ UNCHANGED <<timers, now, stamp, registry, hasBody, calls, invoked>>

\* A confirm button: window.msg.confirm[name]() closes, then runs the
\* callback bound to that name now; an undefined callback throws.
ButtonClick(i, n) ==
  /\ n \in body[i].buttons
  /\ body' = CloseDom(body)
  /\ currentWindowsId' = 0
  /\ invoked' = IF registry[n].defined
                  THEN invoked \cup {[gen |-> registry[n].gen,
                                      label |-> registry[n].label,
                                      value |-> NoValue]}
                  ELSE invoked
  /\ UNCHANGED <<timers, now, stamp, registry, hasBody, calls>>

\* The user edits the text of an input field.
TypeInto(i, v) ==
  /\ body[i].kind = "input"
  /\ body'= [body EXCEPT ![i].field = v]
  /\ UNCHANGED <<currentWindowsId, timers, now, stamp, registry, hasBody,
                 calls, invoked>>

\* The input OK button: read #msg_input_id (the first one), close, okFunc.
FirstField(b) == b[SelectInSeq(b, LAMBDA x : x.kind = "input")].field

InputOk(i) ==
  /\ body[i].onok # 0
  /\ body' = CloseDom(body)
  /\ currentWindowsId' = 0
  /\ invoked' = invoked \cup {[gen |-> body[i].onok, label |-> "submit",
                                value |-> FirstField(body)]}
  /\ UNCHANGED <<timers, now, stamp, registry, hasBody, calls>>

\* Time passes while a timer is pending and none is due.
Tick ==
  /\ timers # {}
  /\ \A t \in timers : t.due > now
  /\ now' = now + 1
  /\ stamp' = stamp + 1
  /\ UNCHANGED <<body, currentWindowsId, timers, registry, hasBody, calls,
                 invoked>>

\* The page's body element comes into existence (the script ran in <head>).
BodyReady ==
  /\ ~hasBody
  /\ hasBody' = TRUE
  /\ UNCHANGED <<body, currentWindowsId, timers, now, stamp, registry, calls,
                 invoked>>

-----------------------------------------------------------------------------
Init ==
  /\ body = <<>>
  /\ currentWindowsId = 0
  /\ timers = {}
  /\ now = 0
  /\ stamp = 1
  /\ registry = <<>>
  /\ hasBody \in BOOLEAN
  /\ calls = 0
  /\ invoked = {}

Next ==
  \/ \E kind \in {"success", "failure", "info"}, func \in BOOLEAN :
       Toast(kind, func)
  \/ Loading
  \/ Close
  \/ \E opt \in CloseOptions, auto \in BOOLEAN : Popups(opt, auto)
  \/ \E a \in ConfirmArgs : Confirm(a)
  \/ \E hasText \in BOOLEAN : Alert(hasText)
  \/ \E okGiven \in BOOLEAN, def \in Values : Input(okGiven, def)
  \/ \E i \in 1..Len(body) :
       \/ CloseClick(i)
       \/ \E n \in body[i].buttons : ButtonClick(i, n)
       \/ \E v \in Values : TypeInto(i, v)
       \/ InputOk(i)
  \/ \E t \in timers : TimerFire(t)
  \/ Tick
  \/ BodyReady

FireDue == \E t \in timers : TimerFire(t)

Spec == Init /\ [][Next]_vars /\ WF_vars(FireDue) /\ WF_vars(Tick)

-----------------------------------------------------------------------------
Kinds == {"toast", "loading", "popup", "confirm", "input"}

TypeOK ==
  /\ \A i \in 1..Len(body) :
       /\ body[i].id \in {LoadingId, PopupsId}
       /\ body[i].kind \in Kinds
       /\ body[i].gen \in 1..MaxCalls
  /\ currentWindowsId \in Cids
  /\ \A t \in timers : t.cid \in Cids /\ t.due \in Nat /\ t.func \in BOOLEAN
  /\ now \in Nat /\ stamp \in Nat
  /\ hasBody \in BOOLEAN
  /\ calls \in 0..MaxCalls
  /\ \A n \in DOMAIN registry :
       n[1] \in Labels /\ registry[n].gen \in 1..MaxCalls
  /\ \A c \in invoked : c.gen \in 1..MaxCalls /\ c.value \in Values \cup {NoValue}

\* Spec §8: whatever the sequence of calls, at most one overlay is mounted.
SingleOverlay == Len(body) <= 1

ToastMounted(g) == \E i \in 1..Len(body) : body[i].kind = "toast" /\ body[i].gen = g

(***************************************************************************)
(* The race guard of delayClose: while a toast is mounted, the ticket is   *)
(* the cid its own pending timer holds, so that timer, and only a timer    *)
(* holding the same cid, will close it.  Breaks if show ran after          *)
(* delayClose (show's close would zero the ticket) or if anything clears   *)
(* the ticket without removing the toast.                                  *)
(***************************************************************************)
ToastTicketIsLive ==
  \A i \in 1..Len(body) :
    body[i].kind = "toast" =>
      \E t \in timers : t.gen = body[i].gen /\ t.cid = currentWindowsId

(***************************************************************************)
(* A delayClose timer removes no overlay but the toast it was scheduled    *)
(* for: a stale timer (its toast replaced) has no DOM effect (spec §8).    *)
(***************************************************************************)
TimerClosesOnlyOwnOverlay ==
  [][\A t \in timers :
       TimerFire(t) =>
         \A i \in 1..Len(body) :
           body[i] \notin ToSet(body') => body[i].gen = t.gen]_vars

\* Every toast is eventually dismissed, by its own timer or a later call.
ToastEventuallyDismissed ==
  \A g \in 1..MaxCalls : ToastMounted(g) ~> ~ToastMounted(g)

(***************************************************************************)
(* Spec §4.2: the onClose continuation of every toast runs, even when the  *)
(* toast was superseded and its timer no longer closes anything.           *)
(***************************************************************************)
ContinuationFires ==
  \A g \in 1..MaxCalls :
    (\E t \in timers : t.gen = g /\ t.func)
      ~> (\E c \in invoked : c.gen = g /\ c.label = "onClose")

(***************************************************************************)
(* The toast core implements OverlayManager: the slot is "body non-empty", *)
(* the ticket is currentWindowsId, the tasks are the pending timers.       *)
(***************************************************************************)
OM == INSTANCE OverlayManager
        WITH shown <- body # <<>>,
             ticket <- currentWindowsId,
             pending <- {[ticket |-> t.cid, func |-> t.func, id |-> t.gen] :
                           t \in timers},
             fired <- {c.gen : c \in {x \in invoked : x.label = "onClose"}},
             Tickets <- Cids,
             Ids <- 1..MaxCalls

ImplementsOverlayManager == OM!ASpec

(***************************************************************************)
(* Spec §3 (c), §4.4: a dialog's button handlers are reachable only while  *)
(* the dialog is mounted and are released when it is torn down.           *)
(***************************************************************************)
HandlesReleased ==
  \A n \in DOMAIN registry : \E i \in 1..Len(body) : n \in body[i].buttons

(***************************************************************************)
(* Spec §4.4: a button of a confirm dialog runs the callback that dialog   *)
(* bound to it, never one bound by another dialog under the same handle.   *)
(***************************************************************************)
ButtonInvokesOwnCallback ==
  [][\A i \in 1..Len(body) :
       \A n \in body[i].buttons :
         ButtonClick(i, n) => registry[n].gen = body[i].gen]_vars

(***************************************************************************)
(* Spec §8: the OK button of an input dialog calls that dialog's okFunc    *)
(* with the current value of that dialog's field.                          *)
(***************************************************************************)
InputSubmitsOwnField ==
  [][\A i \in 1..Len(body) :
       InputOk(i) => /\ body[i].onok = body[i].gen
                     /\ FirstField(body) = body[i].field]_vars

(***************************************************************************)
(* Spec §4.3: the engine measures and centres the content just mounted; a  *)
(* dialog the caller placed is left where it was put.                      *)
(***************************************************************************)
PlacedAsRequested ==
  \A i \in 1..Len(body) : IsPopups(body[i]) => (body[i].centred <=> body[i].auto)
=============================================================================
