----------------------------- MODULE EventEmitter -----------------------------
(***************************************************************************)
(* The base class of the controllers: handlers guarded by withStatus, and  *)
(* the updates by which subscribers (the front end, parent controllers)    *)
(* learn that the state changed: immediate, forced, and throttled ones.    *)
(*                                                                         *)
(* A forced update, which every change of a status makes, drops the        *)
(* pending throttled one at once and emits a millisecond later.            *)
(*                                                                         *)
(* Left out: error callbacks, the registry, and what changed.              *)
(***************************************************************************)
EXTENDS Naturals, FiniteSets

CONSTANTS Wrapped, Concurrent, \* handlers, and those with allowConcurrentActions
          Handlers,            \* slots of calls that run
          Subscribers,
          IdOf,                \* the id each subscriber gives, NoId for none
          NoId, NoMethod,
          EmitterEnvironment

ASSUME ConcurrentAssumption == Concurrent \subseteq Wrapped /\ NoMethod \notin Wrapped
\* "shared ids": two subscribers may give the same id at the same time.
ASSUME EmitterEnvironmentAssumption == EmitterEnvironment \subseteq {"shared ids"}

VARIABLES statuses,
          handler,    \* the calls of withStatus: their method and where they are
          throttle,   \* #throttleTimeout
          trailing,   \* #hasTrailingUpdate
          callbacks,  \* #callbacks and #callbacksWithId
          subscribed, \* subscribers that did not unsubscribe
          stale       \* subscribers that were not told of the latest state

updateVars == <<throttle, trailing, stale>>
subscriptionVars == <<callbacks, subscribed>>
emitterVars == <<statuses, handler, updateVars, subscriptionVars>>

NoHandler == [method |-> NoMethod, pc |-> "idle"]
Forcing == {"loading", "ended", "final"} \* a forced update is under way

EmitterTypeOK ==
    /\ statuses \in [Wrapped -> {"INITIAL", "LOADING", "SUCCESS", "ERROR"}]
    /\ handler \in [Handlers -> [method : Wrapped, pc : Forcing \cup {"wait", "running"}]
                                 \cup {NoHandler}]
    /\ throttle \in BOOLEAN /\ trailing \in BOOLEAN /\ (trailing => throttle)
    /\ callbacks \subseteq Subscribers /\ subscribed \subseteq Subscribers
    /\ stale \subseteq Subscribers

EmitterInit ==
    /\ statuses = [m \in Wrapped |-> "INITIAL"]
    /\ handler = [h \in Handlers |-> NoHandler]
    /\ throttle = FALSE /\ trailing = FALSE
    /\ callbacks = {} /\ subscribed = {} /\ stale = {}

-----------------------------------------------------------------------------
(* Updates.                                                                *)

\* #doEmit, when nobody was told of the changes in news.
Told(news) == stale' = (stale \cup news) \ callbacks

\* Mutant: the timer is cleared, the pending update is not forgotten.
ClearTimerOnly == throttle' = FALSE /\ UNCHANGED trailing

\* #clearThrottle
ClearThrottle == throttle' = FALSE /\ trailing' = FALSE

\* The state changes and emitUpdate or propagateUpdate tells of it at once.
EmitUpdate ==
    /\ ClearThrottle /\ Told(Subscribers)
    /\ UNCHANGED <<statuses, handler, subscriptionVars>>

\* Mutant: an update within the window is not remembered.
DeferForgetting == stale' = Subscribers /\ UNCHANGED <<throttle, trailing>>

\* An update within the window waits for its end.
Defer == stale' = Subscribers /\ trailing' = TRUE /\ UNCHANGED throttle

\* emitUpdate with throttleMs.
EmitThrottled ==
    /\ IF throttle THEN Defer
       ELSE Told(Subscribers) /\ throttle' = TRUE /\ UNCHANGED trailing
    /\ UNCHANGED <<statuses, handler, subscriptionVars>>

\* #openThrottleWindow: the window opens again until one passes without updates.
WindowEnds ==
    /\ throttle
    /\ throttle' = trailing /\ trailing' = FALSE
    /\ IF trailing THEN Told({}) ELSE UNCHANGED stale
    /\ UNCHANGED <<statuses, handler, subscriptionVars>>

\* The first half of forceEmitUpdate, after a change of a status.
ForceEmit == ClearThrottle /\ stale' = Subscribers

-----------------------------------------------------------------------------
(* Handlers.                                                               *)

\* Mutant: a handler is refused while another one runs, not until it ended.
AdmittedOnOwnStatus(m) == statuses[m] \in {"INITIAL", "SUCCESS"}

\* The guard of withStatus.
Admitted(m) ==
    /\ m \in Concurrent \/ \A n \in Wrapped : statuses[n] = "INITIAL"
    /\ statuses[m] \in {"INITIAL", "SUCCESS"}

GoesTo(h, m, pc) == handler' = [handler EXCEPT ![h] = [method |-> m, pc |-> pc]]

Load(h, m) ==
    /\ statuses' = [statuses EXCEPT ![m] = "LOADING"]
    /\ GoesTo(h, m, "loading") /\ ForceEmit

\* withStatus; a call that is refused changes nothing.
WithStatus(h, m) ==
    /\ handler[h] = NoHandler /\ Admitted(m)
    /\ IF statuses[m] = "SUCCESS"
       THEN GoesTo(h, m, "wait") /\ UNCHANGED <<statuses, updateVars>>
       ELSE Load(h, m)
    /\ UNCHANGED subscriptionVars

\* The two milliseconds that let the earlier call show INITIAL are over.
Waited(h) ==
    /\ handler[h].pc = "wait"
    /\ Load(h, handler[h].method)
    /\ UNCHANGED subscriptionVars

\* fn resolves or throws.
FnEnds(h, outcome) ==
    /\ handler[h].pc = "running"
    /\ statuses' = [statuses EXCEPT ![handler[h].method] = outcome]
    /\ GoesTo(h, handler[h].method, "ended") /\ ForceEmit
    /\ UNCHANGED subscriptionVars

\* The second half of forceEmitUpdate, and what withStatus goes on with.
ForcedUpdate(h) ==
    LET m == handler[h].method IN
    /\ UNCHANGED subscriptionVars
    /\ \/ /\ handler[h].pc = "loading" /\ GoesTo(h, m, "running")
          /\ Told({}) /\ UNCHANGED <<statuses, throttle, trailing>>
       \/ /\ handler[h].pc = "ended" /\ GoesTo(h, m, "final")
          /\ statuses' = [statuses EXCEPT ![m] = "INITIAL"] /\ ForceEmit
       \/ /\ handler[h].pc = "final" /\ handler' = [handler EXCEPT ![h] = NoHandler]
          /\ Told({}) /\ UNCHANGED <<statuses, throttle, trailing>>

-----------------------------------------------------------------------------
(* Subscriptions.                                                          *)

\* onUpdate
OnUpdate(s) ==
    /\ s \notin subscribed
    /\ \/ "shared ids" \in EmitterEnvironment \/ IdOf[s] = NoId
       \/ \A t \in subscribed : IdOf[t] # IdOf[s]
    /\ callbacks' = callbacks \cup {s} /\ subscribed' = subscribed \cup {s}
    /\ stale' = stale \ {s}
    /\ UNCHANGED <<statuses, handler, throttle, trailing>>

\* The function onUpdate returns: with an id, everyone who gave it goes.
Unsubscribe(s) ==
    /\ s \in subscribed
    /\ callbacks' = {t \in callbacks : t # s /\ (IdOf[s] = NoId \/ IdOf[t] # IdOf[s])}
    /\ subscribed' = subscribed \ {s}
    /\ UNCHANGED <<statuses, handler, updateVars>>

\* destroy: nobody hears of the controller any more.
DestroyEmitter ==
    /\ ClearThrottle /\ callbacks' = {} /\ subscribed' = {}
    /\ UNCHANGED <<statuses, handler, stale>>

EmitterNext ==
    \/ EmitUpdate \/ EmitThrottled \/ WindowEnds \/ DestroyEmitter
    \/ \E h \in Handlers :
         \/ Waited(h) \/ ForcedUpdate(h)
         \/ \E m \in Wrapped : WithStatus(h, m)
         \/ \E outcome \in {"SUCCESS", "ERROR"} : FnEnds(h, outcome)
    \/ \E s \in Subscribers : OnUpdate(s) \/ Unsubscribe(s)

\* Timers fire. How long a handler runs is not assumed.
EmitterFairness ==
    /\ WF_emitterVars(WindowEnds)
    /\ \A h \in Handlers : WF_emitterVars(Waited(h) \/ ForcedUpdate(h))

EmitterSpec == EmitterInit /\ [][EmitterNext]_emitterVars /\ EmitterFairness

-----------------------------------------------------------------------------
\* Two handlers that are not concurrent ones never run at the same time,
\* whatever concurrent ones run or wait besides (withStatus).
HandlersExclusive ==
    \A g, h \in Handlers :
        (g # h /\ handler[g].pc = "running" /\ handler[h].pc = "running")
            => {handler[g].method, handler[h].method} \cap Concurrent # {}

\* A subscriber learns of the latest state or unsubscribes: an update that
\* was put off is not lost to an immediate or a forced one (emitUpdate).
UpdatesReachSubscribers ==
    \A s \in Subscribers : (s \in stale /\ s \in subscribed)
                               ~> ~(s \in stale /\ s \in subscribed)
=============================================================================
