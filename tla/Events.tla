------------------------------- MODULE Events -------------------------------
(***************************************************************************)
(* From a message that answers no request to the application's handlers:   *)
(* the handlers registered with Protocol, EventRouter, which converts the  *)
(* message, and EventEmitter, which tells every subscription that matches. *)
(***************************************************************************)
EXTENDS Records, FiniteSets

CONSTANTS
    Subs,       \* subscriptions the application may make
    Class,      \* per subscription, its event class
    Handler,    \* per subscription, its handler
    Filter      \* per subscription, [account |-> , symbol |-> ], each may be None

VARIABLES
    regs,           \* protocol._event_handlers: how often the router is in it
    disposers,      \* router._disposers is not empty
    subscriptions,  \* emitter._subscriptions: per class, in the order they were made
    jobs            \* the tasks of _call_handler_safe for the router's handlers

eventVars == <<regs, disposers, subscriptions, jobs>>

\* The proto classes that the router registers for.
Routed == {"spot", "execution", "order_error", "trader_update", "margin_change", "depth",
           "token_invalidated", "client_disconnect", "account_disconnect", "symbol_changed",
           "trailing_stop", "margin_call"}

\* The fields by which the events of a class can be filtered.
Filterable(class) ==
    CASE class \in {"token_invalidated", "client_disconnect"}    -> {}
      [] class \in {"spot", "execution", "depth"}                -> {"account", "symbol"}
      [] OTHER                                                   -> {"account"}

----------------------------------------------------------------------------
(* EventEmitter: subscribe, unsubscribe, unsubscribe_all.                  *)

\* The classes there are subscriptions for.  A class that is not in the
\* dictionary is one whose list is empty.
Classes == {Class[s] : s \in Subs}
Nobody  == [c \in Classes |-> <<>>]

\* A filter on a field that the class does not have is refused (ValueError).
ValidFilter(s) == \A f \in {"account", "symbol"} : Filter[s][f] # None => f \in Filterable(Class[s])

Subscribe(s) ==
    /\ ValidFilter(s)
    /\ s \notin Range(subscriptions[Class[s]])
    /\ subscriptions' = [subscriptions EXCEPT ![Class[s]] = Append(@, s)]
    /\ UNCHANGED <<regs, disposers, jobs>>

\* The first subscription of that handler to that class goes, whatever its
\* filter.
First(class, h) ==
    {i \in DOMAIN subscriptions[class] :
        /\ Handler[subscriptions[class][i]] = h
        /\ \A k \in 1..(i-1) : Handler[subscriptions[class][k]] # h}

Unsubscribe(class, h) ==
    /\ \E i \in First(class, h) : subscriptions' = [subscriptions EXCEPT ![class] = RemoveAt(@, i)]
    /\ UNCHANGED <<regs, disposers, jobs>>

\* Of one class, or of all of them.
UnsubscribeAll(class) ==
    /\ subscriptions' = [subscriptions EXCEPT ![class] = <<>>]
    /\ UNCHANGED <<regs, disposers, jobs>>

UnsubscribeEverything ==
    /\ subscriptions' = Nobody
    /\ UNCHANGED <<regs, disposers, jobs>>

----------------------------------------------------------------------------
(* EventRouter: start, stop and its handlers.                              *)

\* Idempotent both ways.
RouterStart ==
    /\ regs' = IF disposers THEN regs ELSE regs + 1
    /\ disposers' = TRUE

\* Mutant of RouterStop: the registrations are forgotten, not undone.
RouterStopKeeping ==
    /\ regs' = regs
    /\ disposers' = FALSE

RouterStop ==
    /\ regs' = IF disposers THEN regs - 1 ELSE regs
    /\ disposers' = FALSE

\* What a handler emits for a message, None for nothing: an execution of an
\* unknown type and an update without its trader are skipped, and a reported
\* disconnect goes to SessionRecovery, which publishes it if it is real.  Of an
\* event, what filters look at is kept.
EventFor(body) ==
    CASE body.class = "execution"     -> ExecutionFromProto(body)
      [] body.class \in {"spot", "depth"} -> [class |-> body.class, account |-> body.account, symbol |-> body.symbol]
      [] body.class = "account_disconnect" -> None
      [] body.class = "trader_update" /\ body.trader = None -> None
      [] body.class \in {"token_invalidated", "client_disconnect"} -> [class |-> body.class]
      [] OTHER -> [class |-> body.class, account |-> body.account]

\* A field of the event; getattr with the default None.
Field(event, f) == IF f \in DOMAIN event THEN event[f] ELSE None

----------------------------------------------------------------------------
(* Dispatch and delivery.                                                  *)

\* _dispatch_event: a task for every registered handler, none is awaited.
Spawn(m) ==
    jobs' = jobs \cup {[sn |-> m.sn, reg |-> k, body |-> m.body, at |-> "spawned",
                        owed |-> {}, todo |-> {}, ran |-> {}] :
                       k \in IF m.body.class \in Routed THEN 1..regs ELSE {}}

\* _matches_filter.
Matches(event, s) ==
    \A f \in {"account", "symbol"} : Filter[s][f] # None => Field(event, f) = Filter[s][f]

\* emit's snapshot.
Matching(event) ==
    {s \in Subs : event.class \in Classes /\ s \in Range(subscriptions[event.class]) /\ Matches(event, s)}

\* For the record, who is owed the event: those that are subscribed right now,
\* in whichever list, and asked for such an event.
Owed(event) ==
    {s \in UNION {Range(subscriptions[c]) : c \in Classes} :
        /\ Class[s] = event.class
        /\ Filter[s].account \in {None, Field(event, "account")}
        /\ Filter[s].symbol \in {None, Field(event, "symbol")}}

\* The task starts: the router's handler converts the message and emit takes
\* its snapshot of the subscriptions that match, without suspending.
Emit(j) ==
    /\ j.at = "spawned"
    /\ LET event == EventFor(j.body)
           matching == IF event = None THEN {} ELSE Matching(event)
       IN jobs' = (jobs \ {j}) \cup
            {[j EXCEPT !.at = "emitting", !.body = None, !.todo = matching,
                       !.owed = IF event = None THEN {} ELSE Owed(event)]}
    /\ UNCHANGED <<regs, disposers, subscriptions>>

\* _deliver: a subscription's handler is done; what it raises is contained.
Deliver(j, s) ==
    /\ j.at = "emitting" /\ s \in j.todo
    /\ jobs' = (jobs \ {j}) \cup {[j EXCEPT !.todo = @ \ {s}, !.ran = @ \cup {s}]}
    /\ UNCHANGED <<regs, disposers, subscriptions>>

\* Mutant of DeliverRaises: the exception escapes into the task group.
DeliverRaisesOut(j, s) ==
    /\ j.at = "emitting" /\ s \in j.todo
    /\ jobs' = (jobs \ {j}) \cup {[j EXCEPT !.todo = {}, !.ran = @ \cup {s}]}
    /\ UNCHANGED <<regs, disposers, subscriptions>>

DeliverRaises(j, s) == Deliver(j, s)

\* emit returns when every handler is done, and the task ends.
Emitted(j) ==
    /\ j.at = "emitting" /\ j.todo = {}
    /\ jobs' = jobs \ {j}
    /\ UNCHANGED <<regs, disposers, subscriptions>>

----------------------------------------------------------------------------
(* Properties.                                                             *)

\* No message is handled twice, however often the client was opened, failed to
\* open or was closed before: a second registration of the router would run
\* every handler of the application twice for one fill (router.start, stop,
\* Protocol.on_event, remove_handler).
HandledOnce == \A j, k \in jobs : j.sn = k.sn => j = k
=============================================================================
