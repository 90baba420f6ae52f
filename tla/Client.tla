------------------------------- MODULE Client -------------------------------
(***************************************************************************)
(* CTraderClient: entering and leaving it, with the components it starts   *)
(* and stops in order, composed with the application's calls (Trading) and *)
(* the delivery of events to its handlers (Events) over one link.          *)
(*                                                                         *)
(* The link is abstract here: it may drop and be replaced under an open    *)
(* client, or go for good: because reconnecting was given up, which ends   *)
(* the client, or was never wanted, which does not (Connection).  What the *)
(* monitors do while they are served is in Sessions.                       *)
(***************************************************************************)
EXTENDS Trading, Events

CONSTANT Pushes     \* messages the server sends unasked

VARIABLES
    scenario,   \* bound: "life", "quit" or "data", what this behaviour explores
    phase,      \* where __aenter__ and __aexit__ are
    monitors,   \* the tasks of the client's task group
    up          \* protocol._running

clientVars == <<scenario, phase, monitors, up>>
vars == <<tradeVars, eventVars, clientVars>>

Monitors == {"refresher", "recovery"}
Phases   == {"closed", "connecting", "authing", "starting", "open", "closing", "leaving"}

Scenarios == {"life", "quit", "data"}

Init ==
    /\ scenario \in Scenarios
    /\ phase = "closed" /\ monitors = {} /\ up = FALSE
    /\ regs = 0 /\ disposers = FALSE /\ subscriptions = Nobody /\ jobs = {}
    /\ call = None /\ inbox = <<>> /\ wire = <<>> /\ book = None /\ asked = None /\ shown = None

App == <<0, None>>      \* the caller that is no handler

\* None is no call of the application.
ASSUME CallAssumption ==
    \A n \in Serials, op \in Trades \cup Reads \cup Queries :
        None # [by |-> App, n |-> n, op |-> op, slot |-> None, did |-> "nothing"]

Life == scenario \in {"life", "quit"}
Data == scenario = "data"

\* reconnect_attempts is not zero.
Reconnects == scenario # "quit"

Goes(from, to) == phase \in from /\ phase' = to /\ UNCHANGED scenario

----------------------------------------------------------------------------
(* __aenter__ and _lifecycle, up to the yield.                             *)

Enter        == Goes({"closed"}, "connecting") /\ UNCHANGED <<monitors, up, tradeVars, eventVars>>
ConnectFails == Life /\ Goes({"connecting"}, "closed") /\ UNCHANGED <<monitors, up, tradeVars, eventVars>>

\* The supervisor is serving: the protocol reads.
Connected ==
    /\ Goes({"connecting"}, "authing")
    /\ up' = TRUE
    /\ UNCHANGED <<monitors, tradeVars, eventVars>>

AppAuthenticated == up /\ Goes({"authing"}, "starting") /\ UNCHANGED <<monitors, up, tradeVars, eventVars>>
AppAuthFails     == Life /\ Goes({"authing"}, "leaving") /\ UNCHANGED <<monitors, up, tradeVars, eventVars>>

\* task_group.start(serve), the refresher first.
Serve(m) ==
    /\ phase = "starting"
    /\ m \notin monitors
    /\ m = "recovery" => "refresher" \in monitors
    /\ monitors' = monitors \cup {m}
    /\ UNCHANGED <<scenario, phase, up, tradeVars, eventVars>>

Opened ==
    /\ monitors = Monitors
    /\ Goes({"starting"}, "open")
    /\ RouterStart
    /\ UNCHANGED <<monitors, up, tradeVars, subscriptions, jobs>>

----------------------------------------------------------------------------
(* Failures that cancel the block, and the way out.                        *)

\* The block ends or is cancelled, or its entry is: the finally of _lifecycle
\* runs without suspending.  The monitors are only asked to stop.
WindsDown == IF phase = "authing" THEN Goes({"authing"}, "leaving") /\ UNCHANGED <<regs, disposers>>
             ELSE Goes({"starting", "open"}, "closing") /\ RouterStop

Leave ==
    /\ Life /\ phase = "open"
    /\ WindsDown
    /\ UNCHANGED <<monitors, up, tradeVars, subscriptions, jobs>>

\* A monitor dies: the task group cancels the other one and the block.
MonitorDies(m) ==
    /\ Life /\ m \in monitors /\ phase \in {"starting", "open"}
    /\ WindsDown
    /\ monitors' = {}
    /\ UNCHANGED <<up, tradeVars, subscriptions, jobs>>

\* protocol.serve returns: its task group took the handlers with it, and
\* _fail_pending wakes the call that waits.
Gone == [class |-> "closed"]
ProtocolEnds ==
    /\ up' = FALSE
    /\ jobs' = {}
    /\ wire' = <<>> /\ inbox' = <<>>
    /\ call' = IF call = None \/ (call # None /\ call.by # App) THEN None ELSE [call EXCEPT !.slot = Gone]
    /\ UNCHANGED <<book, asked, shown>>

\* The link is gone and reconnecting was given up: _abandon raises.
ProtocolFails ==
    /\ Life /\ Reconnects /\ phase \in {"authing", "starting", "open"}
    /\ WindsDown
    /\ ProtocolEnds
    /\ UNCHANGED <<monitors, subscriptions>>

\* Mutant of ProtocolStops: nobody wakes the call that waits.
ProtocolStopsSilently ==
    /\ ~Reconnects /\ up /\ phase \in {"authing", "starting", "open"}
    /\ up' = FALSE /\ wire' = <<>> /\ inbox' = <<>>
    /\ UNCHANGED <<call, book, asked, shown, scenario, phase, monitors, eventVars>>

\* The link is gone and reconnecting is disabled: _abandon stops the protocol,
\* wakes the call that waits and raises nothing.  The block goes on, with the
\* router, the monitors and the handlers at work.
ProtocolStops ==
    /\ ~Reconnects /\ up /\ phase \in {"authing", "starting", "open"}
    /\ up' = FALSE /\ wire' = <<>> /\ inbox' = <<>>
    /\ call' = IF call = None THEN None ELSE [call EXCEPT !.slot = Gone]
    /\ UNCHANGED <<book, asked, shown, scenario, phase, monitors, eventVars>>

MonitorsEnd ==
    /\ phase = "closing" /\ monitors # {}
    /\ monitors' = {}
    /\ UNCHANGED <<scenario, phase, up, tradeVars, eventVars>>

\* Mutant of Closed: the handlers are waited for.
ClosedPolitely ==
    /\ jobs = {}
    /\ phase = "leaving" \/ (phase = "closing" /\ monitors = {})
    /\ Goes({"closing", "leaving"}, "closed")
    /\ ProtocolEnds
    /\ UNCHANGED <<monitors, regs, disposers, subscriptions>>

\* The client's task group is empty; the supervisor stops the protocol and
\* closes the transport.
Closed ==
    /\ phase = "leaving" \/ (phase = "closing" /\ monitors = {})
    /\ Goes({"closing", "leaving"}, "closed")
    /\ ProtocolEnds
    /\ UNCHANGED <<monitors, regs, disposers, subscriptions>>

----------------------------------------------------------------------------
(* The link.                                                               *)

\* Mutant of Answers: any tagged message is for whoever waits.
AnswersAny(m) == call # None /\ m.n # 0

Answers(m) == call # None /\ m.n # 0 /\ call.n = m.n

\* Mutant of ReadMessage: the reader awaits the handlers it calls.
ReadMessageInline ==
    /\ up /\ wire # <<>> /\ jobs = {}
    /\ wire' = Tail(wire)
    /\ IF Answers(Head(wire))
       THEN call' = [call EXCEPT !.slot = Head(wire).body] /\ UNCHANGED jobs
       ELSE Spawn(Head(wire)) /\ UNCHANGED call
    /\ UNCHANGED <<inbox, book, asked, shown, regs, disposers, subscriptions, clientVars>>

\* The reader takes a message: the slot of the call it answers keeps the last
\* one, any other message is dispatched as an event.
ReadMessage ==
    /\ up /\ wire # <<>>
    /\ wire' = Tail(wire)
    /\ IF Answers(Head(wire))
       THEN call' = [call EXCEPT !.slot = Head(wire).body] /\ UNCHANGED jobs
       ELSE Spawn(Head(wire)) /\ UNCHANGED call
    /\ UNCHANGED <<inbox, book, asked, shown, regs, disposers, subscriptions, clientVars>>

\* The link drops and is replaced: what was under way is lost.
LinkReplaced ==
    /\ Life /\ Reconnects /\ phase = "open" /\ <<wire, inbox>> # <<<<>>, <<>>>>
    /\ wire' = <<>> /\ inbox' = <<>>
    /\ UNCHANGED <<call, book, asked, shown, eventVars, clientVars>>

Busy == {j.sn : j \in jobs}

Server ==
    /\ up /\ phase = "open"
    /\ \/ ServerActs(Busy)
       \/ Data /\ call = None /\ wire = <<>> /\ ServerFills(Busy)
       \/ Life /\ Reconnects /\ \E body \in Pushes : ServerPushes(body, Busy)
    /\ UNCHANGED <<eventVars, clientVars>>

----------------------------------------------------------------------------
(* The application.                                                        *)

\* Bound: calls and registrations begin on a client that is open, or closed,
\* and one request waits at the server.  In the quit scenario the only messages
\* are those of calls, and handlers are registered before the client is opened.
Ask ==
    /\ up /\ Life /\ phase = "open" /\ inbox = <<>>
    /\ \/ PlaceOrder(App, PlainOrder)
       \/ \E j \in jobs : \E s \in j.todo : PlaceOrder(<<j.sn, s>>, PlainOrder)
    /\ UNCHANGED <<eventVars, clientVars>>

\* In the data scenario: any order, one change at a time, and every query.
\* Bound: an order that departs from the plain one in two fields is only read.
Departures ==
    IF asked = None THEN 0
    ELSE Cardinality({f \in DOMAIN asked \cap DOMAIN PlainOrder : asked[f] # PlainOrder[f]})
Examine ==
    /\ phase = "open" /\ Data
    /\ \/ /\ Departures <= 1
          /\ \/ \E c \in Changes : c[1] \in DOMAIN PlainOrder /\ PlaceOrder(App, With(PlainOrder, c))
             \/ CancelOrder(App)
             \/ \E v \in 1..PlainOrder.volume : ClosePosition(App, v)
             \/ \E c \in Changes :
                    \/ c[1] \in AmendFields /\ AmendOrder(App, c)
                    \/ c[1] \in PositionFields /\ AmendPosition(App, c)
       \/ \E op \in Reads : Read(App, op)
       \/ book = None /\ \E op \in Queries : Query(App, op)
    /\ UNCHANGED <<eventVars, clientVars>>

Resumes   == Resume /\ UNCHANGED <<eventVars, clientVars>>
TimesOut  == Life /\ Timeout /\ UNCHANGED <<eventVars, clientVars>>

Registers ==
    /\ Life /\ (phase = "closed" \/ (phase = "open" /\ Reconnects))
    /\ \/ \E s \in Subs : Subscribe(s) \/ Unsubscribe(Class[s], Handler[s]) \/ UnsubscribeAll(Class[s])
       \/ UnsubscribeEverything
    /\ UNCHANGED <<tradeVars, clientVars>>

\* A handler's task goes on; not while the handler waits for a call.
Handles ==
    /\ \E j \in jobs :
        \/ Emit(j)
        \/ Emitted(j)
        \/ \E s \in j.todo : (call = None \/ (call # None /\ call.by # <<j.sn, s>>))
                             /\ (Deliver(j, s) \/ DeliverRaises(j, s))
    /\ UNCHANGED <<tradeVars, clientVars>>

Next ==
    \/ Enter \/ ConnectFails \/ Connected \/ AppAuthenticated \/ AppAuthFails \/ Opened
    \/ \E m \in Monitors : Serve(m) \/ MonitorDies(m)
    \/ MonitorsEnd \/ ProtocolFails \/ ProtocolStops \/ Leave \/ Closed
    \/ ReadMessage \/ LinkReplaced \/ Server
    \/ Ask \/ Examine \/ Resumes \/ TimesOut \/ Registers \/ Handles

Spec == Init /\ [][Next]_vars

\* Tasks of the client run when they can.  Nothing is assumed of the server,
\* of the application and of its handlers, which may never return.
FairSpec ==
    /\ Spec
    /\ WF_vars(ReadMessage) /\ WF_vars(MonitorsEnd) /\ WF_vars(Closed)

----------------------------------------------------------------------------
(* Properties.                                                             *)

TypeOK ==
    /\ scenario \in Scenarios /\ phase \in Phases /\ monitors \subseteq Monitors /\ up \in BOOLEAN
    /\ regs \in 0..1 /\ disposers \in BOOLEAN
    /\ subscriptions \in [Classes -> Seq(Subs)]
    /\ \A j \in jobs : j.sn \in Serials /\ j.todo \subseteq Subs /\ j.at \in {"spawned", "emitting"}
    /\ call # None => call.n \in Serials /\ call.op \in Trades \cup Reads \cup Queries
    /\ \A i \in DOMAIN wire : wire[i].sn \in Serials
    /\ book # None => book.what \in {"order", "position"}

\* A client whose block runs has its monitors and its router, and a protocol
\* that runs unless reconnecting is disabled; one that is closed has left
\* nothing behind, whichever of the steps of opening and closing it failed and
\* whatever was being handled: no monitor, no registration and no handler at
\* work.  Once the protocol has stopped, no call waits that nobody will wake,
\* whether or not the block goes on (_lifecycle, __aenter__, __aexit__,
\* Protocol.serve, _abandon).
ServedOrQuiet ==
    /\ phase = "open" => monitors = Monitors /\ disposers /\ regs = 1 /\ (up \/ ~Reconnects)
    /\ phase = "closed" => ~up /\ monitors = {} /\ ~disposers /\ regs = 0 /\ jobs = {}
    /\ ~up => call = None \/ (call # None /\ call.slot # None)

\* The task of an event ends on its own only when every subscription that asked
\* for the event at the moment it was emitted has had it, and no other has:
\* handlers that raise, and handlers that subscribe or unsubscribe while the
\* event is being told, take nothing from anyone (emit, _deliver), nor does a
\* protocol that stops under an open block.  Closing, and giving up on the link,
\* cancel it.
ToldInFull == [][\A j \in jobs : (\A k \in jobs' : k.sn # j.sn \/ k.reg # j.reg) =>
                    \/ j.at = "emitting" /\ j.ran = j.owed
                    \/ Closed \/ ProtocolFails]_vars

\* Closing comes to an end although a handler of the application, or a call it
\* makes, never does.
ExitCompletes == phase \in {"closing", "leaving"} ~> phase = "closed"

\* The reader never waits for a handler: every message is taken off the wire,
\* so a handler that makes a call gets its answer (_dispatch_event).
OnWire(sn) == \E i \in DOMAIN wire : wire[i].sn = sn
MessagesAreRead == \A sn \in Serials : OnWire(sn) ~> ~OnWire(sn)
=============================================================================
