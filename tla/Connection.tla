----------------------------- MODULE Connection -----------------------------
(***************************************************************************)
(* The connection layer of the client: Transport (one TCP/TLS stream),     *)
(* Protocol (reader loop, reconnection task), HeartbeatManager and the     *)
(* ConnectionSupervisor that holds them open.                              *)
(*                                                                         *)
(* The program is single-threaded: a task runs from one await that         *)
(* suspends to the next, and that stretch is one action here.  A task      *)
(* that was spawned or cancelled runs before the task that spawned or      *)
(* cancelled it comes back from its own next suspension, because the       *)
(* event loop's ready queue is first in, first out: that is Settled.       *)
(*                                                                         *)
(* A link is one stream object.  Link identities are reused once nothing   *)
(* refers to them, so the number of reconnections is not bounded.  The     *)
(* reader and the heartbeat loop spawned when link l came up are named l.  *)
(***************************************************************************)
EXTENDS Naturals

CONSTANTS
    Links,          \* identities of streams, and of the tasks spawned for them
    None,           \* "no stream", "no cancel scope"
    Attempts,       \* reconnect_attempts: Unlimited, 0 (disabled) or a budget
    Unlimited,
    MaxReadErrors,  \* _MAX_CONSECUTIVE_READ_ERRORS
    TimeoutOn       \* heartbeat_timeout > 0

ASSUME NoneAssumption     == None \notin Links
ASSUME AttemptsAssumption == /\ Unlimited \notin Nat
                             /\ Attempts \in Nat \cup {Unlimited}
ASSUME ErrorsAssumption   == MaxReadErrors \in Nat \ {0}
ASSUME TimeoutAssumption  == TimeoutOn \in BOOLEAN

VARIABLES
    phase,          \* supervisor.serving(): closed, opened, serving, stopping
    stream,         \* transport._stream
    wire,           \* what the network does with a link (environment)
    running,        \* protocol._running
    served,         \* protocol._task_group is not None
    reconnecting,   \* protocol._reconnecting
    redo,           \* protocol._redo_requested
    rt,             \* where _reconnect_task is suspended
    tries,          \* failed attempts of the current _reconnect
    reader,         \* where each reader loop is suspended
    on,             \* the stream each reader is reading
    errors,         \* consecutive_errors of each reader
    cancelled,      \* readers whose scope was cancelled and that still live
    readerScope,    \* protocol._reader_scope
    beat,           \* where each heartbeat loop is suspended
    beatOn,         \* the stream a heartbeat is being written to
    beatCancelled,  \* heartbeat loops cancelled and still alive
    beatScope,      \* heartbeat._task_scope
    monitored,      \* heartbeat._task_group is not None
    quiet,          \* now - _last_received exceeds the heartbeat timeout
    told            \* what the listener was last told: up, down, restoring

linkVars     == <<stream, wire>>
protocolVars == <<running, served, reconnecting, redo, rt, tries, told>>
readerVars   == <<reader, on, errors, cancelled, readerScope>>
beatVars     == <<beat, beatOn, beatCancelled, beatScope, monitored, quiet>>
vars == <<phase, linkVars, protocolVars, readerVars, beatVars>>

Scope      == Links \cup {None}
WireState  == {"up", "silent", "dead", "corrupt"}

TypeOK ==
    /\ phase \in {"closed", "opened", "serving", "stopping"}
    /\ stream \in Scope
    /\ wire \in [Links -> WireState]
    /\ running \in BOOLEAN
    /\ served \in BOOLEAN
    /\ reconnecting \in BOOLEAN
    /\ redo \in BOOLEAN
    /\ rt \in {"idle", "spawned", "closing", "connecting", "restoring"}
    /\ tries \in Nat
    /\ reader \in [Links -> {"done", "spawned", "reading", "backoff"}]
    /\ on \in [Links -> Scope]
    /\ errors \in [Links -> 0..(MaxReadErrors - 1)]
    /\ cancelled \in SUBSET Links
    /\ readerScope \in Scope
    /\ beat \in [Links -> {"done", "spawned", "sleeping", "sending"}]
    /\ beatOn \in [Links -> Scope]
    /\ beatCancelled \in SUBSET Links
    /\ beatScope \in Scope
    /\ monitored \in BOOLEAN
    /\ quiet \in BOOLEAN
    /\ told \in {"up", "down", "restoring"}

Init ==
    /\ phase = "closed"
    /\ stream = None
    /\ wire = [l \in Links |-> "dead"]
    /\ running = FALSE /\ served = FALSE
    /\ reconnecting = FALSE /\ redo = FALSE
    /\ rt = "idle" /\ tries = 0
    /\ reader = [l \in Links |-> "done"]
    /\ on = [l \in Links |-> None]
    /\ errors = [l \in Links |-> 0]
    /\ cancelled = {} /\ readerScope = None
    /\ beat = [l \in Links |-> "done"]
    /\ beatOn = [l \in Links |-> None]
    /\ beatCancelled = {} /\ beatScope = None
    /\ monitored = FALSE /\ quiet = FALSE
    /\ told = "up"

----------------------------------------------------------------------------
(* The event loop.                                                         *)

\* No task is spawned but not yet started, and none is cancelled but not yet
\* unwound: what holds when a task resumes from a suspension.
Settled ==
    /\ \A l \in Links : reader[l] # "spawned" /\ beat[l] # "spawned"
    /\ cancelled = {} /\ beatCancelled = {}

\* A link nothing refers to any more.
Unused(l) ==
    /\ stream # l
    /\ reader[l] = "done" /\ beat[l] = "done"
    /\ \A k \in Links : on[k] # l /\ beatOn[k] # l

\* Which unused identity a new link gets does not matter.
FreshLink == CHOOSE l \in Links : Unused(l)

----------------------------------------------------------------------------
(* The network.                                                            *)

\* The current link fails: the peer's end is seen by a read ("dead"), or
\* nothing arrives any more ("silent", half-open), or the byte stream loses
\* its framing ("corrupt").  A half-open link may be reset later.
Fail(l, how) ==
    /\ stream = l
    /\ \/ wire[l] = "up" /\ how \in {"silent", "dead", "corrupt"}
       \/ wire[l] = "silent" /\ how = "dead"
    /\ wire' = [wire EXCEPT ![l] = how]
    /\ UNCHANGED <<phase, stream, protocolVars, readerVars, beatVars>>

----------------------------------------------------------------------------
(* Protocol.handle_disconnect: whoever sees the drop reports it.  The      *)
(* listener's on_connection_lost does not suspend, so this is one step.    *)

\* A report made while reconnecting is thrown away.
HandleDisconnectForgetful ==
    /\ IF running /\ ~reconnecting /\ served
       THEN reconnecting' = TRUE /\ rt' = "spawned" /\ told' = "down"
       ELSE UNCHANGED <<reconnecting, rt, told>>
    /\ UNCHANGED redo

HandleDisconnect ==
    \/ /\ running /\ reconnecting
       /\ redo' = TRUE
       /\ UNCHANGED <<reconnecting, rt, told>>
    \/ /\ running /\ ~reconnecting /\ served
       /\ reconnecting' = TRUE
       /\ rt' = "spawned"
       /\ told' = "down"
       /\ UNCHANGED redo
    \/ /\ ~running \/ (~reconnecting /\ ~served)
       /\ UNCHANGED <<reconnecting, redo, rt, told>>

----------------------------------------------------------------------------
(* Protocol._reader_loop.                                                  *)

ReaderLive(r) == reader[r] \in {"spawned", "reading", "backoff"}

\* A reader that may go on: cancellation reaches the others first.
ReaderAlive(r) == r \notin cancelled /\ phase # "stopping"

\* A reader that has returned: its locals are gone, its scope is inert.
ReaderExits(r) ==
    /\ reader' = [reader EXCEPT ![r] = "done"]
    /\ on' = [on EXCEPT ![r] = None]
    /\ errors' = [errors EXCEPT ![r] = 0]
    /\ cancelled' = cancelled \ {r}

\* The top of the loop: leave if not running, and leave without a word if
\* the transport has no stream; otherwise read whatever stream it has now.
ReadNext(r, n) ==
    IF running /\ stream # None
    THEN /\ reader' = [reader EXCEPT ![r] = "reading"]
         /\ on' = [on EXCEPT ![r] = stream]
         /\ errors' = [errors EXCEPT ![r] = n]
         /\ UNCHANGED cancelled
    ELSE ReaderExits(r)

ReaderStart(r) ==
    /\ reader[r] = "spawned"
    /\ readerScope' = r
    /\ ReadNext(r, 0)
    /\ UNCHANGED <<phase, linkVars, protocolVars, beatVars>>

\* A message is read and dispatched.  One that answers a pending request is
\* handed over; any other goes to the event handlers, of which the monitor's
\* _record_activity is one for as long as the monitor is served.
ReaderReceives(r, isReply) ==
    /\ reader[r] = "reading" /\ ReaderAlive(r)
    /\ on[r] # None /\ wire[on[r]] = "up"
    /\ quiet' = (quiet /\ (isReply \/ ~monitored))
    /\ ReadNext(r, 0)
    /\ UNCHANGED <<phase, linkVars, protocolVars, readerScope,
                   beat, beatOn, beatCancelled, beatScope, monitored>>

\* The failure of the stream is retried like that of a message.
ReaderSeesEndRetries(r) ==
    /\ reader[r] = "reading"
    /\ on[r] # None /\ wire[on[r]] \in {"dead", "corrupt"}
    /\ UNCHANGED vars

\* End of stream, a broken or closed resource, or a framing error.  A reader
\* whose read had already completed this way when it was cancelled still
\* runs this step.
ReaderSeesEnd(r) ==
    /\ reader[r] = "reading"
    /\ on[r] # None /\ wire[on[r]] \in {"dead", "corrupt"}
    /\ HandleDisconnect
    /\ ReaderExits(r)
    /\ UNCHANGED <<phase, linkVars, running, served, tries, readerScope,
                   beatVars>>

\* One error too many is tolerated.
ReaderFailsOffByOne(r) ==
    /\ reader[r] = "reading" /\ ReaderAlive(r)
    /\ on[r] # None /\ wire[on[r]] = "up"
    /\ \/ /\ errors[r] < MaxReadErrors
          /\ reader' = [reader EXCEPT ![r] = "backoff"]
          /\ on' = [on EXCEPT ![r] = None]
          /\ errors' = [errors EXCEPT ![r] = @ + 1]
          /\ UNCHANGED <<cancelled, protocolVars>>
       \/ /\ errors[r] >= MaxReadErrors
          /\ HandleDisconnect
          /\ ReaderExits(r)
          /\ UNCHANGED <<running, served, tries>>
    /\ UNCHANGED <<phase, linkVars, readerScope, beatVars>>

\* A message that cannot be processed: tolerated until there have been
\* MaxReadErrors of them in a row.
ReaderFails(r) ==
    /\ reader[r] = "reading" /\ ReaderAlive(r)
    /\ on[r] # None /\ wire[on[r]] = "up"
    /\ \/ /\ errors[r] + 1 < MaxReadErrors
          /\ reader' = [reader EXCEPT ![r] = "backoff"]
          /\ on' = [on EXCEPT ![r] = None]
          /\ errors' = [errors EXCEPT ![r] = @ + 1]
          /\ UNCHANGED <<cancelled, protocolVars>>
       \/ /\ errors[r] + 1 >= MaxReadErrors
          /\ HandleDisconnect
          /\ ReaderExits(r)
          /\ UNCHANGED <<running, served, tries>>
    /\ UNCHANGED <<phase, linkVars, readerScope, beatVars>>

ReaderBackoffEnds(r) ==
    /\ reader[r] = "backoff" /\ ReaderAlive(r)
    /\ ReadNext(r, errors[r])
    /\ UNCHANGED <<phase, linkVars, protocolVars, readerScope, beatVars>>

ReaderUnwinds(r) ==
    /\ reader[r] \in {"reading", "backoff"} /\ ~ReaderAlive(r)
    /\ ReaderExits(r)
    /\ UNCHANGED <<phase, linkVars, protocolVars, readerScope, beatVars>>

----------------------------------------------------------------------------
(* HeartbeatManager.                                                       *)

BeatLive(b) == beat[b] \in {"spawned", "sleeping", "sending"}

BeatAlive(b) == b \notin beatCancelled /\ phase # "stopping"

BeatExits(b) ==
    /\ beat' = [beat EXCEPT ![b] = "done"]
    /\ beatOn' = [beatOn EXCEPT ![b] = None]
    /\ beatCancelled' = beatCancelled \ {b}

BeatStart(b) ==
    /\ beat[b] = "spawned"
    /\ beat' = [beat EXCEPT ![b] = "sleeping"]
    /\ beatScope' = b
    /\ UNCHANGED <<phase, linkVars, protocolVars, readerVars,
                   beatOn, beatCancelled, monitored, quiet>>

\* The timeout is noticed and the loop goes back to sleep.
BeatTimesOutIdly(b) ==
    /\ beat[b] = "sleeping" /\ BeatAlive(b)
    /\ quiet
    /\ UNCHANGED vars

\* The server has been quiet for longer than the timeout: report and return.
BeatTimesOut(b) ==
    /\ beat[b] = "sleeping" /\ BeatAlive(b)
    /\ quiet
    /\ HandleDisconnect
    /\ BeatExits(b)
    /\ UNCHANGED <<phase, linkVars, running, served, tries, readerVars,
                   beatScope, monitored, quiet>>

\* send_event: refused at once without a running protocol or a stream.
BeatSends(b) ==
    /\ beat[b] = "sleeping" /\ BeatAlive(b)
    /\ ~quiet
    /\ \/ /\ running /\ stream # None
          /\ beat' = [beat EXCEPT ![b] = "sending"]
          /\ beatOn' = [beatOn EXCEPT ![b] = stream]
          /\ UNCHANGED <<beatCancelled, protocolVars>>
       \/ /\ ~running \/ stream = None
          /\ HandleDisconnect
          /\ BeatExits(b)
          /\ UNCHANGED <<running, served, tries>>
    /\ UNCHANGED <<phase, linkVars, readerVars, beatScope, monitored, quiet>>

\* The write completes: on a live link, into the buffers of a half-open one,
\* or because closing the link underneath it released a blocked write.
BeatSent(b) ==
    /\ beat[b] = "sending" /\ BeatAlive(b)
    /\ \/ beatOn[b] # stream
       \/ stream # None /\ wire[stream] \in {"up", "silent"}
    /\ beat' = [beat EXCEPT ![b] = "sleeping"]
    /\ beatOn' = [beatOn EXCEPT ![b] = None]
    /\ UNCHANGED <<phase, linkVars, protocolVars, readerVars,
                   beatCancelled, beatScope, monitored, quiet>>

\* The write fails, on a failed link or on one closed underneath it.
BeatSendFails(b) ==
    /\ beat[b] = "sending" /\ BeatAlive(b)
    /\ \/ beatOn[b] # stream
       \/ stream # None /\ wire[stream] # "up"
    /\ HandleDisconnect
    /\ BeatExits(b)
    /\ UNCHANGED <<phase, linkVars, running, served, tries, readerVars,
                   beatScope, monitored, quiet>>

BeatUnwinds(b) ==
    /\ beat[b] \in {"sleeping", "sending"} /\ ~BeatAlive(b)
    /\ BeatExits(b)
    /\ UNCHANGED <<phase, linkVars, protocolVars, readerVars,
                   beatScope, monitored, quiet>>

\* Time passes without the server being heard.
GoesQuiet ==
    /\ TimeoutOn /\ monitored /\ ~quiet
    /\ quiet' = TRUE
    /\ UNCHANGED <<phase, linkVars, protocolVars, readerVars,
                   beat, beatOn, beatCancelled, beatScope, monitored>>

\* heartbeat.serve returns when no loop of its task group is left.
MonitorReturns ==
    /\ monitored
    /\ \A b \in Links : beat[b] = "done"
    /\ monitored' = FALSE
    /\ beatScope' = None
    /\ UNCHANGED <<phase, linkVars, protocolVars, readerVars,
                   beat, beatOn, beatCancelled, quiet>>

\* heartbeat.restart without the cancellation of the loop still asleep.
MonitorRestartKeepingOld(l) ==
    /\ quiet' = FALSE
    /\ beat' = IF monitored THEN [beat EXCEPT ![l] = "spawned"] ELSE beat
    /\ UNCHANGED <<beatCancelled, beatOn, beatScope, monitored>>

\* heartbeat.restart: cancel the loop that last entered its scope, reset the
\* timer, and spawn a loop if serve's task group is still there.
MonitorRestart(l) ==
    /\ beatCancelled' = beatCancelled \cup {b \in Links : b = beatScope /\ BeatLive(b)}
    /\ quiet' = FALSE
    /\ beat' = IF monitored THEN [beat EXCEPT ![l] = "spawned"] ELSE beat
    /\ UNCHANGED <<beatOn, beatScope, monitored>>

----------------------------------------------------------------------------
(* Protocol._reconnect_task.                                               *)

\* A pass that leaves the reader of the dead link alone.
StartPassKeepingReader ==
    /\ redo' = FALSE
    /\ readerScope' = None
    /\ stream' = None
    /\ rt' = "closing"
    /\ UNCHANGED <<wire, running, served, reconnecting, tries,
                   reader, on, errors, cancelled>>

\* The top of its loop: forget earlier reports, cancel the reader, and start
\* closing the transport, which clears the stream before it suspends.
StartPass ==
    /\ redo' = FALSE
    /\ cancelled' = cancelled \cup {r \in Links : r = readerScope /\ ReaderLive(r)}
    /\ readerScope' = None
    /\ stream' = None
    /\ rt' = "closing"
    /\ UNCHANGED <<wire, running, served, reconnecting, tries,
                   reader, on, errors>>

\* A task runs to its first suspension even if it is cancelled by then.
ReconnectTaskStarts ==
    /\ rt = "spawned" /\ Settled
    /\ StartPass
    /\ UNCHANGED <<phase, told, beatVars>>

\* The finally clause that does not clear _reconnecting.
TaskEndsDirty == rt' = "idle" /\ UNCHANGED <<reconnecting, redo>>

\* The finally clause of the task.
TaskEnds == rt' = "idle" /\ reconnecting' = FALSE /\ redo' = FALSE

\* Giving up without stopping the protocol.
AbandonStillRunning ==
    /\ phase' = IF Attempts = 0 THEN phase ELSE "stopping"
    /\ TaskEnds
    /\ UNCHANGED running

\* _abandon: not running any more.  Unless reconnection is disabled by
\* configuration the error escapes and takes every task down with it.
Abandon ==
    /\ running' = FALSE
    /\ phase' = IF Attempts = 0 THEN phase ELSE "stopping"
    /\ TaskEnds

\* transport.close() has returned; _reconnect begins, or refuses to.
CloseReturns ==
    /\ rt = "closing" /\ Settled /\ phase # "stopping"
    /\ tries' = 0
    /\ \/ /\ Attempts = 0
          /\ Abandon
       \/ /\ Attempts # 0
          /\ rt' = "connecting"
          /\ UNCHANGED <<phase, running, reconnecting, redo>>
    /\ UNCHANGED <<linkVars, served, told, readerVars, beatVars>>

\* One attempt fails; the budget may be exhausted.
ConnectFails ==
    /\ rt = "connecting" /\ Settled /\ phase # "stopping"
    /\ \/ /\ Attempts = Unlimited
          /\ UNCHANGED <<phase, running, reconnecting, redo, rt, tries>>
       \/ /\ Attempts # Unlimited /\ tries + 1 < Attempts
          /\ tries' = tries + 1
          /\ UNCHANGED <<phase, running, reconnecting, redo, rt>>
       \/ /\ Attempts # Unlimited /\ tries + 1 >= Attempts
          /\ tries' = 0
          /\ Abandon
    /\ UNCHANGED <<linkVars, served, told, readerVars, beatVars>>

\* An attempt succeeds: the reader is spawned, the supervisor restarts the
\* heartbeat and calls its listeners, whose first request suspends.  This
\* may also happen just as the client is being closed.
ConnectSucceeds ==
    /\ rt = "connecting" /\ Settled
    /\ \E l \in Links : Unused(l)
    /\ stream' = FreshLink
    /\ wire' = [wire EXCEPT ![FreshLink] = "up"]
    /\ reader' = [reader EXCEPT ![FreshLink] = "spawned"]
    /\ MonitorRestart(FreshLink)
    /\ rt' = "restoring"
    /\ tries' = 0
    /\ told' = "restoring"
    /\ UNCHANGED <<phase, running, served, reconnecting, redo,
                   on, errors, cancelled, readerScope>>

\* The second loss is not reported before going round again.
RestoreReturnsSilently ==
    /\ rt = "restoring" /\ Settled /\ phase # "stopping"
    /\ told' = "up"
    /\ \/ ~redo /\ TaskEnds
          /\ UNCHANGED <<linkVars, running, served, tries, readerVars>>
       \/ redo /\ StartPass
    /\ UNCHANGED <<phase, beatVars>>

\* The listeners have returned.  If the drop of the new link was reported
\* meanwhile, tell them and go round again, else the task is over.
RestoreReturns ==
    /\ rt = "restoring" /\ Settled /\ phase # "stopping"
    /\ \/ /\ ~redo
          /\ told' = "up"
          /\ TaskEnds
          /\ UNCHANGED <<linkVars, running, served, tries, readerVars>>
       \/ /\ redo
          /\ told' = "down"
          /\ StartPass
    /\ UNCHANGED <<phase, beatVars>>

\* Closing the client cancels the task at whatever it awaits.
ReconnectUnwinds ==
    /\ rt \notin {"idle", "spawned"} /\ phase = "stopping"
    /\ TaskEnds
    /\ UNCHANGED <<phase, linkVars, running, served, tries, told, readerVars, beatVars>>

----------------------------------------------------------------------------
(* ConnectionSupervisor.serving.                                           *)

\* transport.connect() and protocol.serve() up to its started().
Open ==
    /\ phase = "closed"
    /\ \E l \in Links : Unused(l)
    /\ phase' = "opened"
    /\ stream' = FreshLink
    /\ wire' = [wire EXCEPT ![FreshLink] = "up"]
    /\ running' = TRUE
    /\ served' = TRUE
    /\ reader' = [reader EXCEPT ![FreshLink] = "spawned"]
    /\ told' = "up"
    /\ UNCHANGED <<reconnecting, redo, rt, tries, on, errors, cancelled,
                   readerScope, beatVars>>

\* heartbeat.serve() up to its started().  Its first loop may have any name.
StartMonitor ==
    /\ phase = "opened" /\ Settled
    /\ phase' = "serving"
    /\ monitored' = TRUE
    /\ quiet' = FALSE
    /\ beat' = [beat EXCEPT ![CHOOSE l \in Links : TRUE] = "spawned"]
    /\ UNCHANGED <<linkVars, protocolVars, readerVars, beatOn, beatCancelled, beatScope>>

\* The block is left: heartbeat.stop(), then protocol.stop().
Stop ==
    /\ phase = "serving"
    /\ phase' = "stopping"
    /\ running' = FALSE
    /\ UNCHANGED <<linkVars, served, reconnecting, redo, rt, tries, told,
                   readerVars, beatVars>>

\* The caller is cancelled while heartbeat.serve() is being started: the task
\* group is cancelled with it, and nothing calls protocol.stop().
CancelOpening ==
    /\ phase = "opened"
    /\ phase' = "stopping"
    /\ UNCHANGED <<linkVars, protocolVars, readerVars, beatVars>>

\* protocol.serve returns once its task group is empty.
ServeReturns ==
    /\ served
    /\ rt = "idle" /\ \A r \in Links : reader[r] = "done"
    /\ running' = FALSE
    /\ served' = FALSE
    /\ readerScope' = None
    /\ UNCHANGED <<phase, linkVars, reconnecting, redo, rt, tries, told,
                   reader, on, errors, cancelled, beatVars>>

\* Both loops are down: transport.close(), and serving() is over.
Close ==
    /\ phase = "stopping" /\ ~served /\ ~monitored
    /\ phase' = "closed"
    /\ stream' = None
    /\ UNCHANGED <<wire, protocolVars, readerVars, beatVars>>

----------------------------------------------------------------------------

ReaderNext(r) ==
    \/ ReaderStart(r)
    \/ \E isReply \in BOOLEAN : ReaderReceives(r, isReply)
    \/ ReaderSeesEnd(r)
    \/ ReaderFails(r)
    \/ ReaderBackoffEnds(r)
    \/ ReaderUnwinds(r)

BeatNext(b) ==
    \/ BeatStart(b)
    \/ BeatTimesOut(b)
    \/ BeatSends(b)
    \/ BeatSent(b)
    \/ BeatSendFails(b)
    \/ BeatUnwinds(b)

ReconnectNext ==
    \/ ReconnectTaskStarts
    \/ CloseReturns
    \/ ConnectFails
    \/ ConnectSucceeds
    \/ RestoreReturns
    \/ ReconnectUnwinds

SupervisorNext ==
    \/ Open
    \/ StartMonitor
    \/ Stop
    \/ CancelOpening
    \/ ServeReturns
    \/ MonitorReturns
    \/ Close

Next ==
    \/ \E l \in Links : ReaderNext(l) \/ BeatNext(l)
    \/ ReconnectNext
    \/ SupervisorNext
    \/ \E l \in Links, how \in WireState : Fail(l, how)
    \/ GoesQuiet

Spec == Init /\ [][Next]_vars

\* What the event loop and the network owe the client.  A task that can run
\* is run; timers fire; a write on a link that stopped answering ends, with
\* TCP's own timeout if nothing else; the listeners return, because every
\* request they make carries a timeout; and a server that is down does not
\* stay unreachable for ever.
Fairness ==
    /\ \A l \in Links :
         /\ WF_vars(ReaderStart(l)) /\ WF_vars(ReaderSeesEnd(l))
         /\ WF_vars(ReaderBackoffEnds(l)) /\ WF_vars(ReaderUnwinds(l))
         /\ WF_vars(BeatStart(l)) /\ WF_vars(BeatUnwinds(l))
         /\ WF_vars(BeatTimesOut(l) \/ BeatSends(l))
         /\ WF_vars(BeatSent(l) \/ BeatSendFails(l))
    /\ WF_vars(GoesQuiet)
    /\ WF_vars(ReconnectTaskStarts) /\ WF_vars(CloseReturns)
    /\ WF_vars(ConnectSucceeds)
    /\ WF_vars(RestoreReturns) /\ WF_vars(ReconnectUnwinds)
    /\ WF_vars(StartMonitor)
    /\ WF_vars(ServeReturns) /\ WF_vars(MonitorReturns) /\ WF_vars(Close)

FairSpec == Spec /\ Fairness

----------------------------------------------------------------------------
(* Properties.                                                             *)

\* A reader that will see the end of the current link.
Watches(r) ==
    /\ ReaderLive(r) /\ r \notin cancelled
    /\ reader[r] = "reading" => on[r] = stream

\* handle_disconnect and _reconnect_task between them never lose a drop: a
\* running client that is neither reconnecting nor being closed has a stream
\* and a reader that watches it.  (The reader that reports a drop exits, and a report made
\* during a reconnection is only a flag, so a flag read too early would
\* leave nobody.)
NeverStranded ==
    (running /\ ~reconnecting /\ phase # "stopping") =>
        /\ stream # None
        /\ \E r \in Links : Watches(r)

\* _reconnect_task cancels the old reader and closes its stream before it
\* reconnects, so a stale reader never races the fresh one for the frames of
\* the new stream.
OneReader ==
    \A r, q \in Links : (ReaderLive(r) /\ ReaderLive(q)) => r = q

\* heartbeat.restart cancels the loop left from the old link, so reconnecting
\* does not accumulate heartbeat loops.
OneHeartbeatLoop ==
    \A b, c \in Links :
        (BeatLive(b) /\ BeatLive(c) /\ b # c) => (b \in beatCancelled \/ c \in beatCancelled)

\* Leaving the serving() block, however it ends, leaves nothing behind that
\* the next use of the client would inherit: no stream, no task, no flag.
ClosedIsClean ==
    phase = "closed" =>
        /\ stream = None /\ readerScope = None /\ beatScope = None
        /\ ~running /\ ~served /\ ~reconnecting /\ ~redo /\ rt = "idle"
        /\ \A l \in Links : reader[l] = "done" /\ beat[l] = "done"

\* The link as its listener sees it.
ListenerLink == IF phase = "closed" THEN "closed"
                ELSE IF ~running THEN "over" ELSE told

Contract == INSTANCE LinkContract WITH link <- ListenerLink

\* What an implementation of ConnectionListener may rely on: it is asked to
\* restore only a link whose loss it was told of, a link is up again only
\* when it has finished restoring it, a drop meanwhile is told to it before
\* the next restoration; and a loss is followed by a restoration or by the
\* end of the client, and every restoration is concluded.
ListenerContract == Contract!FairSpec

\* The safety half of it.
ListenerContractSafety == Contract!Spec

\* A client that is no longer running, closed or given up, winds down: every
\* loop of the connection layer ends, also when reconnection is disabled and
\* nothing cancels them.
StoppedWindsDown == ~running ~> (~served /\ ~monitored)

\* A drop the reader can see is acted on: the dead link is replaced, or the
\* client stops.
SeenDropReplaced ==
    \A l \in Links :
        (running /\ stream = l /\ wire[l] \in {"dead", "corrupt"}) ~> (~running \/ stream # l)

\* A half-open link, which no read ever reports, is replaced as long as a
\* heartbeat loop is there to notice it (and a heartbeat timeout is set).
SilentDropReplaced ==
    TimeoutOn =>
    \A l \in Links :
        (running /\ stream = l /\ wire[l] = "silent" /\ monitored
            /\ \E b \in Links : BeatLive(b) /\ b \notin beatCancelled)
        ~> (~running \/ stream # l)

\* HeartbeatManager.restart "spawns a new heartbeat loop", and the supervisor
\* tells its listeners "once the link is fully serviced again": a client that
\* is up has a heartbeat loop.
LinkServiced ==
    (phase = "serving" /\ running /\ ~reconnecting) => \E b \in Links : BeatLive(b)

\* handle_disconnect: "the reader and heartbeat loops racing to report the
\* same drop only produce a single reconnection", so the link a pass of the
\* reconnection closes has failed in some way since it came up.
OnlyFailedLinksReplaced ==
    [][(rt' = "closing" /\ rt # "closing" /\ stream # None) =>
          \/ wire[stream] # "up"
          \/ quiet
          \/ \A r \in Links : ~Watches(r)]_vars
=============================================================================
