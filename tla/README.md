# Verification of ctrader-api-client

TLA+ models of `ctrader_api_client`, an asyncio/anyio
client for the cTrader Open API, with TLC runs and TLAPS proofs. Paths below
are relative to `src/src/ctrader_api_client/`.

## The system

The client holds one TCP/TLS connection to a server and multiplexes requests,
replies and server events over it. It is single-threaded: tasks interleave only
where they await. What makes it hard is that several long-lived tasks (reader,
heartbeat loop, reconnection, session recovery, token refresh, event handlers)
and any number of user calls share state across their awaits while the link
underneath them comes and goes.

| Component | State | Operations | Talks to |
|---|---|---|---|
| `connection/transport.py` Transport | `_stream` | connect, close, send, stream | the network |
| `connection/protocol.py` Protocol, link side | `_running`, `_task_group`, `_reader_scope`, `_reconnecting`, `_redo_requested` | serve, stop, `_reader_loop`, handle_disconnect, `_reconnect_task`, `_reconnect`, `_abandon` | Transport; tells its listener |
| Protocol, request side | `_pending`, `_write_lock`, id counter | send_request, request, send_event, `_dispatch_message`, `_fail_pending` | Transport; wakes callers; event handlers |
| Protocol, event registry | `_event_handlers` | on_event, remove_handler, `_dispatch_event` | spawns handlers |
| `connection/heartbeat.py` HeartbeatManager | `_last_received`, `_task_scope`, `_task_group`, `_disposers` | serve, stop, restart, the loop | send_event, handle_disconnect |
| `connection/supervisor.py` ConnectionSupervisor | `_serving`, `_listeners` | serving, on_connection_lost, on_connection_restored | the three above; its listeners |
| `auth/_session.py` SessionStore | credentials, authorised accounts, refreshes in progress, accounts awaiting recovery | authorize, invalidate_all, flag_for_recovery, ... | read and written by the next three |
| `auth/manager.py` AuthManager | app authorised | authenticate_app, establish, probe_session, remove_account | requests |
| `auth/_recovery.py` SessionRecovery | wake-up event, app-auth backoff | serve, on_connection_lost/restored, handle_account_disconnect, `_reauth_loop` | listener of the supervisor; requests; events |
| `auth/_refresh.py` TokenRefresher | - | `_refresh_loop`, `_refresh_account` | requests; credential store |
| `api/market_data.py` MarketDataAPI | standing subscriptions | subscribe_*, unsubscribe_*, forget, restore | requests; restored by recovery |
| `api/trading.py`, `accounts.py`, `symbols.py` | - | one request each | requests |
| `events/emitter.py` EventEmitter | handlers and filters | subscribe, unsubscribe, emit | user handlers |
| `events/router.py` EventRouter | its registrations | start, stop, one handler per message type | on_event, emit |
| `client.py`, `composition.py` | the open blocks | `__aenter__`, `__aexit__` | everything |
| `_internal/serialization.py`, `messages.py`, `conversions.py`, `models/` | - | framing, registry, scaling, delta decoding | - |

What makes each part correct:

* **link**: a drop, whoever notices it and whenever it happens, leads to one
  reconnection or to the end of the client; loops are neither lost nor
  duplicated; listeners hear a well-formed history; closing leaves nothing;
* **requests**: an answer reaches the call it answers and no other; slots and
  the write lock are released on every path; every call ends;
* **sessions**: an account that the user added is authorised again after every
  loss, or waits to be; a removed one stays removed; a refreshed token is never
  rolled back; a token rotation is not published as a drop;
* **subscriptions**: what stands after a reconnection is what the user last
  asked for;
* **events**: each handler that is registered throughout gets each event once;
* **lifecycle**: blocks are left in the reverse of the order they were entered
  in, whichever step fails.

The hazards these properties are for are listed, at their lines, in
`PROJECT.json`.

## Modules

| Module | What it is |
|---|---|
| `LinkContract` | abstract specification: what a `ConnectionListener` may assume about the link |
| `Connection` | Transport, Protocol's link side, HeartbeatManager and ConnectionSupervisor |
| `ConnectionProofs` | theorems about `Connection`, and that it implements `LinkContract` |
| `Requests` | Protocol's request side, composed with `LinkContract` |
| `Sessions` | SessionStore, AuthManager, SessionRecovery and TokenRefresher, composed with `LinkContract` |
| `Subscriptions` | MarketDataAPI's standing subscriptions and their restore inside `establish` |
| `Records` | the conversions of `models/`, `_internal/conversions.py` and `events/_execution.py`, as operators |
| `Trading` | TradingAPI, AccountsAPI, SymbolsAPI and the history calls: requests, the server's book, what is made of answers |
| `Events` | EventEmitter, EventRouter and Protocol's event dispatch |
| `Client` | CTraderClient's lifecycle, composed with `Trading` and `Events` |
| `RequestsProofs`, `SessionsProofs`, `SubscriptionsProofs`, `ClientProofs` | theorems about those modules; `ClientProofs` is about `Client` with `Trading` and `Events` |
| `RecordsProofs` | lemmas about the conversions of `Records` that walk a list: ticks, pending orders, search |
| `TradingProofs` | theorems about what the server holds and what queries return, on top of `ClientProofs` and `RecordsProofs` |
| `SequenceLemmas` | what taking, appending, concatenating and removing do to the places of a sequence, for the proofs |
| `MCConnection`, `MCRequests`, `MCSessions`, `MCSubscriptions`, `MCClient` | the modules TLC runs on |

`LinkContract` is the seam: `Connection` is shown to implement it, `Requests`
and `Sessions` move their link by its steps. `Client` takes the link as a stream
of messages that may be lost, since the two modules before it cover the rest.

### Connection

One action is what a task does between two suspensions. The event loop's ready
queue is first in, first out, so a task that was spawned or cancelled runs
before the task that spawned or cancelled it resumes from its own next
suspension; the guard `Settled` says that, and it is needed: without it a stale
reader could outlive the connection attempt that follows its cancellation.

| State | Code |
|---|---|
| `phase` | where `serving()` is: closed, opened (protocol served), serving, stopping |
| `stream`, `wire` | `Transport._stream`; what the network does with each stream |
| `running`, `served`, `reconnecting`, `redo` | the Protocol fields of those names (`served`: `_task_group` is set) |
| `rt`, `tries` | where `_reconnect_task` is suspended; failed attempts |
| `reader`, `on`, `errors`, `cancelled`, `readerScope` | every reader loop, its stream, its error count, cancellations not yet delivered, `_reader_scope` |
| `beat`, `beatOn`, `beatCancelled`, `beatScope`, `monitored`, `quiet` | the same for heartbeat loops; `monitored`: heartbeat `_task_group` is set; `quiet`: the inactivity timeout has passed |
| `told` | what the listener was last told |

A link fails by ending or losing its framing (a read sees it) or by going
silent (only a timer or a later reset reveals it). Links and the tasks spawned
with them are named from `Links`; a name is reused once nothing refers to it, so
runs are unbounded although `Links` is small. The listener's
`on_connection_lost` does not suspend (`SessionRecovery.on_connection_lost`
only updates fields), so it is part of the reporting step;
`on_connection_restored` makes requests, so it lasts from `ConnectSucceeds` to
`RestoreReturns`. Handlers spawned for events are not modelled (the activity
handler is taken to run with the dispatch that spawns it, and `serve` to return
once its reader and reconnection task are gone), and a listener is assumed to
return.

### Requests

Callers move through the stages of `send_request` (idle, queueing for the write
lock, writing, waiting, timed out but not unwound). The link moves by the steps
of `LinkContract`, each extended with what it does to the stream and to pending
requests. The server answers any request it received any number of times with a
reply, a reply of an unexpected type, or an error; it may also stay silent. A
write on a dead or closed stream may fail or may have gone into a buffer. A call
may be cancelled by its caller at any await.

### Sessions

What a task does between two awaits is one action. An awaited request is served
and its caller resumed in one later action, because the replies and the events
of one link are handled in the order in which they were sent.

| State | Code |
|---|---|
| `session`, `cred`, `refreshing` | SessionStore: per account whether it is unknown, held without a session, authorised, or awaiting recovery (due, or in its backoff); the token pair held; `_refreshing` |
| `app`, `signal`, `verifying`, `lp`, `due` | SessionRecovery: `_app_auth_pending` and its backoff, `_reauth_signal`, `_verifying`; where `_reauth_loop` waits and what is left of its round |
| `sp`, `todo` | `on_connection_restored`, and what is left of its snapshot |
| `hp` | one handler of `ProtoOAAccountDisconnectEvent` per element of `Reports`: not started, waiting for a refresh, awaiting its probe, or awaiting the emit of the drop it confirmed (`_verifying` is held until that returns) |
| `rp`, `check`, `saved` | TokenRefresher: where it waits, with which pair, after how many attempts; its snapshot; the durable store |
| `spent`, `unsure` | history: accounts whose session the rotation under way has ended; accounts a report came to nothing for, in one of the two ways that `AuthorizedIsServed` excepts |
| `srvApp`, `live`, `tok`, `age` | the server: application authorised, accounts served, the pair it accepts, how near that is to expiry |
| `link`, `wire`, `lost` | what the listener was told; whether the link works; requests that went down with it |

A token pair is the number of rotations that produced it. The length of a
backoff and of the refresh window is abstracted to whether it has passed.
Faults, at most `MaxFaults` of them, are: the link dies, the server ends a
session, refuses a request, answers too late or not at all (having acted or not),
and storage fails. An answer that does not arrive is a step of its own where
others can see what the server did before the request times out: the application
authorised behind a listener or a recovery loop that still waits
(`AppAuthUnheard`), and the pair rotated behind a refresher that still waits
(`RefreshUnheard`). A client that is closed may be opened again: it keeps its
credentials and its signal, as the `finally` of `serve` does. A process that ends
starts again with nothing but the durable store.

`probe_session` answers no to every refusal that does not name the token, so a
refused check of an account is a drop whether or not the server serves it
(`Refuses`, `ProbeDropped`); a refusal that names the token, a timeout and a dead
link decide nothing (`ProbeInconclusive`). The handler keeps the account in
`_verifying` while the application's handlers of the `AccountDisconnectEvent` run
(`ProbeDropped` to `DropPublished`), and turns away reports meanwhile.

Assumed of the server, from how the code treats it: it looks at the token before
the session; it accepts a repeated application authorisation; a rotation ends
the session authorised with the old pair and reports that. The application
authenticates accounts it does not hold, with the pair in the durable store.
Reports for one account that have not asked the server yet are one report. The
other events published here change no state of this module and are left out; the
restore of subscriptions inside `establish` is the subject of the next module.

### Subscriptions

One account, as accounts share nothing in MarketDataAPI. A topic is the spots or
the depth of a symbol or its trendbars of one period. `standing` is the record
of intent, `subs` what the server sends, `call` the request each task awaits;
`stage`, `left` and `view` are where a restore is, the trendbars it has yet to
ask for, and the record object it holds when `forget` has replaced it. Two
restores may overlap, the older one belonging to a session that is gone.

Not every session is restored and announced. `establish` for a token refresh does
neither, which is right for a session that is renewed in place and not for one
that had ended; nor does an `establish` that timed out after the server had acted.
Both are `EstablishQuietly`. The recovery loop, refused such a session as already
authorised, announces it without a restore (`RecoveredElsewhere`).
`strayed` marks a session that carries a feed the record cannot know of: the
answer to a subscription came too late, or the account was forgotten.

### Records and Trading

`Records` has the conversions in both directions for the fields that are
converted differently from one another. Prices are integers in the wire's
smallest unit; money is in units of 10^-8 (`Places`, a bound on the digits a
message may state); distances and times, which the application gives as decimals
and as datetimes, are finer than the wire by the factor `Fine` and truncated on
the way out. Zero is "not set", as proto3 has it. The truncation of a time is
exact here; the code multiplies a float, which gives the same millisecond for
times before 2038 and may fall one short after.

`Trading` puts them to use: one task has a call under way, and the server keeps
one order or position, applies or refuses what it is asked, and answers with one
or two messages, also to calls that have timed out. `asked` is the history of
what the applied requests meant in the application's terms, against which
`BookIsAsAsked` compares the server's record. An amendment starts from the order
the application was last shown, as it replaces every field. For queries the
server picks a truth from `Truths` and encodes it with the digits of that message,
stated or omitted, and `ReadsAreTrue` compares what the application is given with
that truth. `AsShown` lists what is shown as absent although it is there.

### Events and Client

`jobs` are the tasks that `_dispatch_event` spawned for a message: not started, or
inside `emit` with the subscriptions still to run. `subscriptions` is the emitter's
dictionary, one list per event class, `regs` and `disposers` the router's
registrations as the protocol and as the router see them. Handlers may raise,
subscribe, unsubscribe, make a call or never return. Of an event, what filters look
at is kept: the account and the symbol.

`phase` follows `__aenter__`, `_lifecycle` and `__aexit__`: connecting, authorising
the application, starting the two monitors and the router, open, and the way out.
Every step may fail; a monitor or the protocol may die under the client. A protocol
that gives up on its link raises, which cancels the block (`ProtocolFails`), unless
`reconnect_attempts` is zero: then it stops without raising, wakes whoever waits,
and the block stays open with the router, the monitors and the handlers at work
(`ProtocolStops`). Cancelling a block runs its `finally` without suspending, so that
is part of the step that fails. A drop and the link that replaces it are one step,
which loses what was under way.

## Runs

| Run | Instance | Result |
|---|---|---|
| `ConnSafety` | 3 links, 2 attempts, 2 read errors | passes: `TypeOK`, `NeverStranded`, `OneReader`, `OneHeartbeatLoop`, `ClosedIsClean`, `ListenerContractSafety` |
| `ConnLive` | 3 links, unlimited attempts, fair | passes: `ListenerContract`, `SeenDropReplaced`, `SilentDropReplaced` |
| `ConnDisabled` | 3 links, reconnection disabled, 1 read error, fair | passes: `NeverStranded`, `StoppedWindsDown` |
| `ConnServiced` | 3 links, unlimited | **violates** `LinkServiced` |
| `ConnSameDrop` | 3 links, unlimited, no inactivity timeout | **violates** `OnlyFailedLinksReplaced` |
| `ReqCalls` | 2 callers, 3 ids, 1 message under way, fair | passes: `TypeOK`, `SlotPerCall`, `OwnAnswer`, `NobodyLeftWaiting`, `LockMatchesWriters`, `EveryCallEnds` |
| `ReqErrors` | 2 callers, 2 ids | **violates** `OnlyLibraryErrors` |
| `SessSafety` | 2 accounts, 1 of them rotating once, 2 reports, 2 refresh attempts, 2 faults | passes: `TypeOK`, `NoLostWakeup`, `AuthorizedIsServed`, `DropsAreReal`, `CredentialsNeverGoBack` |
| `SessLive` | 1 account, otherwise the same, fair | passes: `RecoveryCompletes`, `ReportsSettle` |
| `SessHanded` | 1 account, no rotation, 2 faults | **violates** `HandedToRecovery` |
| `SubsRestore` | 1 symbol, 2 periods, 1 caller, 2 restores, 2 troubles, fair | passes: `TypeOK`, `FeedMatchesIntent`, `IntentKept`, `SessionAnnounced` |
| `ClientTrade` | 3 scenarios, 2 message serials, 2 subscriptions of one handler, 1 order, fair | passes: `TypeOK`, `ServedOrQuiet`, `HandledOnce`, `AnswerIsHonest`, `BookIsAsAsked`, `ReadsAreTrue`, `ToldInFull`, `ExitCompletes`, `MessagesAreRead` |

What the passing runs of the newer modules show:

* `SessSafety` (2.8 million states) - the recovery loop never sleeps while something
  awaits it (`NoLostWakeup`). On a link that works `is_account_authorized` says yes
  only for accounts that are served, or whose drop has been reported and is yet to
  be looked at or being checked (`AuthorizedIsServed`), apart from two gaps that the
  code has: a check that could not be completed, and a report turned away while an
  earlier drop of the account is being published (see the observations). A token
  refresh is no exception, as the report that ends the old session is on its way by
  then. A served session is taken into recovery when the server refuses the check of
  it or the application could not be re-authenticated, and by nothing else, neither
  a stale report, nor the late failure of an overtaken attempt, nor the report of a
  rotation (`DropsAreReal`). No snapshot brings back a spent token pair
  (`CredentialsNeverGoBack`).
* `SessLive` (141 thousand states) - a flagged account leaves the queue, unless the
  answer that carried its tokens was lost; every report is settled, so no refresh
  leaves a handler waiting for it, and the event of a confirmed drop is told in the
  end.
* `SubsRestore` (169 thousand states) - whatever restores and calls overlap, no feed
  is live that the record lacks, and after a restore that reported no failure both
  agree (`FeedMatchesIntent`); intent is given up only with the feed or the account
  (`IntentKept`); a session that `establish` hears of, other than for a token
  refresh, is announced even if its restore fails (`SessionAnnounced`).
* `ClientTrade` (614 thousand states) - an open client has its monitors, its router
  and, unless reconnecting is disabled, a protocol that runs; a closed one has left
  nothing; and no call is left waiting for a protocol that has stopped, whether or
  not the block goes on (`ServedOrQuiet`); no message is handled twice after any
  number of failed openings (`HandledOnce`); every subscription that asked for an
  event has it when its task ends (`ToldInFull`); closing ends although handlers do
  not (`ExitCompletes`), and the reader never waits for them (`MessagesAreRead`).
  The outcome of a trade agrees with what the server did with it (`AnswerIsHonest`),
  orders and positions are what was asked (`BookIsAsAsked`), and what a query
  returns is what is true, with any digits and for zero and negative amounts too
  (`ReadsAreTrue`).

**Bounds.** When a new link is made, at most one older name is a heartbeat loop
and at most one more is the stream it is writing to, so three names never run
out. Two attempts let a budget be used in part and exhausted; two read errors let
one be tolerated. Two callers contend for the lock; three ids let one caller
time out, call again and race both its own late answer and the other caller.
Ids handed out and messages under way are bounded by guards (`MaxIds`,
`MaxAnswers`); once the ids are used up, callers still use `send_event`.

In `Sessions`, two faults let a failure hit the handling of another, and one
rotation makes a held pair stale; `MaxFaults` bounds faults in all and `MaxToken`
the rotations of one account. Two accounts are needed for a round that fails in
part. In `Subscriptions`, two periods make a restore of more than one trendbar
request, and `MaxTrouble` bounds refusals, late answers, drops and removals
together. In `Client`, `scenario` splits one instance in three. "life" has plain
orders, pushes, registrations and every failure. "quit" is the same with
reconnecting disabled; the only messages there are those of calls, and handlers
are registered before the client is opened. "data" has no failure of the client
but any order with one change, amendments up to two departures from the plain
order (an order that departs in two fields is only read), and every query, which
start from an empty book. Serials are reused and bound the messages in flight;
two of them let the second message of a trade overlap the next call. Calls begin
on an open client when no other request waits at the server, and the server acts
only while the client is open. Messages state 1, 5 or 8 digits or omit them, with
amounts below, at and above zero; `Places` bounds the digits at 8.

**Fairness.** A task that can run is run and a timer fires (the event loop).
A write on a link that does not answer ends, with TCP's own timeout if nothing
else. Listeners return, since every request they make has a timeout, and a
server that is down is reachable again some day. Nothing is assumed of the
server's answers, of the reader receiving anything, or of links staying up.
The assumption about writes is a real one: `fail_after` in `send_request` covers
the wait for the answer only, and the heartbeat loop writes behind the same
lock, so a peer that keeps the connection open but never reads could stall both.

`Sessions` takes the two properties it needs from below: every request is
answered or fails (`EveryCallEnds`), and a link that was lost is replaced
(`SeenDropReplaced`, `SilentDropReplaced`). It adds that each of its own tasks
goes on and each backoff passes. One of these tasks awaits the application: the
handler of a confirmed drop waits for the handlers of its event, so
`RecoveryCompletes` and `ReportsSettle` assume that those return, as `Connection`
does of listeners. What else the application does, the ageing of tokens and the
faults are free. `Subscriptions` assumes that every request ends. `Client`
assumes that the reader reads, that cancelled monitors end and that the block
closes then: nothing of the server, of the application or of its handlers.

**Deadlock** is checked in every passing run; none is found.

### What the violations show

* `LinkServiced` - a heartbeat loop that reports a drop returns. It was the only
  task of `heartbeat.serve`, so `serve` returns and clears `_task_group`, and
  `restart` after the reconnection finds no group to spawn in. The client is
  connected with no heartbeats and no inactivity check for the rest of its life.
  `SilentDropReplaced` is therefore stated for clients that still have a loop.
* `OnlyFailedLinksReplaced` - a heartbeat that wakes while the transport is
  being replaced fails on the missing stream and reports the drop again. The
  report is recorded as a drop of the new link, and the reconnection tears the
  new link down and makes another.
* `OnlyLibraryErrors` - a write that fails raises the anyio exception of the
  stream out of `send_request`.
* `HandedToRecovery` - `on_connection_restored` says that a failure is handed to
  the recovery loop. The failure of an account's `establish` is only put into the
  event it publishes: the account stays without a session and nothing retries it
  until the next reconnection or token refresh.

### Observations without a run

Met while modelling; the models have these behaviours unless they are said to be
left out above. The first two contradict what the repository says and are excepted
by name in the properties they touch; about the others it says nothing clear enough
to state as a property.

* A second drop of an account that is reported while the handlers of its first
  `AccountDisconnectEvent` still run, after the recovery loop has re-authorised it,
  is discarded at `auth/_recovery.py:146`. The account stays shown as authorised,
  is not served and nothing recovers it until the link is lost or its token is
  refreshed. The comment on `_verifying` (`auth/_recovery.py:59-60`) speaks of
  reports that are still being checked, and `src/README.md:305-307` promises that
  a dropped account is re-authenticated. In `Sessions` this is
  `unsure`, set in `ReportHandled`.
* A deal that closes a position and leaves a balance of zero or less shows no close
  detail (`models/deal.py:146`), although `close_detail` is documented as "Details
  if this deal closed a position, or None." (`models/deal.py:103`). In `Trading` this
  is in `AsShown`.
* A check that the server refuses for a reason of its own, such as a rate limit,
  publishes a drop of an account that is served (`auth/manager.py:275-277`).
* A session that a token refresh brings back after a drop is neither restored nor
  announced (`auth/manager.py:236-241`).
* `remove_account` while an `establish` or a refresh for the account is under way
  is undone by `authorize` or `replace_credentials`.
* `forget` during a restore is undone likewise, request by request.
* A rotated pair that could not be saved is not saved again; a restart begins
  with the spent pair (`auth/store.py:24-30`).
* A user who subscribes while a restore is under way makes the bulk request a
  duplicate, and the restore fails as a whole. Trendbars that stand without the
  spots of their symbol make every later restore fail.
* A reply does not reset the inactivity timer, as only events reach the activity
  handler (`connection/heartbeat.py:63,111`).
* The second tagged message of a trade replaces the first in the slot when both
  arrive before the caller resumes.
* `Order` shows relative distances in points, requests take them as prices.
* An unknown order status is read as accepted; money with zero digits is read with
  two.
* A live bar takes `Decimal(proto.bid)` as its close, so a missing bid is a zero
  and the guard in `models/market_data.py:79-91` is not reached.
* Two tasks that enter one client at the same time both pass the guard at
  `client.py:307-319`.
* The docstring of the reconnection event says that subscriptions are not
  restored (`events/types.py`); they are.

## Proofs

Every invariant and every action property that a run checks is proved for all
values of the constants. In each proof module `IInv` is the inductive invariant,
`Inductive` the theorem `Spec => []IInv`, and the properties are read off it;
`TradingProofs` adds `TradeInv` and `TradeInductive` to those of `ClientProofs`.
Each group of actions has its own lemma, and what the operators do is said once,
in lemmas before those. TLC was used to check each inductive invariant on the
instances of the runs as well.

| Module | For every | Theorems |
|---|---|---|
| `ConnectionProofs` | set of links, reconnect budget (finite, none or unlimited), read-error limit, with or without inactivity timeout | `TypeCorrect`, `NeverStrandedHolds`, `OneReaderHolds`, `OneHeartbeatLoopHolds`, `ClosedIsCleanHolds`, `ImplementsContract` |
| `RequestsProofs` | set of callers, number of ids and of messages under way | `TypeCorrect`, `SlotPerCallHolds`, `OwnAnswerHolds`, `NobodyLeftWaitingHolds`, `LockMatchesWritersHolds` |
| `SessionsProofs` | set of accounts and of reports at a time, number of rotations, retries and faults | `TypeCorrect`, `NoLostWakeupHolds`, `AuthorizedIsServedHolds`, `DropsAreRealHolds`, `CredentialsNeverGoBackHolds` |
| `SubscriptionsProofs` | symbols, periods, callers, restores at a time, amount of trouble | `TypeCorrect`, `FeedMatchesIntentHolds`, `IntentKeptHolds` |
| `ClientProofs` | subscriptions with their classes, handlers and filters, messages that are pushed, orders, amendments and answers, number of messages in flight | `TypeCorrect`, `ServedOrQuietHolds`, `HandledOnceHolds`, `AnswerIsHonestHolds`, `ToldInFullHolds` |
| `TradingProofs` | the same, with any values of the types of the request fields, any fineness of distances, and any facts at the server | `TradeInductive`, `BookIsAsAskedHolds`, `ReadsAreTrueHolds` |

**Connection.** `NeverStranded` needs to know that the flags describe the task
that owns them (`FlagsAgree`), that the stream is missing exactly while it is
being replaced (`StreamAgrees`), that an uncancelled reader is the one whose
scope is on record and reads the current stream (`ReadersAgree`), and that while
listeners are restoring either a reader is alive or its report is recorded in
`redo` (`Watched`). `OneHeartbeatLoop` needs `BeatsAgree`, and the refinement of
`LinkContract` (`ImplementsContract`) needs `ToldAgrees`: what the listener was
last told is where the reconnection task stands. Finiteness of `Links` is not
needed.

**Requests.** `OwnAnswer` follows from ids being handed out once, so that an
answer which is stored bears the id of its slot (`IdsAgree`, `OutcomesAgree`);
`NobodyLeftWaiting` from pending requests being failed only once the protocol
has stopped running (`RunningAgrees`). `LockMatchesWriters` is inductive with
the types, given that a place given up in the middle of the queue moves the
later ones forward.

**Sessions.** `AuthorizedIsServed` is the hard one. It needs that a dead link serves
nobody (`WireAgrees`) and that from the loss of a link until the application is
authorised on the next one no account is shown as authorised, and no request of the
recovery loop can authorise the application behind the listener's back
(`FreshStart`; an authorisation the listener was not told of ends this early, and
the failure that follows flags whoever was served meanwhile). This rests on every
request that is under way on a dead link being lost (`LostAgrees`) and on the
listener being at work exactly while the link is restored (`TasksAgree`). The
reports that are being checked or published and the accounts in `_verifying` match
one to one (`ReportsAgree`), so the end of one never takes away the mark of another.
`DropsAreReal` also needs that while a rotation goes on the report of the session it
ended waits for it (`SpentReported`), so that no check of its own confirms that end
as a drop. `CredentialsNeverGoBack` needs that the client never holds a pair the
server has not issued (`TokensAgree`): an `establish` that succeeds has used the
server's own pair.

**Subscriptions.** `RestoreCovers` is the loop invariant of `restore`: whatever
is recorded and not live is what the restore at work has yet to ask for, also
when the application subscribes and unsubscribes meanwhile; `OneRestore` says
that the older of two restores belongs to a session that is gone.

**Client.** `PhasesAgree` ties what runs to the phase and to whether reconnecting is
disabled, says that the call of a stopped protocol has been woken, and gives
`ServedOrQuiet`.
`HandledOnce` needs that no two messages under way or being handled have the
same serial (`SerialsAgree`). `AnswerIsHonest` needs `AnswersAgree`: an id that
is not zero is borne by one request, which waits at the server or has been
answered, never both, and whatever bears the id of the call under way tells that
call what the server did; lemmas about `Replies` and `Outcome` say what the
messages are and what is made of them. `ToldInFull` needs `JobsAgree` (a task has
told some of those it is owed to and has yet to tell the others) and, since
`emit` looks into one list only, that a list has subscriptions of its own class
only (`ListsAgree`). `TypeOK` is proved on top of `IInv`.

**Trading.** `TradeInv` has five parts. `BookFits` is `BookIsAsAsked` with the
types of the fields on the wire and in the application's terms. It is not
inductive alone: an amendment replaces every field by what the request says, so
the request that waits at the server must be the one that the application makes
of what the server *still* holds (`InboxFits`), hence what the application was
shown must still be so when it amends (`ShownFits`, in `DataFits`), hence an
answer on its way must tell the book as it is (`AnswerFits`), and no other
request may be under way meanwhile. Under that invariant the work is field by field:
`Seen` of a value that was asked for is what is read back of what was sent, and
what is read back and sent again is read back as before, also for a distance or a time,
which is truncated on the way out, and for a trigger method, whose absence is
read as a default. `ReadsAreTrue` needs `AnswersTrue`, that
an answer on its way decodes to the fact it was made from, which a lemma per
query shows for every fact: money comes back from cents, whatever its sign, because
the amounts are those that the digits of the message can say (`MoneyBack`), bars and
ticks because differences add up.

**Records.** What a conversion makes of a list of any length is an induction,
done in the form the provers can do: a set of numbers that is not empty has a
least element (`Least`, from the well-foundedness of the natural numbers), so if
two functions start alike and each step keeps them alike, they agree everywhere
(`AgreeByInduction`). With it, `TicksRead` says that ticks of any number are read
back from their differences, and `SearchFinds` that a search returns the symbols
that match, in their order, and passes over one that does not.

**Assumptions**, all of them `ASSUME`s that TLC evaluates on every run: the
bounds are natural numbers, the limits of attempts and errors positive; `None`
and the names used for "nothing" are no element of the sets they are used beside
(`NoneAssumption`, `NameAssumption`), and the kinds of tasks are disjoint
(`TaskAssumption`); serials are a finite set of numbers (`SerialsAssumption`);
`None` is no call, number or truth value (`CallAssumption`, `NoneAssumption`).
About data: what an application gives for a field has the type the request model
declares for it, a volume is positive, a distance or a time is not negative, and an
amendment states the volume and the flags (`ChangesAssumption`). What is true at
the server can be said in its messages (`TruthsAssumption`): a message states up to
eight digits or omits them, and an amount has no more decimals than these. Zeros,
negative balances and values that are zero where zero means absent are not ruled
out; what becomes of them is `AsShown`.

**What proving changed in the models.** Two `CASE` expressions of `Trading`
(`ExecuteTrade`, `Outcome`) had guards that overlap and meant the right thing
only because TLC takes the first that holds; they are disjoint now. Serials are
handed out by a predicate (`Lowest`) rather than a recursive function. The
emitter's subscriptions were one list that `unsubscribe_all` filtered; they are
the code's dictionary of lists now, and `unsubscribe_all` without a class is an
action. `AuthorizedIsServed` used to except accounts that are being refreshed;
the proof does not need the exception. `Seen`, against which `BookIsAsAsked`
compares, took a price of zero to be shown as zero, and the proof failed there:
`to_proto` sends it like no price at all and it is shown as `None`. `Seen` says so,
and the instance has a take profit of zero. List comprehensions with a condition
are `Kept`, a function that the provers can unfold. The types of fields and facts
were in the instance only and are assumptions of `Trading` now.

**Only model-checked.**

Liveness under fairness, and with it `ENABLED`, is what the proof system does not
reach: `SeenDropReplaced`, `SilentDropReplaced`, `StoppedWindsDown`, the liveness
half of `ListenerContract`, `EveryCallEnds`, `RecoveryCompletes`, `ReportsSettle`,
`SessionAnnounced`, `ExitCompletes`, `MessagesAreRead`. The four violations are
TLC's counterexamples.

## State of the project

Every component is modelled but for what is listed below, and every invariant and
action property that the runs check is proved. When the code changes, the model
and its run come first; the proofs then show which part of an inductive
invariant no longer holds. What would add most: the bytes of a frame, as a
function on sequences, and two tasks of the application with a call each in
`Trading`, which has one.

No module uses a RECURSIVE operator, so each can be proved about.

## Not modelled

* Generated protobuf classes, which have no behaviour of their own.
* The bytes of a frame: a stream that loses its framing is a failure of the
  reader in `Connection`.
* Labels, comments, names and plain timestamps of the data models, which are
  passed through.
* Logging, configuration values, TLS and name resolution, which are part of a
  connection attempt that succeeds or fails.
* Real time, of which only the order of timers and other events is kept.
