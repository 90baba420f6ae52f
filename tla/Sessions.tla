------------------------------ MODULE Sessions ------------------------------
(***************************************************************************)
(* Account sessions: the SessionStore and the four things that work on it  *)
(* concurrently: AuthManager (establish, probe_session, remove_account),   *)
(* SessionRecovery (the connection listener, the handler of disconnect     *)
(* reports and the recovery loop) and TokenRefresher.                      *)
(*                                                                         *)
(* Tasks are cooperative: what a task does between two awaits is one       *)
(* action.  An awaited request is answered, or fails, in one later action, *)
(* in which the server acts and the task resumes: replies and events of    *)
(* one link are handled in the order in which the server sent them.        *)
(*                                                                         *)
(* A token pair is the number of rotations that produced it.  Time is      *)
(* abstracted to what has elapsed: a backoff is over or not, a token is    *)
(* fresh, soon to expire, or expired.                                      *)
(***************************************************************************)
EXTENDS Naturals, FiniteSets

CONSTANTS
    Accounts,
    Reports,        \* tasks that handle a ProtoOAAccountDisconnectEvent
    RetryAttempts,  \* RefreshPolicy.retry_attempts
    Expiring,       \* bound: the accounts whose tokens age
    MaxToken,       \* bound: rotations of one account's tokens
    MaxFaults       \* bound: faults of the network, the server and storage

ASSUME RetryAssumption == RetryAttempts \in Nat \ {0}
ASSUME BoundAssumption == /\ MaxToken \in Nat /\ MaxFaults \in Nat
                          /\ Expiring \subseteq Accounts
ASSUME TaskAssumption  == Reports \cap {"loop", "refresh", "restore", "user"} = {}
ASSUME NameAssumption  == "none" \notin Accounts

VARIABLES
    link,       \* what the listener was last told (LinkContract)
    wire,       \* the link works (environment)
    srvApp,     \* server: the application is authorised on this link
    live,       \* server: the accounts it serves on this link
    tok,        \* server: the token pair it accepts for each account
    age,        \* how close that pair is to its expiry
    session,    \* store: absent, none, auth, due or backoff (AwaitingRecovery)
    cred,       \* store: the token pair held for each account
    refreshing, \* store: accounts with an entry in _refreshing
    saved,      \* the durable TokenStore
    app,        \* recovery: _app_auth_pending (fine if not) and its backoff
    signal,     \* recovery: _reauth_signal is set
    verifying,  \* recovery: _verifying
    unsure,     \* accounts a report came to nothing for (history)
    lp, due,    \* recovery loop: where it waits, what is left of its round
    sp, todo,   \* on_connection_restored: likewise
    hp,         \* each report: where its handler waits, and its account
    rp, check,  \* refresher: where it waits, and what is left of its check
    spent,      \* accounts whose session the rotation under way has ended
    up,         \* authenticate_trader
    lost,       \* tasks whose request will not be answered
    faults      \* faults left (bound)

serverVars  == <<srvApp, live, tok, age>>
storeVars   == <<session, cred, refreshing>>
loopVars    == <<lp, due, app, signal>>
restoreVars == <<sp, todo>>
reportVars  == <<hp, verifying, unsure>>
refreshVars == <<rp, check, saved, spent>>
vars == <<link, wire, serverVars, storeVars, loopVars, restoreVars,
          reportVars, refreshVars, up, lost, faults>>

Link == INSTANCE LinkContract

Tokens == 0..MaxToken
Tasks  == Reports \cup {"loop", "refresh", "restore", "user"}

\* One account and the token pair a task took for it.
Item   == [acct : Accounts, key : Tokens]
NoItem == [acct |-> "none", key |-> 0]

Awaiting(a)   == session[a] \in {"due", "backoff"}
Held(a)       == session[a] # "absent"
Authorized(a) == session[a] = "auth"

TypeOK ==
    /\ link \in {"closed", "up", "down", "restoring", "over"}
    /\ wire \in BOOLEAN /\ srvApp \in BOOLEAN
    /\ live \in SUBSET Accounts
    /\ tok \in [Accounts -> Tokens]
    /\ age \in [Accounts -> {"fresh", "soon", "expired"}]
    /\ session \in [Accounts -> {"absent", "none", "auth", "due", "backoff"}]
    /\ cred \in [Accounts -> Tokens]
    /\ refreshing \in SUBSET Accounts
    /\ saved \in [Accounts -> Tokens]
    /\ app \in {"fine", "due", "backoff"}
    /\ signal \in BOOLEAN
    /\ verifying \in SUBSET Accounts /\ unsure \in SUBSET Accounts
    /\ lp \in {"off", "top", "idle", "timer", "app", "round"}
    /\ due \in SUBSET Item
    /\ sp \in {"idle", "app", "round", "done"}
    /\ todo \in SUBSET Item
    /\ hp \in [Reports -> [at : {"idle", "sent", "settling", "settled", "probe", "emit"},
                           acct : Accounts \cup {"none"}]]
    /\ rp \in [at : {"off", "sleep", "next", "request", "pause", "save", "establish"},
               item : Item \cup {NoItem}, tries : 0..(RetryAttempts - 1)]
    /\ check \in SUBSET Item /\ spent \in SUBSET Accounts
    /\ up \in Item \cup {NoItem}
    /\ lost \in SUBSET Tasks
    /\ faults \in 0..MaxFaults

\* Nothing is running: no client has been entered yet.
Init ==
    /\ link = "closed" /\ wire = FALSE /\ srvApp = FALSE /\ live = {}
    /\ tok = [a \in Accounts |-> 0] /\ age = [a \in Accounts |-> "fresh"]
    /\ session = [a \in Accounts |-> "absent"] /\ cred = [a \in Accounts |-> 0]
    /\ refreshing = {} /\ saved = [a \in Accounts |-> 0]
    /\ app = "fine" /\ signal = FALSE /\ verifying = {} /\ unsure = {}
    /\ lp = "off" /\ due = {} /\ sp = "idle" /\ todo = {}
    /\ hp = [r \in Reports |-> [at |-> "idle", acct |-> "none"]]
    /\ rp = [at |-> "off", item |-> NoItem, tries |-> 0] /\ check = {} /\ spent = {}
    /\ up = NoItem /\ lost = {} /\ faults = MaxFaults

----------------------------------------------------------------------------
(* The server, as the client uses it.                                      *)

\* A pair is refused once it was rotated away or has expired.
Usable(e) == e.key = tok[e.acct] /\ age[e.acct] # "expired"
Accepts(e) == srvApp /\ Usable(e) /\ e.acct \notin live

\* A request is sent; on a dead link its answer can never come.
Sends(t) == lost' = IF wire THEN lost \ {t} ELSE lost \cup {t}
SendsIf(c, t) == IF c THEN Sends(t) ELSE lost' = lost \ {t}
Fault    == faults > 0 /\ faults' = faults - 1

\* A disconnect report for account a is on its way: hp afterwards.  A report
\* that has not started, or waits for a refresh, stands for later ones too.
Reported(a) ==
    IF \E r \in Reports : hp[r].acct = a /\ hp[r].at \in {"sent", "settling"} THEN {hp}
    ELSE {[hp EXCEPT ![r] = [at |-> "sent", acct |-> a]] :
            r \in {q \in Reports : hp[q].at = "idle"}}

\* The server ends one account's session and reports it.
ServerDrops(a) ==
    /\ a \in live /\ Fault
    /\ live' = live \ {a}
    /\ hp' \in Reported(a)
    /\ UNCHANGED <<link, wire, srvApp, tok, age, storeVars, loopVars,
                   restoreVars, verifying, unsure, refreshVars, up, lost>>

\* Time passes for the tokens of account a.
TokenAges(a) ==
    /\ a \in Expiring /\ tok[a] < MaxToken /\ age[a] # "expired"
    /\ age' = [age EXCEPT ![a] = IF @ = "fresh" THEN "soon" ELSE "expired"]
    /\ UNCHANGED <<link, wire, srvApp, live, tok, storeVars, loopVars,
                   restoreVars, reportVars, refreshVars, up, lost, faults>>

----------------------------------------------------------------------------
(* SessionStore.                                                           *)

Items == {[acct |-> a, key |-> cred[a]] : a \in {b \in Accounts : Held(b)}}

Authorize(e) ==
    /\ session' = [session EXCEPT ![e.acct] = "auth"]
    /\ cred' = [cred EXCEPT ![e.acct] = e.key]
    /\ unsure' = unsure \ {e.acct}

ReplaceCredentials(e) ==
    /\ session' = [session EXCEPT ![e.acct] = IF @ = "absent" THEN "none" ELSE @]
    /\ cred' = [cred EXCEPT ![e.acct] = e.key]

InvalidateAll ==
    session' = [a \in Accounts |-> IF Held(a) THEN "none" ELSE "absent"]

\* flag_for_recovery of every account in S.
Flag(S) ==
    session' = [a \in Accounts |->
                  IF a \in S /\ Held(a) /\ ~Awaiting(a) THEN "due" ELSE session[a]]

RescheduleAlways(e) ==
    /\ session' = [session EXCEPT ![e.acct] = "backoff"]
    /\ UNCHANGED cred

RescheduleSnapshot(e) ==
    IF Awaiting(e.acct)
    THEN /\ session' = [session EXCEPT ![e.acct] = "backoff"]
         /\ cred' = [cred EXCEPT ![e.acct] = e.key]
    ELSE UNCHANGED <<session, cred>>

\* reschedule_recovery, after an attempt with the pair e.
Reschedule(e) ==
    /\ session' = [session EXCEPT ![e.acct] = IF Awaiting(e.acct) THEN "backoff" ELSE @]
    /\ UNCHANGED cred

----------------------------------------------------------------------------
(* AuthManager.establish, from the request to its answer.                  *)

EstablishOk(t, e) ==
    /\ t \notin lost /\ Accepts(e)
    /\ live' = live \cup {e.acct}
    /\ Authorize(e)
    /\ UNCHANGED faults

\* ALREADY_LOGGED_IN: the account is served on this link.
EstablishAlready(t, e) ==
    /\ t \notin lost /\ srvApp /\ Usable(e) /\ e.acct \in live
    /\ UNCHANGED <<live, faults>>

\* An expired or refused token, a refused account, a closed link, or a
\* timeout, which does not tell whether the server acted.
EstablishFails(t, e) ==
    \/ /\ t \in lost \/ ~srvApp \/ ~Usable(e)
       /\ UNCHANGED <<live, faults>>
    \/ /\ t \notin lost /\ Fault
       /\ \/ UNCHANGED live
          \/ Accepts(e) /\ live' = live \cup {e.acct}

\* AuthManager.authenticate_trader, with the pair the caller last stored, for
\* an account that has no session.
AuthenticateTrader(a) ==
    /\ link \in {"up", "down", "restoring"} /\ up = NoItem /\ session[a] \in {"absent", "none"}
    /\ up' = [acct |-> a, key |-> saved[a]]
    /\ Sends("user")
    /\ UNCHANGED <<link, wire, serverVars, storeVars, loopVars, restoreVars,
                   reportVars, refreshVars, faults>>

TraderAnswered ==
    /\ up # NoItem /\ up' = NoItem
    /\ \/ EstablishOk("user", up)
       \/ /\ EstablishAlready("user", up) \/ EstablishFails("user", up)
          /\ UNCHANGED <<session, cred, unsure>>
    /\ lost' = lost \ {"user"}
    /\ UNCHANGED <<link, wire, srvApp, tok, age, refreshing, loopVars,
                   restoreVars, hp, verifying, refreshVars>>

RemoveAccount(a) ==
    /\ Held(a)
    /\ session' = [session EXCEPT ![a] = "absent"]
    /\ cred' = [cred EXCEPT ![a] = 0] /\ unsure' = unsure \ {a}
    /\ UNCHANGED <<link, wire, serverVars, refreshing, loopVars, restoreVars,
                   hp, verifying, refreshVars, up, lost, faults>>

----------------------------------------------------------------------------
(* The link, as the connection layer reports it.                           *)

InFlight ==
    {t \in Tasks : \/ t = "loop" /\ lp \in {"app", "round"}
                   \/ t = "restore" /\ sp \in {"app", "round"}
                   \/ t = "refresh" /\ rp.at \in {"request", "establish"}
                   \/ t = "user" /\ up # NoItem
                   \/ t \in Reports /\ hp[t].at = "probe"}

\* The link dies, and what was under way on it with it.
WireFails ==
    /\ wire /\ Fault
    /\ wire' = FALSE /\ srvApp' = FALSE /\ live' = {}
    /\ lost' = lost \cup InFlight
    /\ hp' = [r \in Reports |->
                IF hp[r].at = "sent" THEN [at |-> "idle", acct |-> "none"] ELSE hp[r]]
    /\ spent' = {}
    /\ UNCHANGED <<link, tok, age, storeVars, loopVars, restoreVars, verifying,
                   unsure, rp, check, saved, up>>

\* SessionRecovery.on_connection_lost.
OnConnectionLost ==
    /\ InvalidateAll
    /\ app' = "fine"

LinkLost ==
    /\ ~wire
    /\ \/ Link!Lost /\ sp' = sp
       \/ Link!LostAgain /\ sp = "done" /\ sp' = "idle"
    /\ OnConnectionLost
    /\ unsure' = {}
    /\ UNCHANGED <<wire, serverVars, cred, refreshing, lp, due, signal, todo,
                   hp, verifying, refreshVars, up, lost, faults>>

\* The new link is up: on_connection_restored asks for the application.
LinkRestoring ==
    /\ Link!BeginRestore
    /\ wire' = TRUE
    /\ sp' = "app" /\ lost' = lost \ {"restore"}
    /\ UNCHANGED <<serverVars, storeVars, loopVars, todo, reportVars,
                   refreshVars, up, faults>>

LinkRestored ==
    /\ sp = "done" /\ Link!Restored /\ sp' = "idle"
    /\ UNCHANGED <<wire, serverVars, storeVars, loopVars, todo,
                   reportVars, refreshVars, up, lost, faults>>

\* The client authenticates the application before it starts the two loops;
\* its store is empty, or holds what an earlier use of the client left.
Open ==
    /\ Link!Open
    /\ wire' = TRUE /\ srvApp' = TRUE /\ lp' = "top"
    /\ rp' = [rp EXCEPT !.at = "sleep"]
    /\ UNCHANGED <<live, tok, age, storeVars, due, app, signal, restoreVars,
                   reportVars, check, saved, spent, up, lost, faults>>

\* The client is closed, or its process ends, at any time.  A client that is
\* closed keeps its credentials and its signal (the finally clause of
\* serve); of a process, what it saved is all that survives.
Ends ==
    /\ Link!GiveUp
    /\ wire' = FALSE /\ srvApp' = FALSE /\ live' = {}
    /\ \/ InvalidateAll /\ UNCHANGED <<cred, signal>>
       \/ /\ session' = [a \in Accounts |-> "absent"] /\ cred' = [a \in Accounts |-> 0]
          /\ signal' = FALSE
    /\ refreshing' = {} /\ app' = "fine" /\ verifying' = {} /\ unsure' = {}
    /\ lp' = "off" /\ due' = {} /\ sp' = "idle" /\ todo' = {}
    /\ hp' = [r \in Reports |-> [at |-> "idle", acct |-> "none"]]
    /\ rp' = [at |-> "off", item |-> NoItem, tries |-> 0] /\ check' = {} /\ spent' = {}
    /\ up' = NoItem /\ lost' = {}
    /\ UNCHANGED <<tok, age, saved, faults>>

Closes ==
    /\ Link!Close
    /\ UNCHANGED <<wire, serverVars, storeVars, loopVars, restoreVars,
                   reportVars, refreshVars, up, lost, faults>>

----------------------------------------------------------------------------
(* SessionRecovery.on_connection_restored.                                 *)

\* authenticate_app fails: refused, timed out, or the link is gone.
AppAuthFails(t) ==
    /\ IF t \in lost THEN UNCHANGED faults ELSE Fault
    /\ UNCHANGED srvApp

\* The application is authorised, but the answer does not arrive: whoever
\* asked goes on waiting, until the request times out.
AppAuthUnheard(t) ==
    /\ (t = "restore" /\ sp = "app") \/ (t = "loop" /\ lp = "app")
    /\ t \notin lost /\ Fault
    /\ srvApp' = TRUE /\ lost' = lost \cup {t}
    /\ UNCHANGED <<link, wire, live, tok, age, storeVars, loopVars, restoreVars,
                   reportVars, refreshVars, up>>

AppAuthOk(t) == t \notin lost /\ srvApp' = TRUE /\ UNCHANGED faults

\* _arm_app_auth_recovery.
ArmSilently ==
    /\ app' = "backoff"
    /\ Flag(Accounts)
    /\ UNCHANGED signal

ArmAppAuthRecovery ==
    /\ app' = "backoff"
    /\ Flag(Accounts)
    /\ signal' = TRUE

RestoreAppFails ==
    /\ sp = "app" /\ AppAuthFails("restore")
    /\ ArmAppAuthRecovery
    /\ sp' = "done" /\ lost' = lost \ {"restore"}
    /\ UNCHANGED <<link, wire, live, tok, age, cred, refreshing, lp, due, todo,
                   reportVars, refreshVars, up>>

RestoreAppOk ==
    /\ sp = "app" /\ AppAuthOk("restore")
    /\ todo' = Items
    /\ sp' = IF Items = {} THEN "done" ELSE "round"
    /\ SendsIf(Items # {}, "restore")
    /\ UNCHANGED <<link, wire, live, tok, age, storeVars, loopVars,
                   reportVars, refreshVars, up>>

\* One account of the snapshot; a failure is only recorded for the event.
RestoreAccount(e) ==
    /\ sp = "round" /\ e \in todo
    /\ \/ EstablishOk("restore", e)
       \/ /\ EstablishAlready("restore", e) \/ EstablishFails("restore", e)
          /\ UNCHANGED <<session, cred, unsure>>
    /\ todo' = todo \ {e}
    /\ sp' = IF todo' = {} THEN "done" ELSE "round"
    /\ SendsIf(todo' # {}, "restore")
    /\ UNCHANGED <<link, wire, srvApp, tok, age, refreshing, loopVars, hp,
                   verifying, refreshVars, up>>

----------------------------------------------------------------------------
(* SessionRecovery.handle_account_disconnect, once for each report.        *)

ReportEnds(r) == hp' = [hp EXCEPT ![r] = [at |-> "idle", acct |-> "none"]]

MustSettleNever(r) == FALSE

\* A handler that starts while the account's tokens are being replaced waits
\* for that to end.
MustSettle(r) == hp[r].at = "sent" /\ hp[r].acct \in refreshing

\* An earlier report of account a has been confirmed and is being published.
Publishing(a) == \E r \in Reports : hp[r] = [at |-> "emit", acct |-> a]

\* The handler starts, or resumes after the refresh it waited for.  While an
\* earlier report is checked, and until its drop has been published, a report
\* is turned away; if the earlier one has had its answer, nothing looks.
ReportHandled(r) ==
    LET a == hp[r].acct IN
    /\ hp[r].at \in {"sent", "settled"}
    /\ \/ /\ MustSettle(r)
          /\ hp' = [hp EXCEPT ![r].at = "settling"]
          /\ UNCHANGED <<verifying, unsure, lost>>
       \/ /\ ~MustSettle(r) /\ ~Authorized(a)
          /\ ReportEnds(r)
          /\ UNCHANGED <<verifying, unsure, lost>>
       \/ /\ ~MustSettle(r) /\ Authorized(a) /\ a \in verifying
          /\ ReportEnds(r)
          /\ unsure' = IF Publishing(a) THEN unsure \cup {a} ELSE unsure
          /\ UNCHANGED <<verifying, lost>>
       \/ /\ ~MustSettle(r) /\ Authorized(a) /\ a \notin verifying
          /\ verifying' = verifying \cup {a}
          /\ hp' = [hp EXCEPT ![r].at = "probe"]
          /\ Sends(r)
          /\ UNCHANGED unsure
    /\ UNCHANGED <<link, wire, serverVars, storeVars, loopVars, restoreVars,
                   refreshVars, up, faults>>

\* The check of report r is over; account_id leaves _verifying.
CheckEnds(r) ==
    /\ ReportEnds(r)
    /\ verifying' = verifying \ {hp[r].acct}

\* The account answers, so the report is ignored.
ProbeAlive(r) ==
    /\ r \notin lost /\ hp[r].acct \in live
    /\ CheckEnds(r)
    /\ UNCHANGED <<session, signal, unsure, faults>>

\* The check cannot be completed: the request failed, or the refusal names
\* the token, as it may while the account's pair is being replaced, after it
\* was, and once it has expired.  The report of a rotation is yet to be
\* looked at; otherwise nothing will look at the account again.
ProbeInconclusive(r) ==
    LET a == hp[r].acct IN
    /\ \/ r \in lost /\ UNCHANGED faults
       \/ r \notin lost /\ Fault
       \/ /\ r \notin lost /\ a \notin live
          /\ a \in refreshing \/ tok[a] > 0 \/ age[a] = "expired"
          /\ UNCHANGED faults
    /\ CheckEnds(r)
    /\ unsure' = IF a \in spent THEN unsure ELSE unsure \cup {a}
    /\ UNCHANGED <<session, signal>>

\* Any other refusal is taken for a drop: the server does not serve the
\* account, or it serves it and refuses this one request.
Refuses(r) ==
    /\ r \notin lost
    /\ \/ hp[r].acct \notin live \cup spent /\ UNCHANGED faults
       \/ Fault

\* _report_dropped, up to the publication of the drop, which is awaited.
ProbeDroppedSilently(r) ==
    /\ Refuses(r)
    /\ Flag({hp[r].acct})
    /\ hp' = [hp EXCEPT ![r].at = "emit"]
    /\ UNCHANGED <<signal, verifying, unsure>>

ProbeDropped(r) ==
    /\ Refuses(r)
    /\ Flag({hp[r].acct})
    /\ signal' = TRUE
    /\ hp' = [hp EXCEPT ![r].at = "emit"]
    /\ UNCHANGED <<verifying, unsure>>

ProbeAnswered(r) ==
    /\ hp[r].at = "probe"
    /\ ProbeAlive(r) \/ ProbeInconclusive(r) \/ ProbeDropped(r)
    /\ lost' = lost \ {r}
    /\ UNCHANGED <<link, wire, serverVars, cred, refreshing, lp, due, app,
                   restoreVars, refreshVars, up>>

\* The handlers of the AccountDisconnectEvent have returned.
DropPublished(r) ==
    /\ hp[r].at = "emit"
    /\ CheckEnds(r)
    /\ UNCHANGED <<link, wire, serverVars, storeVars, loopVars, restoreVars,
                   unsure, refreshVars, up, lost, faults>>

----------------------------------------------------------------------------
(* SessionRecovery._reauth_loop.                                           *)

Queue == {e \in Items : Awaiting(e.acct)}
Due   == {e \in Items : session[e.acct] = "due"}

\* What the loop does with the queue, once the application is authorised.
LoopServes ==
    /\ lp' = CASE Queue = {} -> "idle"
               [] Queue # {} /\ Due = {} -> "timer"
               [] OTHER -> "round"
    /\ due' = Due
    /\ SendsIf(Due # {}, "loop")

\* A pending notification is consumed before the queue is read.
LoopTop ==
    /\ lp = "top"
    /\ signal' = FALSE
    /\ \/ app = "backoff" /\ lp' = "timer" /\ UNCHANGED <<due, lost>>
       \/ app = "due" /\ lp' = "app" /\ Sends("loop") /\ UNCHANGED due
       \/ app = "fine" /\ LoopServes
    /\ UNCHANGED <<link, wire, serverVars, storeVars, app, restoreVars,
                   reportVars, refreshVars, up, faults>>

\* flagged.wait(), or _wait_for_retry: the signal, or the timer.
LoopWakes ==
    /\ (lp = "idle" /\ signal) \/ lp = "timer"
    /\ lp' = "top"
    /\ UNCHANGED <<link, wire, serverVars, storeVars, due, app, signal,
                   restoreVars, reportVars, refreshVars, up, lost, faults>>

\* _retry_app_auth.
LoopAppAnswered ==
    /\ lp = "app"
    /\ \/ AppAuthOk("loop") /\ app' = "fine" /\ LoopServes
       \/ /\ AppAuthFails("loop")
          /\ app' = IF app = "fine" THEN "fine" ELSE "backoff"
          /\ lp' = "top" /\ lost' = lost \ {"loop"} /\ UNCHANGED due
    /\ UNCHANGED <<link, wire, live, tok, age, storeVars, signal, restoreVars,
                   reportVars, refreshVars, up>>

\* One account of the round: recovered, found to hold a session after all,
\* or deferred.
LoopAccount(e) ==
    /\ lp = "round" /\ e \in due
    /\ \/ EstablishOk("loop", e)
       \/ EstablishAlready("loop", e) /\ Authorize(e)
       \/ EstablishFails("loop", e) /\ Reschedule(e) /\ UNCHANGED unsure
    /\ due' = due \ {e}
    /\ lp' = IF due' = {} THEN "top" ELSE "round"
    /\ SendsIf(due' # {}, "loop")
    /\ UNCHANGED <<link, wire, srvApp, tok, age, refreshing, app, signal,
                   restoreVars, hp, verifying, refreshVars, up>>

\* A backoff is over.
BackoffElapses(a) ==
    /\ session[a] = "backoff"
    /\ session' = [session EXCEPT ![a] = "due"]
    /\ UNCHANGED <<link, wire, serverVars, cred, refreshing, loopVars,
                   restoreVars, reportVars, refreshVars, up, lost, faults>>

AppBackoffElapses ==
    /\ app = "backoff" /\ app' = "due"
    /\ UNCHANGED <<link, wire, serverVars, storeVars, lp, due, signal,
                   restoreVars, reportVars, refreshVars, up, lost, faults>>

----------------------------------------------------------------------------
(* TokenRefresher.                                                         *)

\* The check interval has passed; items() is a snapshot.
RefreshWakes ==
    /\ rp.at = "sleep"
    /\ rp' = [rp EXCEPT !.at = "next"] /\ check' = Items
    /\ UNCHANGED <<link, wire, serverVars, storeVars, loopVars, restoreVars,
                   reportVars, saved, spent, up, lost, faults>>

ExpiresSoon(e) == e.key # tok[e.acct] \/ age[e.acct] # "fresh"

\* The next account of the snapshot: _refresh_account, if its pair expires
\* soon and it is still held, with the pair the store holds now.
RefreshNext(e) ==
    /\ rp.at = "next" /\ e \in check
    /\ check' = check \ {e}
    /\ \/ /\ ExpiresSoon(e) /\ Held(e.acct)
          /\ refreshing' = refreshing \cup {e.acct}
          /\ rp' = [at |-> "request", tries |-> 0,
                    item |-> [acct |-> e.acct, key |-> cred[e.acct]]]
          /\ Sends("refresh")
       \/ /\ ~ExpiresSoon(e) \/ ~Held(e.acct)
          /\ UNCHANGED <<refreshing, rp, lost>>
    /\ UNCHANGED <<link, wire, serverVars, session, cred, loopVars, restoreVars,
                   reportVars, saved, spent, up, faults>>

RefreshSleeps ==
    /\ rp.at = "next" /\ check = {}
    /\ rp' = [rp EXCEPT !.at = "sleep"]
    /\ UNCHANGED <<link, wire, serverVars, storeVars, loopVars, restoreVars,
                   reportVars, check, saved, spent, up, lost, faults>>

\* The refresh ends, one way or the other, and wakes who waited for it: the
\* finally clause.
Settle(h, a) ==
    [r \in Reports |-> IF h[r].at = "settling" /\ h[r].acct = a
                       THEN [h[r] EXCEPT !.at = "settled"] ELSE h[r]]

RefreshOverUnsettled ==
    /\ refreshing' = refreshing \ {rp.item.acct}
    /\ UNCHANGED hp
    /\ rp' = [at |-> "next", item |-> NoItem, tries |-> 0]
    /\ spent' = spent \ {rp.item.acct}
    /\ lost' = lost \ {"refresh"}

RefreshOver ==
    /\ refreshing' = refreshing \ {rp.item.acct}
    /\ hp' = Settle(hp, rp.item.acct)
    /\ rp' = [at |-> "next", item |-> NoItem, tries |-> 0]
    /\ spent' = spent \ {rp.item.acct}
    /\ lost' = lost \ {"refresh"}

\* The server issues a new pair, spends the old one and ends the session
\* that was authorised with it, which it reports.
Rotates(e) ==
    /\ "refresh" \notin lost /\ e.key = tok[e.acct] /\ tok[e.acct] < MaxToken
    /\ tok' = [tok EXCEPT ![e.acct] = @ + 1]
    /\ age' = [age EXCEPT ![e.acct] = "fresh"]
    /\ live' = live \ {e.acct}
    /\ spent' = spent \cup (live \cap {e.acct})
    /\ hp' \in IF e.acct \in live THEN Reported(e.acct) ELSE {hp}

\* The new pair is kept from here on, whatever happens to it below.
RefreshAnswered ==
    LET new == [rp.item EXCEPT !.key = @ + 1] IN
    /\ rp.at = "request" /\ Rotates(rp.item)
    /\ ReplaceCredentials(new)
    /\ rp' = [rp EXCEPT !.at = "save", !.item = new]
    /\ UNCHANGED <<link, wire, srvApp, refreshing, loopVars, restoreVars,
                   verifying, unsure, check, saved, up, lost, faults>>

\* The answer with the new pair does not arrive: the refresher goes on
\* waiting, until the request times out.
RefreshUnheard ==
    /\ rp.at = "request" /\ Rotates(rp.item) /\ Fault
    /\ lost' = lost \cup {"refresh"}
    /\ UNCHANGED <<link, wire, srvApp, storeVars, loopVars, restoreVars,
                   verifying, unsure, rp, check, saved, up>>

\* A refused token, a dead link or a timeout, which is not an APIError, ends
\* the refresh, and so does any other refusal of the last attempt.
RefreshRefused ==
    /\ rp.at = "request"
    /\ IF "refresh" \in lost \/ rp.item.key # tok[rp.item.acct] THEN UNCHANGED faults ELSE Fault
    /\ RefreshOver
    /\ UNCHANGED <<link, wire, serverVars, session, cred, loopVars,
                   restoreVars, verifying, unsure, check, saved, up>>

RefreshPausesOnceMore ==
    /\ rp.at = "request" /\ "refresh" \notin lost
    /\ rp.item.key = tok[rp.item.acct] /\ Fault
    /\ rp' = [rp EXCEPT !.at = "pause", !.tries = @ + 1]
    /\ UNCHANGED <<link, wire, serverVars, storeVars, loopVars, restoreVars,
                   reportVars, check, saved, spent, up, lost>>

\* Any other refusal is retried, up to RetryAttempts attempts.
RefreshPauses ==
    /\ rp.at = "request" /\ "refresh" \notin lost
    /\ rp.item.key = tok[rp.item.acct] /\ Fault
    /\ rp.tries + 1 < RetryAttempts
    /\ rp' = [rp EXCEPT !.at = "pause", !.tries = @ + 1]
    /\ UNCHANGED <<link, wire, serverVars, storeVars, loopVars, restoreVars,
                   reportVars, check, saved, spent, up, lost>>

RefreshRetries ==
    /\ rp.at = "pause"
    /\ rp' = [rp EXCEPT !.at = "request"] /\ Sends("refresh")
    /\ UNCHANGED <<link, wire, serverVars, storeVars, loopVars, restoreVars,
                   reportVars, check, saved, spent, up, faults>>

\* token_store.save, then establish with the new pair.
RefreshSaved ==
    /\ rp.at = "save"
    /\ saved' = [saved EXCEPT ![rp.item.acct] = rp.item.key]
    /\ rp' = [rp EXCEPT !.at = "establish"] /\ Sends("refresh")
    /\ UNCHANGED <<link, wire, serverVars, storeVars, loopVars, restoreVars,
                   reportVars, check, spent, up, faults>>

RefreshNotSaved ==
    /\ rp.at = "save" /\ Fault
    /\ RefreshOver
    /\ UNCHANGED <<link, wire, serverVars, session, cred, loopVars,
                   restoreVars, verifying, unsure, check, saved, up>>

RefreshEstablished ==
    /\ rp.at = "establish"
    /\ \/ EstablishOk("refresh", rp.item)
       \/ /\ EstablishAlready("refresh", rp.item) \/ EstablishFails("refresh", rp.item)
          /\ UNCHANGED <<session, cred, unsure>>
    /\ RefreshOver
    /\ UNCHANGED <<link, wire, srvApp, tok, age, loopVars, restoreVars,
                   verifying, check, saved, up>>

----------------------------------------------------------------------------
LinkNext    == LinkLost \/ LinkRestoring \/ LinkRestored \/ Open \/ Ends \/ Closes
RestoreNext == RestoreAppFails \/ RestoreAppOk \/ \E e \in Item : RestoreAccount(e)
LoopNext    == LoopTop \/ LoopWakes \/ LoopAppAnswered \/ \E e \in Item : LoopAccount(e)
ReportNext(r) == ReportHandled(r) \/ ProbeAnswered(r) \/ DropPublished(r)
RefreshNextStep ==
    \/ RefreshWakes \/ (\E e \in Item : RefreshNext(e)) \/ RefreshSleeps
    \/ RefreshAnswered \/ RefreshUnheard \/ RefreshRefused \/ RefreshPauses
    \/ RefreshRetries \/ RefreshSaved \/ RefreshNotSaved \/ RefreshEstablished

Next ==
    \/ LinkNext \/ RestoreNext \/ LoopNext \/ RefreshNextStep
    \/ \E r \in Reports : ReportNext(r)
    \/ \E a \in Accounts : AuthenticateTrader(a) \/ RemoveAccount(a)
    \/ TraderAnswered
    \/ \E a \in Accounts : BackoffElapses(a)
    \/ AppBackoffElapses
    \/ WireFails
    \/ \E t \in {"restore", "loop"} : AppAuthUnheard(t)
    \/ \E a \in Accounts : TokenAges(a) \/ ServerDrops(a)

Spec == Init /\ [][Next]_vars

\* Every task that can go on does, every timer runs out, every request is
\* answered or fails, and the connection layer replaces a link it lost.
\* Only the user, time and the faults are free.
Fairness ==
    /\ WF_vars(LinkLost \/ LinkRestoring \/ LinkRestored)
    /\ WF_vars(RestoreNext)
    /\ WF_vars(LoopNext)
    /\ WF_vars(RefreshNextStep)
    /\ WF_vars(AppBackoffElapses)
    /\ \A r \in Reports : WF_vars(ReportNext(r))
    /\ \A a \in Accounts : WF_vars(BackoffElapses(a))

FairSpec == Spec /\ Fairness

----------------------------------------------------------------------------
\* The recovery loop never sleeps through work: while it waits for a signal
\* that is not set, no account awaits recovery and the application is not
\* waiting to be re-authenticated (_recovery.py, _reauth_loop).
NoLostWakeup ==
    lp = "idle" /\ ~signal => app = "fine" /\ \A a \in Accounts : ~Awaiting(a)

\* is_account_authorized is honest: on a link that works, an account shown
\* as authorised is served, or a report of its drop waits to be looked at or
\* is being checked.  Two gaps of handle_account_disconnect are left out: a
\* check that could not be completed, and a report that is turned away while
\* the drop that an earlier one confirmed is still being published.
AuthorizedIsServed ==
    \A a \in Accounts :
        wire /\ Authorized(a) /\ a \notin live =>
            a \in unsure \/ \E r \in Reports : hp[r].acct = a /\ hp[r].at # "emit"

\* The server refuses the check of account a for a reason of its own.
CheckRefused(a) ==
    /\ \E r \in Reports : hp[r] = [at |-> "probe", acct |-> a] /\ hp'[r].at = "emit"
    /\ faults' < faults

\* A session that the server serves, or withholds only while the client is
\* replacing its tokens, is never put up for recovery by a late failure of an
\* attempt that something else has overtaken, or by a report that is no
\* longer true.  The code does so in two cases only: the server refuses the
\* check of the account, which probe_session takes for an answer of no, and
\* the application could not be re-authenticated, which flags every account.
DropsAreReal ==
    [][\A a \in Accounts :
         Authorized(a) /\ session'[a] \in {"due", "backoff"} =>
            \/ a \notin live \cup spent
            \/ CheckRefused(a)
            \/ sp = "app" /\ sp' = "done"]_vars

\* The pair held for an account is never replaced by one the server has
\* already spent, although recovery works from snapshots that a refresh may
\* overtake.
CredentialsNeverGoBack ==
    [][\A a \in Accounts :
         Held(a) /\ session'[a] # "absent" => cred'[a] >= cred[a]]_vars

\* A flagged account leaves the recovery queue: it is authorised again, is
\* removed or loses its link, unless the reply that carried its tokens was
\* lost and nothing the client holds is accepted any more.
RecoveryCompletes ==
    \A a \in Accounts : Awaiting(a) ~> (~Awaiting(a) \/ cred[a] # tok[a])

\* Every disconnect report is settled: a refresh it waits for always ends.
ReportsSettle ==
    \A r \in Reports : (hp[r].at # "idle") ~> (hp[r].at = "idle")

\* _recovery.py, on_connection_restored: "a failure is handed to the
\* recovery loop to keep retrying in the background".
HandedToRecovery ==
    [][link = "restoring" /\ link' = "up" /\ wire =>
         \A a \in Accounts : Held(a) => Authorized(a) \/ Awaiting(a)]_vars
=============================================================================
