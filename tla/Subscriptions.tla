---------------------------- MODULE Subscriptions ----------------------------
(***************************************************************************)
(* The standing market data subscriptions of one account (MarketDataAPI).  *)
(* Accounts share nothing here, so one is enough.  A call sends a request, *)
(* and records the intent when the answer comes; restore re-applies what   *)
(* is recorded to a fresh server-side session, before the account is       *)
(* announced as ready, while the application goes on subscribing,          *)
(* unsubscribing and removing the account.                                 *)
(*                                                                         *)
(* A topic is a live feed: the spots or the depth of a symbol, or its      *)
(* trendbars of one period.  The server acts on a request and the caller   *)
(* resumes in one step: answers arrive in the order they were sent.        *)
(***************************************************************************)
EXTENDS Naturals, FiniteSets

CONSTANTS
    Symbols, Periods,
    Callers,        \* application tasks inside a subscribe or unsubscribe call
    Restores,       \* tasks inside restore (each establish runs its own)
    MaxTrouble      \* bound: refusals, late answers, drops and removals

ASSUME TaskAssumption    == Callers \cap Restores = {}
ASSUME TroubleAssumption == MaxTrouble \in Nat

Topic == [kind : {"spots", "depth"}, sym : Symbols, per : {"-"}]
         \cup [kind : {"bars"}, sym : Symbols, per : Periods]

VARIABLES
    up,         \* server: the account has a session on a working link
    subs,       \* server: the topics it sends on that session
    standing,   \* _standing[account]; no record is the empty record
    call,       \* the request each task awaits an answer to
    stage,      \* how far each restore has got
    left,       \* trendbars a restore has yet to ask for (its sorted snapshot)
    view,       \* the record object a restore holds, once forgotten
    apart,      \* restores whose record object was forgotten
    lost,       \* tasks whose request went down with its link
    strayed,    \* history: this session carries feeds the record cannot know of
    ready,      \* the ReadyEvent of this session: to come after its restore, or
                \* after a restore that succeeded or failed; none due ("quiet"),
                \* or published with no restore ("bare")
    trouble     \* trouble left (bound)

vars == <<up, subs, standing, call, stage, left, view, apart, lost, strayed, ready, trouble>>

Tasks  == Callers \cup Restores
NoCall == [op |-> "none", topics |-> {}]
Of(kind, S) == {t \in S : t.kind = kind}

\* subscribe_spots and subscribe_depth name symbols, subscribe_trendbars one
\* symbol and period.
Requests ==
    {S \in SUBSET Topic : /\ S # {} /\ Cardinality({t.kind : t \in S}) = 1
                          /\ Of("bars", S) # {} => Cardinality(S) = 1}

TypeOK ==
    /\ up \in BOOLEAN /\ strayed \in BOOLEAN
    /\ subs \in SUBSET Topic /\ standing \in SUBSET Topic
    /\ call \in [Tasks -> [op : {"none", "subscribe", "unsubscribe"}, topics : SUBSET Topic]]
    /\ stage \in [Restores -> {"idle", "spots", "bars", "depth"}]
    /\ left \in [Restores -> SUBSET Topic]
    /\ view \in [Restores -> SUBSET Topic]
    /\ apart \in SUBSET Restores
    /\ lost \in SUBSET Tasks
    /\ ready \in {"no", "restored", "failed", "quiet", "bare"}
    /\ trouble \in 0..MaxTrouble

Init ==
    /\ up = TRUE /\ strayed = FALSE /\ subs = {} /\ standing = {}
    /\ call = [t \in Tasks |-> NoCall]
    /\ stage = [r \in Restores |-> "idle"] /\ left = [r \in Restores |-> {}]
    /\ view = [r \in Restores |-> {}] /\ apart = {} /\ lost = {}
    /\ ready = "restored" /\ trouble = MaxTrouble

Trouble == trouble > 0 /\ trouble' = trouble - 1

----------------------------------------------------------------------------
(* The server.                                                             *)

\* It rejects a duplicate, trendbars without spots for the symbol, and
\* everything without a session.
Allows(c) ==
    /\ up
    /\ c.op = "subscribe" =>
         /\ c.topics \cap subs = {}
         /\ \A t \in Of("bars", c.topics) : \E s \in Of("spots", subs) : s.sym = t.sym
    /\ c.op = "unsubscribe" => c.topics \subseteq subs

Serve(c) == subs' = IF c.op = "subscribe" THEN subs \cup c.topics ELSE subs \ c.topics

\* Mutant: trendbars are recorded by symbol, without their period.
RecordBySymbol(c) ==
    standing' = IF c.op = "subscribe" THEN standing \cup {[t EXCEPT !.per = "-"] : t \in c.topics}
                ELSE standing \ c.topics

Record(c) ==
    standing' = IF c.op = "subscribe" THEN standing \cup c.topics ELSE standing \ c.topics

\* The request of task t is answered, refused, or not answered in time, in
\* which case the server may have acted on it.
Accepted(t) ==
    /\ t \notin lost /\ Allows(call[t])
    /\ Serve(call[t]) /\ Record(call[t])
    /\ UNCHANGED <<strayed, trouble>>

\* Mutant: a refused subscription is struck from the record.
RejectedForgetting(t) ==
    /\ (t \in lost \/ ~Allows(call[t])) /\ UNCHANGED <<subs, strayed, trouble>>
    /\ standing' = standing \ call[t].topics

Rejected(t) ==
    /\ \/ (t \in lost \/ ~Allows(call[t])) /\ UNCHANGED <<subs, strayed, trouble>>
       \/ t \notin lost /\ Trouble /\ UNCHANGED <<subs, strayed>>
       \/ t \notin lost /\ Allows(call[t]) /\ Trouble /\ Serve(call[t]) /\ strayed' = TRUE
    /\ UNCHANGED standing

----------------------------------------------------------------------------
(* The application.                                                        *)

\* A request made without a session is refused, or fails with its link.
Ask(t, c, alive) ==
    /\ call' = [call EXCEPT ![t] = c]
    /\ lost' = IF alive \/ c = NoCall THEN lost \ {t} ELSE lost \cup {t}

\* subscribe_* and unsubscribe_*, up to the request.
Call(t, op, S) ==
    /\ call[t] = NoCall
    /\ Ask(t, [op |-> op, topics |-> S], up)
    /\ UNCHANGED <<up, subs, standing, stage, left, view, apart, strayed, ready, trouble>>

\* The rest of the call: the intent is recorded only if the server agreed.
Return(t) ==
    /\ call[t] # NoCall
    /\ Accepted(t) \/ Rejected(t)
    /\ Ask(t, NoCall, up)
    /\ UNCHANGED <<up, stage, left, view, apart, ready>>

\* AuthManager.remove_account: the record is dropped, the session is not.  A
\* restore under way keeps the object it holds; what completes later is
\* recorded in a new one.
Forget ==
    /\ Trouble
    /\ standing' = {}
    /\ view' = [r \in Restores |-> IF stage[r] # "idle" /\ r \notin apart THEN standing ELSE view[r]]
    /\ apart' = apart \cup {r \in Restores : stage[r] # "idle"}
    /\ strayed' = TRUE
    /\ UNCHANGED <<up, subs, call, stage, left, lost, ready>>

----------------------------------------------------------------------------
(* restore, inside establish.                                              *)

\* The record object that restore r works from.
Held(r) == IF r \in apart THEN view[r] ELSE standing

\* restore r sends its next request, rest being the trendbars after it.
Sends(r, st, topics, rest) ==
    /\ stage' = [stage EXCEPT ![r] = st]
    /\ left' = [left EXCEPT ![r] = rest]
    /\ Ask(r, [op |-> "subscribe", topics |-> topics], TRUE)
    /\ UNCHANGED <<view, apart>>

\* restore r returns, and establish publishes the ReadyEvent.
Ends(r) ==
    /\ stage' = [stage EXCEPT ![r] = "idle"]
    /\ left' = [left EXCEPT ![r] = {}]
    /\ view' = [view EXCEPT ![r] = {}] /\ apart' = apart \ {r}
    /\ Ask(r, NoCall, TRUE)

\* Mutant: restore leaves the depth feeds out.
ProceedShort(r, s, S, T) ==
    LET spots == Of("spots", S)
        bars  == IF s \in {"start", "spots"} THEN Of("bars", S) ELSE T
        past  == s # "start" \/ spots = {}
    IN \/ ~past /\ Sends(r, "spots", spots, {}) /\ ready' = "no"
       \/ past /\ bars # {} /\ (\E b \in bars : Sends(r, "bars", {b}, bars \ {b})) /\ ready' = "no"
       \/ past /\ bars = {} /\ Ends(r) /\ ready' = "restored"

\* What restore r does when its record is S and it has been through stage s:
\* the spots in one request, then the trendbars that are recorded when those
\* are on, one by one, then the depth that is recorded when those are.
Proceed(r, s, S, T) ==
    LET spots == Of("spots", S)
        bars  == IF s \in {"start", "spots"} THEN Of("bars", S) ELSE T
        depth == Of("depth", S)
        past  == s # "start" \/ spots = {}
    IN \/ ~past /\ Sends(r, "spots", spots, {}) /\ ready' = "no"
       \/ /\ past /\ s # "depth" /\ bars # {}
          /\ (\E b \in bars : Sends(r, "bars", {b}, bars \ {b})) /\ ready' = "no"
       \/ /\ past /\ s # "depth" /\ bars = {} /\ depth # {}
          /\ Sends(r, "depth", depth, {}) /\ ready' = "no"
       \/ past /\ (s = "depth" \/ bars \cup depth = {}) /\ Ends(r) /\ ready' = "restored"

\* The server authorises the account on a fresh session.
Authorised == ~up /\ up' = TRUE /\ subs' = {} /\ strayed' = FALSE

\* establish for the application, a reconnection or the recovery loop: restore
\* begins.  A session that is there is not established again: a refresh renews
\* it in place with its feeds, and the others are refused.
Establish(r) ==
    /\ Authorised
    /\ stage[r] = "idle"
    /\ Proceed(r, "start", standing, {})
    /\ UNCHANGED <<standing, trouble>>

\* establish with the trigger TOKEN_REFRESH, on an account whose session had
\* ended, neither restores nor announces; nor does one whose request timed
\* out although the server had acted on it.
EstablishQuietly ==
    /\ Authorised
    /\ ready' = "quiet"
    /\ UNCHANGED <<standing, call, stage, left, view, apart, lost, trouble>>

\* The recovery loop is refused such a session as authorised already: it takes
\* the account as recovered and announces it without a restore.
RecoveredElsewhere ==
    /\ up /\ ready = "quiet" /\ ready' = "bare"
    /\ UNCHANGED <<up, subs, standing, call, stage, left, view, apart, lost, strayed, trouble>>

\* The server agreed to the request: it is recorded and the next one is sent.
RestoreStep(r) ==
    /\ stage[r] # "idle" /\ Accepted(r)
    /\ LET now == IF r \in apart THEN view[r] ELSE standing'
       IN Proceed(r, stage[r], now, left[r])
    /\ UNCHANGED up

\* Mutant: the failure escapes restore, and establish with it.
RestoreStopsRaising(r) ==
    /\ stage[r] # "idle" /\ Rejected(r)
    /\ Ends(r)
    /\ UNCHANGED <<up, ready>>

\* It did not: a SubscriptionRestoreFailedEvent, and the account is announced.
\* A restore that outlived its session says nothing about the present one.
RestoreStops(r) ==
    /\ stage[r] # "idle" /\ Rejected(r)
    /\ Ends(r)
    /\ ready' = IF r \in lost THEN ready ELSE "failed"
    /\ UNCHANGED up

\* The link drops or the server ends the session: the feeds end with it, and
\* so do the requests in flight.
SessionEnds ==
    /\ up /\ Trouble
    /\ up' = FALSE /\ subs' = {} /\ strayed' = FALSE /\ ready' = "no"
    /\ lost' = lost \cup {t \in Tasks : call[t] # NoCall}
    /\ UNCHANGED <<standing, call, stage, left, view, apart>>

----------------------------------------------------------------------------

Next ==
    \/ \E t \in Callers, op \in {"subscribe", "unsubscribe"}, S \in Requests : Call(t, op, S)
    \/ \E t \in Callers : Return(t)
    \/ Forget
    \/ \E r \in Restores : Establish(r) \/ RestoreStep(r) \/ RestoreStops(r)
    \/ EstablishQuietly \/ RecoveredElsewhere
    \/ SessionEnds

\* Every request ends, by its answer or by its timeout.
Fairness ==
    /\ \A t \in Callers : WF_vars(Return(t))
    /\ \A r \in Restores : WF_vars(RestoreStep(r) \/ RestoreStops(r))

Spec     == Init /\ [][Next]_vars
FairSpec == Spec /\ Fairness

----------------------------------------------------------------------------
(* Properties.                                                             *)

\* On a session nothing has escaped the record of, no feed is live that the
\* record does not have, whatever calls and restores are under way, and once
\* the account is announced after a restore that reported no failure the two
\* are the same (MarketDataAPI.restore, subscribe_*, unsubscribe_*).  A session
\* nothing was restored on may lack feeds the record has, never have others.
FeedMatchesIntent ==
    up /\ ~strayed => /\ subs \subseteq standing
                      /\ ready = "restored" => subs = standing

\* What the application asked for is given up only with the feed itself or
\* with the account: a refusal, a timeout, a lost session or a restore that
\* fails half way keeps it for the next reconnection.
IntentKept ==
    [][Forget \/ \A t \in standing \ standing' : up /\ t \in subs /\ t \notin subs']_vars

\* A session that establish hears of is announced, also when its restore fails
\* at any of its requests, unless it ends first (AuthManager.establish).  It is
\* not claimed of the sessions that establish does not announce: those a token
\* refresh brought back, and those whose authorisation timed out.
SessionAnnounced == (up /\ ready = "no") ~> (ready # "no" \/ ~up)
=============================================================================
