--------------------------- MODULE SessionsProofs ---------------------------
(***************************************************************************)
(* Proofs about account sessions, for any set of accounts, any number of   *)
(* reports at a time, and any number of rotations, retries and faults.     *)
(***************************************************************************)
EXTENDS Sessions, TLAPS

----------------------------------------------------------------------------
(* The inductive invariant.                                                *)

\* A report is being checked, or the drop it confirmed is being published.
Checking == {"probe", "emit"}

\* Each report that is under way is about an account, and the accounts that
\* are being verified are those of the checks, one check each.
ReportsAgree ==
    /\ \A r \in Reports : hp[r].at # "idle" <=> hp[r].acct \in Accounts
    /\ \A r \in Reports : hp[r].at \in Checking => hp[r].acct \in verifying
    /\ \A a \in verifying : \E r \in Reports : hp[r].at \in Checking /\ hp[r].acct = a
    /\ \A r, q \in Reports :
         hp[r].at \in Checking /\ hp[q].at \in Checking /\ hp[r].acct = hp[q].acct => r = q

\* Among the reports h, one of account a waits to be looked at or is being
\* checked; or has not started, or waits for a refresh.
Looked(h, a)  == \E r \in Reports : h[r].acct = a /\ h[r].at # "emit"
Waiting(h, a) == \E r \in Reports : h[r].acct = a /\ h[r].at \in {"sent", "settling"}

\* While the refresh that ended a session goes on, the report of that waits
\* for it.
SpentReported == \A a \in spent : a \in refreshing /\ Waiting(hp, a)

\* The refresher has an account in hand, and marked, while it works on one,
\* and the listener is at work exactly while the link is being restored.
TasksAgree ==
    /\ rp.at \in {"request", "pause", "save", "establish"} =>
         rp.item \in Item /\ rp.item.acct \in refreshing
    /\ sp # "idle" <=> link = "restoring"

\* While no client is open nobody has a session and nothing runs.
QuietWhenOver ==
    link \in {"closed", "over"} =>
        /\ \A a \in Accounts : session[a] \in {"absent", "none"}
        /\ lp = "off" /\ rp.at = "off" /\ up = NoItem /\ app = "fine"
        /\ \A r \in Reports : hp[r].at = "idle"

\* A dead link serves nobody, and nobody is served before the application
\* is authorised.
WireAgrees ==
    /\ ~wire => ~srvApp
    /\ ~srvApp => live = {}
    /\ link \in {"down", "closed", "over"} => ~wire

\* Every request that is under way on a dead link is lost.
LostAgrees ==
    ~wire => /\ lp \in {"app", "round"} => "loop" \in lost
             /\ sp \in {"app", "round"} => "restore" \in lost
             /\ rp.at \in {"request", "establish"} => "refresh" \in lost
             /\ up # NoItem => "user" \in lost
             /\ \A r \in Reports : hp[r].at = "probe" => r \in lost

\* From the loss of a link until the listener has heard about the
\* application on the next one, the recovery loop has no request under way
\* that could authorise the application behind the listener's back; until
\* the server acts on the listener's request, no account is shown as
\* authorised.
FreshStart ==
    /\ link = "down" \/ sp = "app" =>
         app = "fine" /\ (lp = "app" => "loop" \in lost)
    /\ link = "down" \/ (sp = "app" /\ "restore" \notin lost) =>
         ~srvApp /\ \A a \in Accounts : ~Authorized(a)

\* The client never holds a pair that the server has not issued.
TokensAgree == \A a \in Accounts : cred[a] <= tok[a]

IInv ==
    /\ TypeOK
    /\ ReportsAgree
    /\ SpentReported
    /\ TasksAgree
    /\ QuietWhenOver
    /\ WireAgrees
    /\ LostAgrees
    /\ FreshStart
    /\ TokensAgree
    /\ NoLostWakeup
    /\ AuthorizedIsServed

----------------------------------------------------------------------------
(* What the parts of the actions do.                                       *)

ReportType == [at : {"idle", "sent", "settling", "settled", "probe", "emit"},
               acct : Accounts \cup {"none"}]
NoReport   == [at |-> "idle", acct |-> "none"]

LEMMA Numbers ==
    /\ 0 \in Tokens /\ Tokens \subseteq Nat
    /\ 0 \in 0..(RetryAttempts - 1)
    /\ MaxFaults \in 0..MaxFaults
  BY BoundAssumption, RetryAssumption DEF Tokens

\* A snapshot of the store is a set of items, one for each account held.
LEMMA ItemsType ==
    ASSUME TypeOK
    PROVE  /\ Items \subseteq Item
           /\ \A a \in Accounts : Held(a) => [acct |-> a, key |-> cred[a]] \in Items
           /\ \A e \in Items : Held(e.acct)
  BY DEF TypeOK, Items, Item, Held

\* The budget of faults is not overdrawn.
LEMMA FaultType ==
    ASSUME TypeOK, Fault \/ UNCHANGED faults
    PROVE  faults' \in 0..MaxFaults
  BY BoundAssumption DEF TypeOK, Fault

\* A request of task t on a dead link is lost, and no other task's is.
LEMMA SendsKeeps ==
    ASSUME TypeOK, NEW t \in Tasks, NEW c \in BOOLEAN, SendsIf(c, t)
    PROVE  /\ lost' \in SUBSET Tasks
           /\ ~wire /\ c => t \in lost'
           /\ \A s \in Tasks : s # t => (s \in lost <=> s \in lost')
  BY DEF TypeOK, SendsIf, Sends

\* A report that is on its way occupies one idle handler, or none if another
\* report stands for it.
LEMMA ReportedKeeps ==
    ASSUME TypeOK, ReportsAgree, NEW a \in Accounts, NEW h \in Reported(a)
    PROVE  /\ h \in [Reports -> ReportType]
           /\ Waiting(h, a)
           /\ \A r \in Reports :
                h[r] = hp[r] \/ (hp[r].at = "idle" /\ h[r] = [at |-> "sent", acct |-> a])
  <1>1. hp \in [Reports -> ReportType]
    BY DEF TypeOK, ReportType
  <1>2. CASE Waiting(hp, a)
    BY <1>1, <1>2 DEF Reported, Waiting
  <1>3. CASE ~Waiting(hp, a)
    <2>1. PICK r \in Reports : hp[r].at = "idle" /\ h = [hp EXCEPT ![r] = [at |-> "sent", acct |-> a]]
      BY <1>3 DEF Reported, Waiting
    <2> QED
      BY <1>1, <2>1 DEF ReportType, Waiting
  <1> QED
    BY <1>2, <1>3

\* Reports that arrive, and reports that move on without asking the server,
\* leave the probes and the accounts under report as they are.
LEMMA ReportsMove ==
    ASSUME TypeOK, ReportsAgree, UNCHANGED verifying, hp' \in [Reports -> ReportType],
           NEW a \in Accounts,
           \A r \in Reports :
             \/ /\ hp'[r].acct = hp[r].acct
                /\ hp'[r].at = hp[r].at \/ (hp[r].at = "settling" /\ hp'[r].at = "settled")
             \/ hp[r].at = "idle" /\ hp'[r] = [at |-> "sent", acct |-> a]
    PROVE  /\ ReportsAgree'
           /\ \A r \in Reports : hp'[r].at = "probe" => hp[r].at = "probe"
           /\ \A b \in Accounts : Looked(hp, b) => Looked(hp', b)
  <1>1. \A r \in Reports : /\ hp'[r].at \in Checking <=> hp[r].at \in Checking
                           /\ hp'[r].at = "probe" <=> hp[r].at = "probe"
                           /\ hp'[r].at = "emit" <=> hp[r].at = "emit"
                           /\ hp[r].at # "idle" => hp'[r].acct = hp[r].acct
                           /\ hp[r].at # "idle" => hp'[r].at # "idle"
    BY DEF Checking
  <1>2. \A r \in Reports : hp'[r].at # "idle" <=> hp'[r].acct \in Accounts
    BY DEF ReportsAgree
  <1>3. \A r \in Reports : hp[r].at \in Checking => hp[r].at # "idle"
    BY DEF Checking
  <1>4. \A r, q \in Reports :
          hp'[r].at \in Checking /\ hp'[q].at \in Checking /\ hp'[r].acct = hp'[q].acct => r = q
    BY <1>1, <1>3 DEF ReportsAgree
  <1>5. \A b \in verifying : \E r \in Reports : hp'[r].at \in Checking /\ hp'[r].acct = b
    <2> TAKE b \in verifying
    <2>1. PICK r \in Reports : hp[r].at \in Checking /\ hp[r].acct = b
      BY DEF ReportsAgree
    <2> QED
      BY <1>1, <1>3, <2>1
  <1>6. \A r \in Reports : hp'[r].at \in Checking => hp'[r].acct \in verifying
    BY <1>1, <1>3 DEF ReportsAgree
  <1>7. ASSUME NEW b \in Accounts, NEW r \in Reports, hp[r].acct = b, hp[r].at # "emit"
        PROVE  hp'[r].acct = b /\ hp'[r].at # "emit"
    BY <1>1, <1>7 DEF ReportsAgree
  <1> QED
    BY <1>1, <1>2, <1>4, <1>5, <1>6, <1>7 DEF ReportsAgree, Looked

\* The refresh of account a ends: those that waited for it may go on.
LEMMA SettleKeeps ==
    ASSUME NEW h \in [Reports -> ReportType], NEW a
    PROVE  /\ Settle(h, a) \in [Reports -> ReportType]
           /\ \A r \in Reports :
                /\ Settle(h, a)[r].acct = h[r].acct
                /\ Settle(h, a)[r].at = h[r].at
                     \/ (h[r].at = "settling" /\ Settle(h, a)[r].at = "settled" /\ h[r].acct = a)
  BY DEF Settle, ReportType

\* What an attempt to establish the session of item e may change: a session
\* becomes authorised only when the server serves it, with the pair that the
\* server accepts, and nothing happens without the application.
Established(t, e) ==
    \/ EstablishOk(t, e)
    \/ (EstablishAlready(t, e) \/ EstablishFails(t, e)) /\ UNCHANGED <<session, cred, unsure>>
    \/ EstablishAlready(t, e) /\ Authorize(e)
    \/ EstablishFails(t, e) /\ Reschedule(e) /\ UNCHANGED unsure

LEMMA EstablishKeeps ==
    ASSUME TypeOK, NEW t, NEW e \in Item, Established(t, e)
    PROVE  /\ live' \in SUBSET Accounts /\ unsure' \in SUBSET Accounts /\ faults' \in 0..MaxFaults
           /\ session' \in [Accounts -> {"absent", "none", "auth", "due", "backoff"}]
           /\ cred' \in [Accounts -> Tokens]
           /\ live \subseteq live'
           /\ ~srvApp => live' = live
           /\ \A a \in Accounts : cred'[a] # cred[a] => cred'[a] = tok[a]
           /\ \A a \in Accounts : session'[a] # session[a] =>
                \/ session'[a] = "auth" /\ a \in live' /\ srvApp
                \/ Awaiting(a) /\ session'[a] = "backoff"
           /\ \A a \in Accounts : a \in unsure => a \in unsure' \/ a \in live'
  <1>1. e.acct \in Accounts /\ e.key \in Tokens
    BY DEF Item
  <1>2. faults' \in 0..MaxFaults
    BY FaultType DEF Established, EstablishOk, EstablishAlready, EstablishFails
  <1>3. /\ live' \in SUBSET Accounts /\ live \subseteq live'
        /\ ~srvApp => live' = live
    BY <1>1 DEF TypeOK, Established, EstablishOk, EstablishAlready, EstablishFails, Accepts
  <1>4. CASE EstablishOk(t, e) \/ (EstablishAlready(t, e) /\ Authorize(e))
    <2>1. /\ Authorize(e) /\ srvApp /\ e.key = tok[e.acct] /\ e.acct \in live'
      BY <1>1, <1>4 DEF EstablishOk, EstablishAlready, Accepts, Usable, TypeOK
    <2> QED
      BY <1>1, <1>2, <1>3, <2>1 DEF Authorize, TypeOK
  <1>5. CASE UNCHANGED <<session, cred, unsure>>
    BY <1>2, <1>3, <1>5 DEF TypeOK
  <1>6. CASE Reschedule(e) /\ UNCHANGED unsure
    BY <1>1, <1>2, <1>3, <1>6 DEF Reschedule, Awaiting, TypeOK
  <1> QED
    BY <1>4, <1>5, <1>6 DEF Established

LEMMA NoReportType == NoReport \in ReportType
  BY DEF NoReport, ReportType

\* The server rotates the pair of item e: its session ends, and no pair gets older.
LEMMA RotatesKeeps ==
    ASSUME TypeOK, NEW e \in Item, Rotates(e)
    PROVE  /\ e.acct \in Accounts
           /\ tok' \in [Accounts -> Tokens] /\ age' \in [Accounts -> {"fresh", "soon", "expired"}]
           /\ live' = live \ {e.acct}
           /\ tok'[e.acct] = e.key + 1 /\ e.key + 1 \in Tokens
           /\ \A a \in Accounts : tok[a] <= tok'[a]
  <1>1. e.acct \in Accounts /\ e.key = tok[e.acct] /\ tok[e.acct] < MaxToken
    BY DEF Item, Rotates
  <1>2. tok[e.acct] + 1 \in Tokens
    BY <1>1, BoundAssumption DEF TypeOK, Tokens
  <1>3. \A a \in Accounts : tok[a] <= tok'[a]
    BY <1>1, BoundAssumption DEF TypeOK, Tokens, Rotates
  <1> QED
    BY <1>1, <1>2, <1>3 DEF TypeOK, Rotates

\* It reports the end of a session, and the report waits for the refresh.
LEMMA RotationReported ==
    ASSUME TypeOK, ReportsAgree, SpentReported, UNCHANGED <<verifying, refreshing>>,
           NEW e \in Item, e.acct \in refreshing, Rotates(e)
    PROVE  /\ hp' \in [Reports -> ReportType] /\ spent' \in SUBSET Accounts
           /\ ReportsAgree' /\ SpentReported'
           /\ \A r \in Reports : hp'[r].at = "probe" => hp[r].at = "probe"
           /\ \A b \in Accounts : Looked(hp, b) => Looked(hp', b)
           /\ e.acct \in live => Looked(hp', e.acct)
  <1>1. e.acct \in Accounts
    BY DEF Item
  <1>2. /\ hp' \in [Reports -> ReportType]
        /\ \A r \in Reports :
             hp'[r] = hp[r] \/ (hp[r].at = "idle" /\ hp'[r] = [at |-> "sent", acct |-> e.acct])
        /\ e.acct \in live => Waiting(hp', e.acct)
    <2>1. CASE e.acct \in live
      BY <1>1, <2>1, ReportedKeeps DEF Rotates
    <2>2. CASE e.acct \notin live
      BY <2>2 DEF Rotates, TypeOK, ReportType
    <2> QED
      BY <2>1, <2>2
  <1>3. /\ ReportsAgree'
        /\ \A r \in Reports : hp'[r].at = "probe" => hp[r].at = "probe"
        /\ \A b \in Accounts : Looked(hp, b) => Looked(hp', b)
    BY <1>1, <1>2, ReportsMove
  <1>4. \A b \in spent : Waiting(hp', b)
    BY <1>2 DEF SpentReported, Waiting
  <1>5. spent' = spent \cup (live \cap {e.acct})
    BY DEF Rotates
  <1> QED
    BY <1>1, <1>2, <1>3, <1>4, <1>5 DEF SpentReported, Waiting, Looked, TypeOK

\* A refresh ends.
LEMMA RefreshOverKeeps ==
    ASSUME TypeOK, ReportsAgree, SpentReported, rp.item \in Item, UNCHANGED verifying, RefreshOver
    PROVE  /\ refreshing' \in SUBSET Accounts /\ hp' \in [Reports -> ReportType]
           /\ spent' \in SUBSET Accounts
           /\ rp' = [at |-> "next", item |-> NoItem, tries |-> 0] /\ lost' = lost \ {"refresh"}
           /\ ReportsAgree' /\ SpentReported'
           /\ \A r \in Reports : hp'[r].at = "probe" => hp[r].at = "probe"
           /\ \A b \in Accounts : Looked(hp, b) => Looked(hp', b)
  <1>1. rp.item.acct \in Accounts /\ hp \in [Reports -> ReportType]
    BY DEF Item, TypeOK, ReportType
  <1>2. /\ hp' \in [Reports -> ReportType]
        /\ \A r \in Reports :
             /\ hp'[r].acct = hp[r].acct
             /\ hp'[r].at = hp[r].at
                  \/ (hp[r].at = "settling" /\ hp'[r].at = "settled" /\ hp[r].acct = rp.item.acct)
    BY <1>1, SettleKeeps DEF RefreshOver
  <1>3. /\ ReportsAgree'
        /\ \A r \in Reports : hp'[r].at = "probe" => hp[r].at = "probe"
        /\ \A b \in Accounts : Looked(hp, b) => Looked(hp', b)
    BY <1>1, <1>2, ReportsMove
  <1>4. SpentReported'
    <2> SUFFICES ASSUME NEW b \in spent, b # rp.item.acct PROVE b \in refreshing' /\ Waiting(hp', b)
      BY DEF SpentReported, RefreshOver
    <2> QED
      BY <1>2 DEF SpentReported, RefreshOver, Waiting
  <1> QED
    BY <1>1, <1>2, <1>3, <1>4 DEF RefreshOver, TypeOK

\* A check ends, or goes on to publish the drop it found.
LEMMA CheckMoves ==
    ASSUME TypeOK, ReportsAgree, NEW r \in Reports, hp[r].at \in Checking, hp[r].acct \in Accounts,
           \A q \in Reports : q # r => hp'[q] = hp[q],
           \/ hp'[r] = NoReport /\ verifying' = verifying \ {hp[r].acct}
           \/ hp'[r] = [at |-> "emit", acct |-> hp[r].acct] /\ verifying' = verifying
    PROVE  ReportsAgree'
  <1>1. \A q \in Reports : hp'[q].at \in Checking => hp[q].at \in Checking /\ hp'[q].acct = hp[q].acct
    BY DEF Checking, NoReport
  <1>2. \A q \in Reports : hp'[q].at # "idle" <=> hp'[q].acct \in Accounts
    BY NameAssumption DEF ReportsAgree, NoReport
  <1>3. \A q \in Reports : hp'[q].at \in Checking => hp'[q].acct \in verifying'
    BY <1>1 DEF ReportsAgree, NoReport, Checking
  <1>4. ASSUME NEW b \in verifying'
        PROVE  \E q \in Reports : hp'[q].at \in Checking /\ hp'[q].acct = b
    <2>1. PICK q \in Reports : hp[q].at \in Checking /\ hp[q].acct = b
      BY DEF ReportsAgree
    <2> QED
      BY <2>1 DEF Checking
  <1>5. \A p, q \in Reports :
          hp'[p].at \in Checking /\ hp'[q].at \in Checking /\ hp'[p].acct = hp'[q].acct => p = q
    BY <1>1 DEF ReportsAgree
  <1> QED
    BY <1>2, <1>3, <1>4, <1>5 DEF ReportsAgree

\* An attempt to authorise the application, whose request may be lost.
LEMMA AppAuthKeeps ==
    ASSUME TypeOK, NEW t, AppAuthOk(t) \/ AppAuthFails(t)
    PROVE  /\ srvApp' \in BOOLEAN /\ faults' \in 0..MaxFaults
           /\ srvApp => srvApp'
           /\ t \in lost => srvApp' = srvApp
  BY FaultType DEF TypeOK, AppAuthOk, AppAuthFails

\* The loop reads the queue: it sleeps only if nobody awaits recovery.
LEMMA LoopServesKeeps ==
    ASSUME TypeOK, LoopServes
    PROVE  /\ lp' \in {"idle", "timer", "round"} /\ due' \in SUBSET Item /\ lost' \in SUBSET Tasks
           /\ lp' = "idle" => \A a \in Accounts : ~Awaiting(a)
           /\ ~wire /\ lp' = "round" => "loop" \in lost'
           /\ \A s \in Tasks : s # "loop" => (s \in lost <=> s \in lost')
  <1>1. Due \subseteq Queue /\ Queue \subseteq Items
    BY DEF Due, Queue, Awaiting
  <1>2. lp' = "idle" => \A a \in Accounts : ~Awaiting(a)
    <2>1. ASSUME NEW a \in Accounts, Awaiting(a) PROVE [acct |-> a, key |-> cred[a]] \in Queue
      BY <2>1, ItemsType DEF Queue, Awaiting, Held
    <2> QED
      BY <2>1 DEF LoopServes
  <1>3. lp' = "round" => Due # {}
    BY <1>1 DEF LoopServes
  <1>4. /\ lost' \in SUBSET Tasks
        /\ ~wire /\ Due # {} => "loop" \in lost'
        /\ \A s \in Tasks : s # "loop" => (s \in lost <=> s \in lost')
    BY SendsKeeps DEF LoopServes, Tasks
  <1>5. lp' \in {"idle", "timer", "round"} /\ due' \in SUBSET Item
    BY <1>1, ItemsType DEF LoopServes
  <1> QED
    BY <1>2, <1>3, <1>4, <1>5

----------------------------------------------------------------------------
(* Every step keeps the invariant.                                         *)

\* The server, the wire and the passage of time.
LEMMA ServerStep ==
    ASSUME IInv,
           \/ \E a \in Accounts : ServerDrops(a)
           \/ \E a \in Accounts : TokenAges(a)
           \/ WireFails
           \/ \E a \in Accounts : BackoffElapses(a)
           \/ AppBackoffElapses
    PROVE  IInv'
  <1> USE DEF serverVars, storeVars, loopVars, restoreVars, reportVars, refreshVars
  <1>1. ASSUME NEW a \in Accounts, ServerDrops(a) PROVE IInv'
    <2>1. /\ hp' \in [Reports -> ReportType]
          /\ \A r \in Reports :
               hp'[r] = hp[r] \/ (hp[r].at = "idle" /\ hp'[r] = [at |-> "sent", acct |-> a])
          /\ Waiting(hp', a)
      BY <1>1, ReportedKeeps DEF IInv, ServerDrops
    <2>2. /\ ReportsAgree'
          /\ \A r \in Reports : hp'[r].at = "probe" => hp[r].at = "probe"
          /\ \A b \in Accounts : Looked(hp, b) => Looked(hp', b)
      BY <1>1, <2>1, ReportsMove DEF IInv, ServerDrops
    <2>3. link \notin {"closed", "over"}
      BY <1>1 DEF IInv, WireAgrees, ServerDrops
    <2>4. TypeOK'
      BY <1>1, <2>1, FaultType DEF IInv, TypeOK, ReportType, ServerDrops
    <2>5. TasksAgree' /\ FreshStart' /\ TokensAgree' /\ NoLostWakeup'
      BY <1>1 DEF IInv, TasksAgree, FreshStart, TokensAgree, NoLostWakeup, Authorized, Awaiting,
           ServerDrops
    <2>6. QuietWhenOver'
      BY <1>1, <2>3 DEF QuietWhenOver, ServerDrops
    <2>7. WireAgrees'
      BY <1>1 DEF IInv, WireAgrees, ServerDrops
    <2>8. LostAgrees'
      BY <1>1, <2>2 DEF IInv, LostAgrees, ServerDrops
    <2>9. AuthorizedIsServed'
      BY <1>1, <2>1, <2>2 DEF IInv, TypeOK, AuthorizedIsServed, Looked, Waiting, Authorized, ServerDrops
    <2>10. SpentReported'
      BY <1>1, <2>1 DEF IInv, SpentReported, Waiting, ServerDrops
    <2> QED
      BY <2>4, <2>5, <2>2, <2>6, <2>7, <2>8, <2>9, <2>10 DEF IInv
  <1>2. ASSUME NEW a \in Accounts, TokenAges(a) PROVE IInv'
    <2>1. TypeOK'
      BY <1>2, Numbers DEF IInv, TypeOK, TokenAges, Item, Tasks
    <2>2. ReportsAgree' /\ SpentReported' /\ TasksAgree' /\ QuietWhenOver' /\ WireAgrees' /\ LostAgrees' /\ FreshStart' /\ TokensAgree' /\ NoLostWakeup' /\ AuthorizedIsServed'
      BY <1>2 DEF IInv, ReportsAgree, SpentReported, TasksAgree, QuietWhenOver, WireAgrees, LostAgrees, FreshStart,
           TokensAgree, NoLostWakeup, AuthorizedIsServed, Looked, Authorized, Awaiting, TokenAges
    <2> QED
      BY <2>1, <2>2 DEF IInv
  <1>3. CASE WireFails
    <2>1. /\ hp' \in [Reports -> ReportType]
          /\ \A r \in Reports : hp'[r] = hp[r] \/ (hp[r].at = "sent" /\ hp'[r] = NoReport)
      BY <1>3 DEF IInv, TypeOK, ReportType, NoReport, WireFails
    <2>2. /\ faults' \in 0..MaxFaults /\ lost' \in SUBSET Tasks
          /\ wire' \in BOOLEAN /\ srvApp' \in BOOLEAN /\ live' \in SUBSET Accounts /\ spent' = {}
      BY <1>3, FaultType DEF IInv, TypeOK, WireFails, InFlight
    <2>3. TypeOK'
      BY <1>3, <2>1, <2>2 DEF IInv, TypeOK, ReportType, WireFails
    <2>4. TasksAgree' /\ TokensAgree' /\ NoLostWakeup'
      BY <1>3 DEF IInv, TasksAgree, TokensAgree, NoLostWakeup, Awaiting, WireFails
    <2>5. ReportsAgree' /\ SpentReported'
      <3>1. \A r \in Reports : hp[r].at \in Checking => hp'[r] = hp[r]
        BY <2>1 DEF Checking
      <3>2. \A r \in Reports : hp'[r].at \in Checking => hp'[r] = hp[r]
        BY <2>1 DEF Checking, NoReport
      <3>3. \A a \in verifying : \E r \in Reports : hp'[r].at \in Checking /\ hp'[r].acct = a
        <4> TAKE a \in verifying
        <4>1. PICK r \in Reports : hp[r].at \in Checking /\ hp[r].acct = a
          BY DEF IInv, ReportsAgree
        <4> QED
          BY <3>1, <4>1
      <3>4. \A r \in Reports : hp'[r].at # "idle" <=> hp'[r].acct \in Accounts
        BY <2>1, NameAssumption DEF IInv, ReportsAgree, NoReport
      <3>5. verifying' = verifying
        BY <1>3 DEF WireFails
      <3> QED
        BY <2>2, <3>2, <3>3, <3>4, <3>5 DEF IInv, ReportsAgree, SpentReported
    <2>6. QuietWhenOver'
      BY <1>3, <2>1 DEF IInv, QuietWhenOver, NoReport, WireFails
    <2>7. WireAgrees'
      BY <1>3 DEF IInv, TypeOK, WireAgrees, WireFails, Fault, InFlight, Tasks, NoItem
    <2>8. LostAgrees'
      BY <1>3, <2>1 DEF IInv, LostAgrees, InFlight, Tasks, NoReport, WireFails
    <2>9. FreshStart'
      BY <1>3 DEF IInv, TypeOK, FreshStart, Authorized, WireFails, Fault, InFlight, Tasks, NoItem,
           WireAgrees
    <2>10. AuthorizedIsServed'
      BY <1>3 DEF IInv, TypeOK, AuthorizedIsServed, Looked, Authorized, WireFails, Fault, InFlight, Tasks,
           NoItem
    <2> QED
      BY <2>3, <2>4, <2>5, <2>6, <2>7, <2>8, <2>9, <2>10 DEF IInv
  <1>4. ASSUME NEW a \in Accounts, BackoffElapses(a) PROVE IInv'
    <2>1. TypeOK'
      BY <1>4, Numbers DEF IInv, TypeOK, BackoffElapses, Item, Tasks
    <2>2. ReportsAgree' /\ SpentReported' /\ TasksAgree' /\ WireAgrees' /\ LostAgrees' /\ TokensAgree'
      BY <1>4 DEF IInv, ReportsAgree, SpentReported, TasksAgree, WireAgrees, LostAgrees, TokensAgree,
           BackoffElapses
    <2>3. QuietWhenOver'
      BY <1>4 DEF IInv, TypeOK, QuietWhenOver, BackoffElapses
    <2>4. FreshStart'
      BY <1>4 DEF IInv, TypeOK, FreshStart, Authorized, BackoffElapses
    <2>5. NoLostWakeup'
      BY <1>4 DEF IInv, TypeOK, NoLostWakeup, Awaiting, BackoffElapses
    <2>6. AuthorizedIsServed'
      BY <1>4 DEF IInv, TypeOK, AuthorizedIsServed, Looked, Authorized, BackoffElapses
    <2> QED
      BY <2>1, <2>2, <2>3, <2>4, <2>5, <2>6 DEF IInv
  <1>5. CASE AppBackoffElapses
    <2>1. TypeOK'
      BY <1>5, Numbers DEF IInv, TypeOK, AppBackoffElapses, Item, Tasks
    <2>2. ReportsAgree' /\ SpentReported' /\ TasksAgree' /\ WireAgrees' /\ LostAgrees' /\ TokensAgree' /\ AuthorizedIsServed'
      BY <1>5 DEF IInv, ReportsAgree, SpentReported, TasksAgree, WireAgrees, LostAgrees, TokensAgree,
           AuthorizedIsServed, Looked, Authorized, AppBackoffElapses
    <2>3. QuietWhenOver'
      BY <1>5 DEF IInv, TypeOK, QuietWhenOver, AppBackoffElapses
    <2>4. FreshStart'
      BY <1>5 DEF IInv, TypeOK, FreshStart, Authorized, AppBackoffElapses
    <2>5. NoLostWakeup'
      BY <1>5 DEF IInv, TypeOK, NoLostWakeup, Awaiting, AppBackoffElapses
    <2> QED
      BY <2>1, <2>2, <2>3, <2>4, <2>5 DEF IInv
  <1> QED
    BY <1>1, <1>2, <1>3, <1>4, <1>5

\* The application's calls.
LEMMA UserStep ==
    ASSUME IInv,
           \/ \E a \in Accounts : AuthenticateTrader(a)
           \/ TraderAnswered
           \/ \E a \in Accounts : RemoveAccount(a)
    PROVE  IInv'
  <1> USE DEF serverVars, storeVars, loopVars, restoreVars, reportVars, refreshVars
  <1>1. ASSUME NEW a \in Accounts, AuthenticateTrader(a) PROVE IInv'
    <2>1. TypeOK'
      BY <1>1, Numbers DEF IInv, TypeOK, AuthenticateTrader, NoItem, Held, Sends, Item, Tasks
    <2>2. ReportsAgree' /\ SpentReported' /\ TasksAgree' /\ WireAgrees' /\ TokensAgree' /\ NoLostWakeup' /\ AuthorizedIsServed'
      BY <1>1 DEF IInv, ReportsAgree, SpentReported, TasksAgree, WireAgrees, TokensAgree, NoLostWakeup,
           AuthorizedIsServed, Awaiting, Authorized, AuthenticateTrader
    <2>3. QuietWhenOver'
      BY <1>1 DEF IInv, TypeOK, QuietWhenOver, AuthenticateTrader, NoItem, Held, Sends
    <2>4. LostAgrees'
      BY <1>1 DEF IInv, TypeOK, LostAgrees, AuthenticateTrader, NoItem, Held, Sends
    <2>5. FreshStart'
      BY <1>1 DEF IInv, TypeOK, FreshStart, Authorized, AuthenticateTrader, NoItem, Held, Sends
    <2> QED
      BY <2>1, <2>2, <2>3, <2>4, <2>5 DEF IInv
  <1>2. CASE TraderAnswered
    <2>1. /\ Established("user", up) /\ up \in Item
      BY <1>2 DEF IInv, TypeOK, TasksAgree, Established, NoItem, TraderAnswered
    <2>2. /\ live' \in SUBSET Accounts /\ unsure' \in SUBSET Accounts /\ faults' \in 0..MaxFaults
          /\ session' \in [Accounts -> {"absent", "none", "auth", "due", "backoff"}]
          /\ cred' \in [Accounts -> Tokens]
          /\ live \subseteq live'
          /\ ~srvApp => live' = live
          /\ \A a \in Accounts : cred'[a] # cred[a] => cred'[a] = tok[a]
          /\ \A a \in Accounts : session'[a] # session[a] =>
               \/ session'[a] = "auth" /\ a \in live' /\ srvApp
               \/ Awaiting(a) /\ session'[a] = "backoff"
          /\ \A a \in Accounts : a \in unsure => a \in unsure' \/ a \in live'
      BY <2>1, EstablishKeeps DEF IInv
    <2>3. TypeOK'
      BY <1>2, <2>2 DEF IInv, TypeOK, TraderAnswered
    <2>4. ReportsAgree' /\ SpentReported' /\ TasksAgree'
      BY <1>2 DEF IInv, ReportsAgree, SpentReported, TasksAgree, TraderAnswered
    <2>5. QuietWhenOver'
      BY <1>2, <2>2 DEF IInv, TypeOK, QuietWhenOver, TasksAgree, TraderAnswered
    <2>6. WireAgrees'
      BY <1>2, <2>2 DEF IInv, WireAgrees, TraderAnswered
    <2>7. LostAgrees'
      BY <1>2, TaskAssumption DEF IInv, LostAgrees, TraderAnswered
    <2>8. FreshStart'
      BY <1>2, <2>2 DEF IInv, TypeOK, FreshStart, Authorized, Awaiting, TraderAnswered
    <2>9. TokensAgree'
      BY <1>2, <2>2, BoundAssumption DEF IInv, TypeOK, TokensAgree, Tokens, TraderAnswered
    <2>10. NoLostWakeup'
      BY <1>2, <2>2 DEF IInv, TypeOK, NoLostWakeup, Awaiting, TraderAnswered
    <2>11. AuthorizedIsServed'
      BY <1>2, <2>2 DEF IInv, TypeOK, AuthorizedIsServed, Looked, Authorized, TraderAnswered
    <2> QED
      BY <2>3, <2>4, <2>5, <2>6, <2>7, <2>8, <2>9, <2>10, <2>11 DEF IInv
  <1>3. ASSUME NEW a \in Accounts, RemoveAccount(a) PROVE IInv'
    <2>1. TypeOK'
      BY <1>3, Numbers DEF IInv, TypeOK, RemoveAccount, Held, Item, Tasks
    <2>2. ReportsAgree' /\ SpentReported' /\ TasksAgree' /\ WireAgrees' /\ LostAgrees'
      BY <1>3 DEF IInv, ReportsAgree, SpentReported, TasksAgree, WireAgrees, LostAgrees, RemoveAccount
    <2>3. QuietWhenOver'
      BY <1>3 DEF IInv, TypeOK, QuietWhenOver, RemoveAccount, Held
    <2>4. FreshStart'
      BY <1>3 DEF IInv, TypeOK, FreshStart, Authorized, RemoveAccount, Held
    <2>5. TokensAgree'
      BY <1>3, BoundAssumption DEF IInv, TypeOK, TokensAgree, Tokens, RemoveAccount
    <2>6. NoLostWakeup'
      BY <1>3 DEF IInv, TypeOK, NoLostWakeup, Awaiting, RemoveAccount, Held
    <2>7. AuthorizedIsServed'
      BY <1>3 DEF IInv, TypeOK, AuthorizedIsServed, Looked, Authorized, RemoveAccount, Held
    <2> QED
      BY <2>1, <2>2, <2>3, <2>4, <2>5, <2>6, <2>7 DEF IInv
  <1> QED
    BY <1>1, <1>2, <1>3

\* What the connection layer reports about the link, and the process's own end.
LEMMA LinkStep ==
    ASSUME IInv,
           \/ LinkLost
           \/ LinkRestoring
           \/ LinkRestored
           \/ Open
           \/ Ends
           \/ Closes
    PROVE  IInv'
  <1> USE DEF serverVars, storeVars, loopVars, restoreVars, reportVars, refreshVars
  <1>1. CASE LinkLost
    <2>1. TypeOK'
      BY <1>1, Numbers DEF IInv, TypeOK, LinkLost, Link!Lost, Link!LostAgain, OnConnectionLost,
           InvalidateAll, Held, Item, Tasks
    <2>2. ReportsAgree' /\ SpentReported' /\ TokensAgree'
      BY <1>1 DEF IInv, ReportsAgree, SpentReported, TokensAgree, LinkLost
    <2>3. TasksAgree'
      BY <1>1 DEF IInv, TypeOK, TasksAgree, LinkLost, Link!Lost, Link!LostAgain, OnConnectionLost,
           InvalidateAll, Held
    <2>4. QuietWhenOver'
      BY <1>1 DEF IInv, TypeOK, QuietWhenOver, LinkLost, Link!Lost, Link!LostAgain,
           OnConnectionLost, InvalidateAll, Held
    <2>5. WireAgrees'
      BY <1>1 DEF IInv, TypeOK, WireAgrees, LinkLost, Link!Lost, Link!LostAgain, OnConnectionLost,
           InvalidateAll, Held
    <2>6. LostAgrees'
      BY <1>1 DEF IInv, TypeOK, LostAgrees, LinkLost, Link!Lost, Link!LostAgain, OnConnectionLost,
           InvalidateAll, Held
    <2>7. FreshStart'
      BY <1>1 DEF IInv, TypeOK, FreshStart, Authorized, LinkLost, Link!Lost, Link!LostAgain,
           OnConnectionLost, InvalidateAll, Held, WireAgrees, LostAgrees
    <2>8. NoLostWakeup'
      BY <1>1 DEF IInv, TypeOK, NoLostWakeup, Awaiting, LinkLost, Link!Lost, Link!LostAgain,
           OnConnectionLost, InvalidateAll, Held
    <2>9. AuthorizedIsServed'
      BY <1>1 DEF IInv, TypeOK, AuthorizedIsServed, Looked, Authorized, LinkLost, Link!Lost, Link!LostAgain,
           OnConnectionLost, InvalidateAll, Held
    <2> QED
      BY <2>1, <2>2, <2>3, <2>4, <2>5, <2>6, <2>7, <2>8, <2>9 DEF IInv
  <1>2. CASE LinkRestoring
    <2>1. TypeOK'
      BY <1>2, Numbers DEF IInv, TypeOK, LinkRestoring, Link!BeginRestore, Item, Tasks
    <2>2. ReportsAgree' /\ SpentReported' /\ TokensAgree' /\ NoLostWakeup'
      BY <1>2 DEF IInv, ReportsAgree, SpentReported, TokensAgree, NoLostWakeup, Awaiting, LinkRestoring
    <2>3. TasksAgree'
      BY <1>2 DEF IInv, TypeOK, TasksAgree, LinkRestoring, Link!BeginRestore
    <2>4. QuietWhenOver'
      BY <1>2 DEF IInv, TypeOK, QuietWhenOver, LinkRestoring, Link!BeginRestore
    <2>5. WireAgrees'
      BY <1>2 DEF IInv, TypeOK, WireAgrees, LinkRestoring, Link!BeginRestore
    <2>6. LostAgrees'
      BY <1>2 DEF IInv, TypeOK, LostAgrees, LinkRestoring, Link!BeginRestore
    <2>7. FreshStart'
      BY <1>2 DEF IInv, TypeOK, FreshStart, Authorized, LinkRestoring, Link!BeginRestore, WireAgrees
    <2>8. AuthorizedIsServed'
      BY <1>2 DEF IInv, TypeOK, AuthorizedIsServed, Looked, Authorized, LinkRestoring, Link!BeginRestore,
           FreshStart
    <2> QED
      BY <2>1, <2>2, <2>3, <2>4, <2>5, <2>6, <2>7, <2>8 DEF IInv
  <1>3. CASE LinkRestored
    <2>1. TypeOK'
      BY <1>3, Numbers DEF IInv, TypeOK, LinkRestored, Link!Restored, Item, Tasks
    <2>2. ReportsAgree' /\ SpentReported' /\ TokensAgree' /\ NoLostWakeup' /\ AuthorizedIsServed'
      BY <1>3 DEF IInv, ReportsAgree, SpentReported, TokensAgree, NoLostWakeup, AuthorizedIsServed, Awaiting,
           Authorized, LinkRestored
    <2>3. TasksAgree'
      BY <1>3 DEF IInv, TypeOK, TasksAgree, LinkRestored, Link!Restored
    <2>4. QuietWhenOver'
      BY <1>3 DEF IInv, TypeOK, QuietWhenOver, LinkRestored, Link!Restored
    <2>5. WireAgrees'
      BY <1>3 DEF IInv, TypeOK, WireAgrees, LinkRestored, Link!Restored
    <2>6. LostAgrees'
      BY <1>3 DEF IInv, TypeOK, LostAgrees, LinkRestored, Link!Restored
    <2>7. FreshStart'
      BY <1>3 DEF IInv, TypeOK, FreshStart, Authorized, LinkRestored, Link!Restored
    <2> QED
      BY <2>1, <2>2, <2>3, <2>4, <2>5, <2>6, <2>7 DEF IInv
  <1>4. CASE Open
    <2>1. TypeOK'
      BY <1>4, Numbers DEF IInv, TypeOK, Open, Link!Open, Item, Tasks
    <2>2. ReportsAgree' /\ SpentReported' /\ TokensAgree'
      BY <1>4 DEF IInv, ReportsAgree, SpentReported, TokensAgree, Open
    <2>3. TasksAgree'
      BY <1>4 DEF IInv, TypeOK, TasksAgree, Open, Link!Open
    <2>4. QuietWhenOver'
      BY <1>4 DEF IInv, TypeOK, QuietWhenOver, Open, Link!Open
    <2>5. WireAgrees'
      BY <1>4 DEF IInv, TypeOK, WireAgrees, Open, Link!Open
    <2>6. LostAgrees'
      BY <1>4 DEF IInv, TypeOK, LostAgrees, Open, Link!Open
    <2>7. FreshStart'
      BY <1>4 DEF IInv, FreshStart, TasksAgree, Open, Link!Open
    <2>8. NoLostWakeup'
      BY <1>4 DEF IInv, TypeOK, NoLostWakeup, Awaiting, Open, Link!Open
    <2>9. AuthorizedIsServed'
      BY <1>4 DEF IInv, TypeOK, AuthorizedIsServed, Looked, Authorized, Open, Link!Open, QuietWhenOver
    <2> QED
      BY <2>1, <2>2, <2>3, <2>4, <2>5, <2>6, <2>7, <2>8, <2>9 DEF IInv
  <1>5. CASE Ends
    <2>1. TypeOK'
      <3>1. /\ session' \in [Accounts -> {"absent", "none", "auth", "due", "backoff"}]
            /\ cred' \in [Accounts -> Tokens] /\ signal' \in BOOLEAN
        <4>1. CASE InvalidateAll /\ UNCHANGED <<cred, signal>>
          BY <4>1 DEF IInv, TypeOK, InvalidateAll
        <4>2. CASE /\ session' = [a \in Accounts |-> "absent"] /\ cred' = [a \in Accounts |-> 0]
                   /\ signal' = FALSE
          BY <4>2, Numbers
        <4> QED
          BY <1>5, <4>1, <4>2 DEF Ends
      <3> QED
        BY <1>5, <3>1, Numbers DEF IInv, TypeOK, Ends, Link!GiveUp, NoItem
    <2>2. ReportsAgree' /\ SpentReported'
      BY <1>5, NameAssumption DEF ReportsAgree, SpentReported, Checking, Ends
    <2>3. TasksAgree'
      BY <1>5 DEF IInv, TypeOK, TasksAgree, Ends, Link!GiveUp, InvalidateAll, Held, NoItem
    <2>4. QuietWhenOver'
      BY <1>5 DEF IInv, TypeOK, QuietWhenOver, Ends, Link!GiveUp, InvalidateAll, Held, NoItem
    <2>5. WireAgrees'
      BY <1>5 DEF IInv, TypeOK, WireAgrees, Ends, Link!GiveUp, InvalidateAll, Held, NoItem
    <2>6. LostAgrees'
      BY <1>5 DEF IInv, TypeOK, LostAgrees, Ends, Link!GiveUp, InvalidateAll, Held, NoItem
    <2>7. FreshStart'
      BY <1>5 DEF IInv, TypeOK, FreshStart, Authorized, Ends, Link!GiveUp, InvalidateAll, Held, NoItem
    <2>8. TokensAgree'
      BY <1>5, BoundAssumption DEF IInv, TypeOK, TokensAgree, Tokens, Ends
    <2>9. NoLostWakeup'
      BY <1>5 DEF IInv, TypeOK, NoLostWakeup, Awaiting, Ends, Link!GiveUp, InvalidateAll, Held, NoItem
    <2>10. AuthorizedIsServed'
      BY <1>5 DEF IInv, TypeOK, AuthorizedIsServed, Looked, Authorized, Ends, Link!GiveUp, InvalidateAll, Held, NoItem
    <2> QED
      BY <2>1, <2>2, <2>3, <2>4, <2>5, <2>6, <2>7, <2>8, <2>9, <2>10 DEF IInv
  <1>6. CASE Closes
    <2>1. TypeOK'
      BY <1>6, Numbers DEF IInv, TypeOK, Closes, Link!Close, Item, Tasks
    <2>2. ReportsAgree' /\ SpentReported' /\ LostAgrees' /\ TokensAgree' /\ NoLostWakeup' /\ AuthorizedIsServed'
      BY <1>6 DEF IInv, ReportsAgree, SpentReported, LostAgrees, TokensAgree, NoLostWakeup, AuthorizedIsServed,
           Awaiting, Authorized, Closes
    <2>3. TasksAgree'
      BY <1>6 DEF IInv, TypeOK, TasksAgree, Closes, Link!Close
    <2>4. QuietWhenOver'
      BY <1>6 DEF IInv, TypeOK, QuietWhenOver, Closes, Link!Close
    <2>5. WireAgrees'
      BY <1>6 DEF IInv, TypeOK, WireAgrees, Closes, Link!Close
    <2>6. FreshStart'
      BY <1>6 DEF IInv, TypeOK, FreshStart, Authorized, Closes, Link!Close
    <2> QED
      BY <2>1, <2>2, <2>3, <2>4, <2>5, <2>6 DEF IInv
  <1> QED
    BY <1>1, <1>2, <1>3, <1>4, <1>5, <1>6

\* SessionRecovery.on_connection_restored.
LEMMA RestoreStep ==
    ASSUME IInv,
           \/ RestoreAppFails
           \/ RestoreAppOk
           \/ \E e \in Item : RestoreAccount(e)
           \/ \E t \in {"restore", "loop"} : AppAuthUnheard(t)
    PROVE  IInv'
  <1> USE DEF serverVars, storeVars, loopVars, restoreVars, reportVars, refreshVars
  <1>1. CASE RestoreAppFails
    <2>1. /\ srvApp' \in BOOLEAN /\ faults' \in 0..MaxFaults
          /\ (srvApp' => wire) /\ (srvApp => srvApp')
          /\ "restore" \in lost => srvApp' = srvApp
      BY <1>1, AppAuthKeeps DEF IInv, LostAgrees, WireAgrees, RestoreAppFails
    <2>2. /\ session' \in [Accounts -> {"absent", "none", "auth", "due", "backoff"}]
          /\ \A a \in Accounts : session'[a] = session[a] \/ session'[a] = "due"
      BY <1>1 DEF IInv, TypeOK, ArmAppAuthRecovery, Flag, RestoreAppFails
    <2>3. TypeOK'
      BY <1>1, <2>1, <2>2 DEF IInv, TypeOK, ArmAppAuthRecovery, RestoreAppFails
    <2>4. ReportsAgree' /\ SpentReported' /\ TokensAgree'
      BY <1>1 DEF IInv, ReportsAgree, SpentReported, TokensAgree, RestoreAppFails
    <2>5. TasksAgree'
      BY <1>1 DEF IInv, TypeOK, TasksAgree, RestoreAppFails, AppAuthFails, ArmAppAuthRecovery,
           Fault, Flag, Held, Awaiting
    <2>6. QuietWhenOver'
      BY <1>1 DEF IInv, QuietWhenOver, TasksAgree, RestoreAppFails
    <2>7. WireAgrees'
      BY <1>1, <2>1 DEF IInv, WireAgrees, RestoreAppFails
    <2>8. LostAgrees'
      BY <1>1, TaskAssumption DEF IInv, LostAgrees, RestoreAppFails
    <2>9. FreshStart'
      BY <1>1 DEF IInv, FreshStart, TasksAgree, RestoreAppFails
    <2>10. NoLostWakeup'
      BY <1>1 DEF NoLostWakeup, ArmAppAuthRecovery, RestoreAppFails
    <2>11. AuthorizedIsServed'
      BY <1>1, <2>2 DEF IInv, AuthorizedIsServed, Looked, Authorized, RestoreAppFails
    <2> QED
      BY <2>3, <2>4, <2>5, <2>6, <2>7, <2>8, <2>9, <2>10, <2>11 DEF IInv
  <1>2. CASE RestoreAppOk
    <2>1. /\ lost' \in SUBSET Tasks
          /\ ~wire /\ Items # {} => "restore" \in lost'
          /\ \A s \in Tasks : s # "restore" => (s \in lost <=> s \in lost')
      BY <1>2, SendsKeeps DEF IInv, Tasks, RestoreAppOk
    <2>2. TypeOK'
      BY <1>2, <2>1, ItemsType DEF IInv, TypeOK, AppAuthOk, RestoreAppOk
    <2>3. ReportsAgree' /\ SpentReported' /\ QuietWhenOver' /\ TokensAgree' /\ NoLostWakeup' /\ AuthorizedIsServed'
      BY <1>2 DEF IInv, ReportsAgree, SpentReported, QuietWhenOver, TokensAgree, NoLostWakeup, AuthorizedIsServed,
           Awaiting, Authorized, RestoreAppOk
    <2>4. TasksAgree'
      BY <1>2 DEF IInv, TypeOK, TasksAgree, RestoreAppOk, AppAuthOk, Items, SendsIf, Held, Sends
    <2>5. WireAgrees'
      BY <1>2 DEF IInv, WireAgrees, LostAgrees, AppAuthOk, RestoreAppOk
    <2>6. LostAgrees'
      BY <1>2, <2>1, TaskAssumption DEF IInv, LostAgrees, Tasks, RestoreAppOk
    <2>7. FreshStart'
      BY <1>2 DEF IInv, FreshStart, TasksAgree, RestoreAppOk
    <2> QED
      BY <2>2, <2>3, <2>4, <2>5, <2>6, <2>7 DEF IInv
  <1>3. ASSUME NEW e \in Item, RestoreAccount(e) PROVE IInv'
    <2>1. /\ Established("restore", e) /\ e \in Item
      BY <1>3 DEF IInv, TypeOK, TasksAgree, Established, RestoreAccount
    <2>2. /\ live' \in SUBSET Accounts /\ unsure' \in SUBSET Accounts /\ faults' \in 0..MaxFaults
          /\ session' \in [Accounts -> {"absent", "none", "auth", "due", "backoff"}]
          /\ cred' \in [Accounts -> Tokens]
          /\ live \subseteq live'
          /\ ~srvApp => live' = live
          /\ \A a \in Accounts : cred'[a] # cred[a] => cred'[a] = tok[a]
          /\ \A a \in Accounts : session'[a] # session[a] =>
               \/ session'[a] = "auth" /\ a \in live' /\ srvApp
               \/ Awaiting(a) /\ session'[a] = "backoff"
          /\ \A a \in Accounts : a \in unsure => a \in unsure' \/ a \in live'
      BY <2>1, EstablishKeeps DEF IInv
    <2>3. /\ lost' \in SUBSET Tasks
          /\ ~wire /\ todo' # {} => "restore" \in lost'
          /\ \A s \in Tasks : s # "restore" => (s \in lost <=> s \in lost')
      BY <1>3, SendsKeeps DEF IInv, Tasks, RestoreAccount
    <2>4. TypeOK'
      BY <1>3, <2>2, <2>3 DEF IInv, TypeOK, RestoreAccount
    <2>5. ReportsAgree' /\ SpentReported'
      BY <1>3 DEF IInv, ReportsAgree, SpentReported, RestoreAccount
    <2>6. TasksAgree'
      BY <1>3 DEF IInv, TypeOK, TasksAgree, RestoreAccount, EstablishOk, EstablishAlready,
           EstablishFails, SendsIf, Accepts, Authorize, Usable, Fault, Sends
    <2>7. QuietWhenOver'
      BY <1>3, <2>2 DEF IInv, TypeOK, QuietWhenOver, TasksAgree, RestoreAccount
    <2>8. WireAgrees'
      BY <1>3, <2>2 DEF IInv, WireAgrees, RestoreAccount
    <2>9. LostAgrees'
      BY <1>3, <2>3, TaskAssumption DEF IInv, LostAgrees, Tasks, RestoreAccount
    <2>10. FreshStart'
      BY <1>3 DEF IInv, FreshStart, TasksAgree, RestoreAccount
    <2>11. TokensAgree'
      BY <1>3, <2>2, BoundAssumption DEF IInv, TypeOK, TokensAgree, Tokens, RestoreAccount
    <2>12. NoLostWakeup'
      BY <1>3, <2>2 DEF IInv, TypeOK, NoLostWakeup, Awaiting, RestoreAccount
    <2>13. AuthorizedIsServed'
      BY <1>3, <2>2 DEF IInv, TypeOK, AuthorizedIsServed, Looked, Authorized, RestoreAccount
    <2> QED
      BY <2>4, <2>5, <2>6, <2>7, <2>8, <2>9, <2>10, <2>11, <2>12, <2>13 DEF IInv
  <1>4. ASSUME NEW t \in {"restore", "loop"}, AppAuthUnheard(t) PROVE IInv'
    <2>1. /\ wire /\ t \in Tasks /\ srvApp' = TRUE /\ lost' = lost \cup {t} /\ faults' \in 0..MaxFaults
          /\ (t = "restore" /\ sp = "app") \/ (t = "loop" /\ lp = "app" /\ "loop" \notin lost)
      BY <1>4, FaultType DEF IInv, TypeOK, LostAgrees, Tasks, AppAuthUnheard
    <2>2. TypeOK'
      BY <1>4, <2>1 DEF IInv, TypeOK, AppAuthUnheard
    <2>3. ReportsAgree' /\ SpentReported' /\ TasksAgree' /\ TokensAgree' /\ NoLostWakeup' /\ AuthorizedIsServed'
      BY <1>4 DEF IInv, ReportsAgree, SpentReported, TasksAgree, TokensAgree, NoLostWakeup,
           AuthorizedIsServed, Awaiting, Authorized, AppAuthUnheard
    <2>4. QuietWhenOver'
      BY <1>4 DEF IInv, QuietWhenOver, AppAuthUnheard
    <2>5. WireAgrees' /\ LostAgrees'
      BY <1>4, <2>1 DEF IInv, WireAgrees, LostAgrees, AppAuthUnheard
    <2>6. FreshStart'
      BY <1>4, <2>1 DEF IInv, FreshStart, TasksAgree, Authorized, AppAuthUnheard
    <2> QED
      BY <2>2, <2>3, <2>4, <2>5, <2>6 DEF IInv
  <1> QED
    BY <1>1, <1>2, <1>3, <1>4

\* SessionRecovery.handle_account_disconnect.
LEMMA ReportStep ==
    ASSUME IInv,
           \/ \E r \in Reports : ReportHandled(r)
           \/ \E r \in Reports : ProbeAnswered(r)
           \/ \E r \in Reports : DropPublished(r)
    PROVE  IInv'
  <1> USE DEF serverVars, storeVars, loopVars, restoreVars, reportVars, refreshVars
  <1>1. ASSUME NEW r \in Reports, ReportHandled(r) PROVE IInv'
    <2>1. /\ hp' \in [Reports -> ReportType]
          /\ \A q \in Reports : q # r => hp'[q] = hp[q]
          /\ \/ hp'[r] = [hp[r] EXCEPT !.at = "settling"] /\ UNCHANGED <<verifying, unsure, lost>>
             \/ hp'[r] = NoReport /\ ~Authorized(hp[r].acct) /\ UNCHANGED <<verifying, unsure, lost>>
             \/ /\ hp'[r] = NoReport /\ hp[r].acct \in verifying /\ UNCHANGED <<verifying, lost>>
                /\ unsure' = IF Publishing(hp[r].acct) THEN unsure \cup {hp[r].acct} ELSE unsure
             \/ /\ hp'[r] = [hp[r] EXCEPT !.at = "probe"] /\ hp[r].acct \notin verifying
                /\ verifying' = verifying \cup {hp[r].acct} /\ UNCHANGED unsure /\ Sends(r)
      BY <1>1, NoReportType DEF IInv, TypeOK, ReportType, NoReport, ReportEnds, ReportHandled
    <2>2. hp[r].acct \in Accounts
      BY <1>1 DEF IInv, ReportsAgree, ReportHandled
    <2>3. TypeOK'
      BY <1>1, <2>1, <2>2 DEF IInv, TypeOK, ReportType, Sends, Tasks, ReportHandled
    <2>4. TasksAgree' /\ WireAgrees' /\ TokensAgree' /\ NoLostWakeup'
      BY <1>1 DEF IInv, TasksAgree, WireAgrees, TokensAgree, NoLostWakeup, Awaiting, ReportHandled
    <2>5. ReportsAgree'
      <3>1. hp[r].at \in {"sent", "settled"} /\ hp[r].acct # "none"
        BY <1>1, <2>2, NameAssumption DEF ReportHandled
      <3>2. \A q \in Reports : hp'[q].at # "idle" <=> hp'[q].acct \in Accounts
        BY <2>1, <2>2, <3>1, NameAssumption DEF IInv, TypeOK, ReportsAgree, NoReport
      <3>3. \A q \in Reports : hp'[q].at \in Checking => hp'[q].acct \in verifying'
        BY <2>1, <2>2, <3>1 DEF IInv, TypeOK, ReportsAgree, NoReport, Checking
      <3>4. \A b \in verifying : \E q \in Reports : hp'[q].at \in Checking /\ hp'[q].acct = b
        <4> TAKE b \in verifying
        <4>1. PICK q \in Reports : hp[q].at \in Checking /\ hp[q].acct = b
          BY DEF IInv, ReportsAgree
        <4> QED
          BY <2>1, <3>1, <4>1 DEF Checking
      <3>5. \A b \in verifying' \ verifying : hp'[r].at \in Checking /\ hp'[r].acct = b
        BY <2>1, <2>2 DEF IInv, TypeOK, Checking
      <3>6. \A p, q \in Reports :
              hp'[p].at \in Checking /\ hp'[q].at \in Checking /\ hp'[p].acct = hp'[q].acct => p = q
        BY <2>1, <2>2, <3>1 DEF IInv, TypeOK, ReportsAgree, NoReport, Checking
      <3> QED
        BY <3>2, <3>3, <3>4, <3>5, <3>6 DEF ReportsAgree
    <2>6. QuietWhenOver'
      BY <1>1 DEF IInv, QuietWhenOver, ReportHandled
    <2>7. LostAgrees'
      BY <1>1, <2>1, TaskAssumption DEF IInv, TypeOK, LostAgrees, Sends, NoReport, ReportHandled
    <2>8. FreshStart'
      BY <1>1, <2>1, TaskAssumption DEF IInv, FreshStart, Authorized, Sends, ReportHandled
    <2>9. AuthorizedIsServed'
      <3>1. hp[r].at \in {"sent", "settled"} /\ UNCHANGED <<wire, session, live>> /\ unsure \subseteq unsure'
        BY <1>1, <2>1 DEF ReportHandled
      <3> SUFFICES ASSUME NEW a \in Accounts, Authorized(a),
                          NEW q \in Reports, hp[q].acct = a, hp[q].at # "emit", hp'[q] # hp[q]
                   PROVE  a \in unsure' \/ \E p \in Reports : hp'[p].acct = a /\ hp'[p].at # "emit"
        BY <3>1 DEF IInv, AuthorizedIsServed, Authorized
      <3>2. q = r
        BY <2>1
      <3>3. CASE hp'[r] = [hp[r] EXCEPT !.at = "settling"] \/ hp'[r] = [hp[r] EXCEPT !.at = "probe"]
        BY <3>2, <3>3 DEF IInv, TypeOK
      <3>4. CASE /\ hp'[r] = NoReport /\ hp[r].acct \in verifying
                 /\ unsure' = IF Publishing(hp[r].acct) THEN unsure \cup {hp[r].acct} ELSE unsure
        <4>1. PICK p \in Reports : hp[p].at \in Checking /\ hp[p].acct = hp[r].acct
          BY <3>4 DEF IInv, ReportsAgree
        <4>2. p # r /\ hp'[p] = hp[p]
          BY <2>1, <3>1, <4>1 DEF Checking
        <4>3. CASE hp[p].at = "emit"
          <5>1. hp[p] = [at |-> "emit", acct |-> hp[r].acct]
            BY <4>1, <4>3 DEF IInv, TypeOK
          <5>2. Publishing(hp[r].acct)
            BY <5>1 DEF Publishing
          <5> QED
            BY <3>2, <3>4, <5>2
        <4>4. CASE hp[p].at # "emit"
          BY <3>2, <4>1, <4>2, <4>4
        <4> QED
          BY <4>3, <4>4
      <3> QED
        BY <2>1, <3>2, <3>3, <3>4
    <2>10. SpentReported'
      <3> SUFFICES ASSUME NEW a \in spent PROVE Waiting(hp', a)
        BY <1>1 DEF IInv, SpentReported, ReportHandled
      <3>1. PICK q \in Reports : hp[q].acct = a /\ hp[q].at \in {"sent", "settling"}
        BY DEF IInv, SpentReported, Waiting
      <3>2. CASE q = r
        <4>1. MustSettle(r)
          BY <1>1, <3>1, <3>2 DEF IInv, SpentReported, MustSettle, ReportHandled
        <4>2. hp' = [hp EXCEPT ![r].at = "settling"]
          BY <1>1, <4>1 DEF ReportHandled
        <4> QED
          BY <3>1, <3>2, <4>2 DEF IInv, TypeOK, Waiting
      <3> QED
        BY <2>1, <3>1, <3>2 DEF Waiting
    <2> QED
      BY <2>3, <2>4, <2>5, <2>6, <2>7, <2>8, <2>9, <2>10 DEF IInv
  <1>2. ASSUME NEW r \in Reports, ProbeAnswered(r) PROVE IInv'
    <2>1. /\ hp[r].at = "probe" /\ hp[r].acct \in Accounts
          /\ hp' \in [Reports -> ReportType]
          /\ \A q \in Reports : q # r => hp'[q] = hp[q]
          /\ \/ hp'[r] = NoReport /\ verifying' = verifying \ {hp[r].acct}
             \/ hp'[r] = [at |-> "emit", acct |-> hp[r].acct] /\ verifying' = verifying
      <3>1. hp[r].at = "probe" /\ hp[r].acct \in Accounts /\ hp \in [Reports -> ReportType]
        BY <1>2 DEF IInv, TypeOK, ReportType, ReportsAgree, ProbeAnswered
      <3>2. CASE CheckEnds(r)
        BY <3>1, <3>2, NoReportType DEF NoReport, CheckEnds, ReportEnds
      <3>3. CASE hp' = [hp EXCEPT ![r].at = "emit"] /\ UNCHANGED verifying
        BY <3>1, <3>3 DEF ReportType
      <3> QED
        BY <1>2, <3>1, <3>2, <3>3 DEF ProbeAnswered, ProbeAlive, ProbeInconclusive, ProbeDropped
    <2>2. /\ session' \in [Accounts -> {"absent", "none", "auth", "due", "backoff"}]
          /\ \A a \in Accounts : session'[a] # session[a] =>
               a = hp[r].acct /\ Held(a) /\ session'[a] = "due" /\ signal' = TRUE
          /\ \/ hp[r].acct \in live \/ hp[r].acct \in unsure' \/ hp[r].acct \in spent
             \/ session'[hp[r].acct] # "auth"
          /\ unsure \subseteq unsure' /\ unsure' \in SUBSET Accounts
          /\ signal' \in BOOLEAN /\ (signal => signal') /\ faults' \in 0..MaxFaults
      <3>1. CASE ProbeAlive(r)
        BY <1>2, <2>1, <3>1 DEF IInv, TypeOK, ProbeAlive
      <3>2. CASE ProbeInconclusive(r)
        BY <1>2, <2>1, <3>2, FaultType DEF IInv, TypeOK, ProbeInconclusive
      <3>3. CASE ProbeDropped(r)
        <4>1. faults' \in 0..MaxFaults
          BY <3>3, FaultType DEF IInv, ProbeDropped, Refuses
        <4> QED
          BY <1>2, <2>1, <3>3, <4>1 DEF IInv, TypeOK, ProbeDropped, Flag, Held, Awaiting
      <3> QED
        BY <1>2, <3>1, <3>2, <3>3 DEF ProbeAnswered
    <2>3. TypeOK'
      BY <1>2, <2>1, <2>2 DEF IInv, TypeOK, ReportType, ProbeAnswered
    <2>4. TasksAgree' /\ WireAgrees' /\ TokensAgree'
      BY <1>2 DEF IInv, TasksAgree, WireAgrees, TokensAgree, ProbeAnswered
    <2>5. ReportsAgree'
      BY <2>1, CheckMoves DEF IInv, Checking
    <2>6. QuietWhenOver'
      BY <1>2 DEF IInv, QuietWhenOver, ProbeAnswered
    <2>7. LostAgrees'
      BY <1>2, <2>1, TaskAssumption DEF IInv, LostAgrees, NoReport, ProbeAnswered
    <2>8. FreshStart'
      BY <1>2, <2>2, TaskAssumption DEF IInv, FreshStart, Authorized, ProbeAnswered
    <2>9. NoLostWakeup'
      BY <1>2, <2>2 DEF IInv, TypeOK, NoLostWakeup, Awaiting, ProbeAnswered
    <2>10. \A a \in spent : Waiting(hp', a)
      BY <2>1 DEF IInv, SpentReported, Waiting
    <2>11. SpentReported'
      BY <1>2, <2>10 DEF IInv, SpentReported, ProbeAnswered
    <2>12. AuthorizedIsServed'
      <3> SUFFICES ASSUME NEW a \in Accounts, wire', Authorized(a)', a \notin live', a \notin unsure'
                   PROVE  Looked(hp', a)
        BY DEF AuthorizedIsServed, Looked
      <3>1. wire /\ Authorized(a) /\ a \notin live /\ a \notin unsure
        BY <1>2, <2>2 DEF Authorized, ProbeAnswered
      <3>2. PICK q \in Reports : hp[q].acct = a /\ hp[q].at # "emit"
        BY <3>1 DEF IInv, AuthorizedIsServed
      <3>3. CASE q # r
        BY <2>1, <3>2, <3>3 DEF Looked
      <3>4. CASE q = r
        BY <2>2, <2>10, <3>1, <3>2, <3>4 DEF Authorized, Looked, Waiting
      <3> QED
        BY <3>3, <3>4
    <2> QED
      BY <2>3, <2>4, <2>5, <2>6, <2>7, <2>8, <2>9, <2>11, <2>12 DEF IInv
  <1>3. ASSUME NEW r \in Reports, DropPublished(r) PROVE IInv'
    <2>1. /\ hp[r].at = "emit" /\ hp[r].acct \in Accounts
          /\ hp' \in [Reports -> ReportType]
          /\ \A q \in Reports : q # r => hp'[q] = hp[q]
          /\ hp'[r] = NoReport /\ verifying' = verifying \ {hp[r].acct}
      BY <1>3, NoReportType DEF IInv, TypeOK, ReportsAgree, ReportType, NoReport, ReportEnds, CheckEnds,
           DropPublished
    <2>2. TypeOK'
      BY <1>3, <2>1 DEF IInv, TypeOK, ReportType, DropPublished
    <2>3. TasksAgree' /\ WireAgrees' /\ TokensAgree' /\ NoLostWakeup' /\ FreshStart'
      BY <1>3 DEF IInv, TasksAgree, WireAgrees, TokensAgree, NoLostWakeup, FreshStart, Awaiting,
           Authorized, DropPublished
    <2>4. ReportsAgree'
      BY <2>1, CheckMoves DEF IInv, Checking
    <2>5. QuietWhenOver'
      BY <1>3 DEF IInv, QuietWhenOver, DropPublished
    <2>6. LostAgrees'
      BY <1>3, <2>1 DEF IInv, LostAgrees, NoReport, DropPublished
    <2>7. SpentReported'
      BY <1>3, <2>1 DEF IInv, SpentReported, Waiting, DropPublished
    <2>8. AuthorizedIsServed'
      BY <1>3, <2>1 DEF IInv, AuthorizedIsServed, Authorized, DropPublished
    <2> QED
      BY <2>2, <2>3, <2>4, <2>5, <2>6, <2>7, <2>8 DEF IInv
  <1> QED
    BY <1>1, <1>2, <1>3

\* SessionRecovery._reauth_loop.
LEMMA LoopStep ==
    ASSUME IInv,
           \/ LoopTop
           \/ LoopWakes
           \/ LoopAppAnswered
           \/ \E e \in Item : LoopAccount(e)
    PROVE  IInv'
  <1> USE DEF serverVars, storeVars, loopVars, restoreVars, reportVars, refreshVars
  <1>1. CASE LoopTop
    <2>1. /\ lp' \in {"idle", "timer", "app", "round"} /\ due' \in SUBSET Item /\ lost' \in SUBSET Tasks
          /\ lp' = "idle" => app = "fine" /\ \A a \in Accounts : ~Awaiting(a)
          /\ lp' = "app" => app = "due"
          /\ ~wire /\ lp' \in {"app", "round"} => "loop" \in lost'
          /\ \A s \in Tasks : s # "loop" => (s \in lost <=> s \in lost')
      BY <1>1, LoopServesKeeps DEF IInv, TypeOK, Sends, Tasks, LoopTop
    <2>2. /\ signal' \in BOOLEAN
          /\ UNCHANGED <<link, wire, serverVars, storeVars, app, restoreVars, reportVars, refreshVars, up, faults>>
      BY <1>1 DEF LoopTop
    <2>3. TypeOK'
      BY <2>1, <2>2 DEF IInv, TypeOK
    <2>4. ReportsAgree' /\ SpentReported' /\ TasksAgree' /\ WireAgrees' /\ TokensAgree' /\ AuthorizedIsServed'
      BY <1>1 DEF IInv, ReportsAgree, SpentReported, TasksAgree, WireAgrees, TokensAgree, AuthorizedIsServed,
           Authorized, LoopTop
    <2>5. QuietWhenOver'
      BY <1>1 DEF IInv, QuietWhenOver, LoopTop
    <2>6. LostAgrees'
      BY <1>1, <2>1, TaskAssumption DEF IInv, LostAgrees, Tasks, LoopTop
    <2>7. FreshStart'
      BY <1>1, <2>1 DEF IInv, FreshStart, LoopTop, Authorized, Tasks
    <2>8. NoLostWakeup'
      BY <1>1, <2>1 DEF NoLostWakeup, Awaiting, LoopTop
    <2> QED
      BY <2>3, <2>4, <2>5, <2>6, <2>7, <2>8 DEF IInv
  <1>2. CASE LoopWakes
    <2>1. TypeOK'
      BY <1>2, Numbers DEF IInv, TypeOK, LoopWakes, Item, Tasks
    <2>2. ReportsAgree' /\ SpentReported' /\ TasksAgree' /\ WireAgrees' /\ TokensAgree' /\ AuthorizedIsServed'
      BY <1>2 DEF IInv, ReportsAgree, SpentReported, TasksAgree, WireAgrees, TokensAgree, AuthorizedIsServed,
           Authorized, LoopWakes
    <2>3. QuietWhenOver'
      BY <1>2 DEF IInv, TypeOK, QuietWhenOver, LoopWakes
    <2>4. LostAgrees'
      BY <1>2 DEF IInv, TypeOK, LostAgrees, LoopWakes
    <2>5. FreshStart'
      BY <1>2 DEF IInv, TypeOK, FreshStart, Authorized, LoopWakes
    <2>6. NoLostWakeup'
      BY <1>2 DEF IInv, TypeOK, NoLostWakeup, Awaiting, LoopWakes
    <2> QED
      BY <2>1, <2>2, <2>3, <2>4, <2>5, <2>6 DEF IInv
  <1>3. CASE LoopAppAnswered
    <2>1. /\ lp' \in {"idle", "timer", "top", "round"} /\ due' \in SUBSET Item /\ lost' \in SUBSET Tasks
          /\ app' \in {"fine", "due", "backoff"}
          /\ lp' = "idle" => app' = "fine" /\ \A a \in Accounts : ~Awaiting(a)
          /\ app = "fine" => app' = "fine"
          /\ ~wire /\ lp' = "round" => "loop" \in lost'
          /\ \A s \in Tasks : s # "loop" => (s \in lost <=> s \in lost')
      BY <1>3, LoopServesKeeps DEF IInv, TypeOK, LoopAppAnswered
    <2>2. /\ srvApp' \in BOOLEAN /\ faults' \in 0..MaxFaults
          /\ (srvApp' => wire) /\ (srvApp => srvApp')
          /\ "loop" \in lost => srvApp' = srvApp
      BY <1>3, AppAuthKeeps DEF IInv, LostAgrees, WireAgrees, LoopAppAnswered
    <2>3. TypeOK'
      BY <1>3, <2>1, <2>2 DEF IInv, TypeOK, LoopAppAnswered
    <2>4. ReportsAgree' /\ SpentReported' /\ TasksAgree' /\ TokensAgree' /\ AuthorizedIsServed'
      BY <1>3 DEF IInv, ReportsAgree, SpentReported, TasksAgree, TokensAgree, AuthorizedIsServed, Looked, Authorized,
           LoopAppAnswered
    <2>5. QuietWhenOver'
      BY <1>3 DEF IInv, QuietWhenOver, LoopAppAnswered
    <2>6. WireAgrees'
      BY <1>3, <2>2 DEF IInv, WireAgrees, LoopAppAnswered
    <2>7. LostAgrees'
      BY <1>3, <2>1, TaskAssumption DEF IInv, LostAgrees, Tasks, LoopAppAnswered
    <2>8. FreshStart'
      BY <1>3, <2>1, <2>2 DEF IInv, TypeOK, FreshStart, Authorized, LoopAppAnswered
    <2>9. NoLostWakeup'
      BY <1>3, <2>1 DEF NoLostWakeup, Awaiting, LoopAppAnswered
    <2> QED
      BY <2>3, <2>4, <2>5, <2>6, <2>7, <2>8, <2>9 DEF IInv
  <1>4. ASSUME NEW e \in Item, LoopAccount(e) PROVE IInv'
    <2>1. /\ Established("loop", e) /\ e \in Item
      BY <1>4 DEF IInv, TypeOK, TasksAgree, Established, LoopAccount
    <2>2. /\ live' \in SUBSET Accounts /\ unsure' \in SUBSET Accounts /\ faults' \in 0..MaxFaults
          /\ session' \in [Accounts -> {"absent", "none", "auth", "due", "backoff"}]
          /\ cred' \in [Accounts -> Tokens]
          /\ live \subseteq live'
          /\ ~srvApp => live' = live
          /\ \A a \in Accounts : cred'[a] # cred[a] => cred'[a] = tok[a]
          /\ \A a \in Accounts : session'[a] # session[a] =>
               \/ session'[a] = "auth" /\ a \in live' /\ srvApp
               \/ Awaiting(a) /\ session'[a] = "backoff"
          /\ \A a \in Accounts : a \in unsure => a \in unsure' \/ a \in live'
      BY <2>1, EstablishKeeps DEF IInv
    <2>3. /\ lost' \in SUBSET Tasks
          /\ ~wire /\ due' # {} => "loop" \in lost'
          /\ \A s \in Tasks : s # "loop" => (s \in lost <=> s \in lost')
      BY <1>4, SendsKeeps DEF IInv, Tasks, LoopAccount
    <2>4. TypeOK'
      BY <1>4, <2>2, <2>3 DEF IInv, TypeOK, LoopAccount
    <2>5. ReportsAgree' /\ SpentReported' /\ TasksAgree'
      BY <1>4 DEF IInv, ReportsAgree, SpentReported, TasksAgree, LoopAccount
    <2>6. QuietWhenOver'
      BY <1>4, <2>2 DEF IInv, TypeOK, QuietWhenOver, TasksAgree, LoopAccount
    <2>7. WireAgrees'
      BY <1>4, <2>2 DEF IInv, WireAgrees, LoopAccount
    <2>8. LostAgrees'
      BY <1>4, <2>3, TaskAssumption DEF IInv, LostAgrees, Tasks, LoopAccount
    <2>9. FreshStart'
      BY <1>4, <2>2, <2>3 DEF IInv, TypeOK, FreshStart, Authorized, Awaiting, Tasks, LoopAccount
    <2>10. TokensAgree'
      BY <1>4, <2>2, BoundAssumption DEF IInv, TypeOK, TokensAgree, Tokens, LoopAccount
    <2>11. NoLostWakeup'
      BY <1>4, <2>2 DEF IInv, TypeOK, NoLostWakeup, Awaiting, LoopAccount
    <2>12. AuthorizedIsServed'
      BY <1>4, <2>2 DEF IInv, TypeOK, AuthorizedIsServed, Looked, Authorized, LoopAccount
    <2> QED
      BY <2>4, <2>5, <2>6, <2>7, <2>8, <2>9, <2>10, <2>11, <2>12 DEF IInv
  <1> QED
    BY <1>1, <1>2, <1>3, <1>4

\* TokenRefresher.
LEMMA RefreshStep ==
    ASSUME IInv,
           \/ RefreshWakes
           \/ \E e \in Item : RefreshNext(e)
           \/ RefreshSleeps
           \/ RefreshAnswered
           \/ RefreshUnheard
           \/ RefreshRefused
           \/ RefreshPauses
           \/ RefreshRetries
           \/ RefreshSaved
           \/ RefreshNotSaved
           \/ RefreshEstablished
    PROVE  IInv'
  <1> USE DEF serverVars, storeVars, loopVars, restoreVars, reportVars, refreshVars
  <1>1. CASE RefreshWakes
    <2>1. TypeOK'
      BY <1>1, Numbers DEF IInv, TypeOK, RefreshWakes, Items, Held, Item, Tasks
    <2>2. ReportsAgree' /\ SpentReported' /\ WireAgrees' /\ FreshStart' /\ TokensAgree' /\ NoLostWakeup' /\ AuthorizedIsServed'
      BY <1>1 DEF IInv, ReportsAgree, SpentReported, WireAgrees, FreshStart, TokensAgree, NoLostWakeup,
           AuthorizedIsServed, Looked, Authorized, Awaiting, RefreshWakes
    <2>3. TasksAgree'
      BY <1>1 DEF IInv, TypeOK, TasksAgree, RefreshWakes, Items, Held
    <2>4. QuietWhenOver'
      BY <1>1 DEF IInv, TypeOK, QuietWhenOver, RefreshWakes, Items, Held
    <2>5. LostAgrees'
      BY <1>1 DEF IInv, TypeOK, LostAgrees, RefreshWakes, Items, Held
    <2> QED
      BY <2>1, <2>2, <2>3, <2>4, <2>5 DEF IInv
  <1>2. ASSUME NEW e \in Item, RefreshNext(e) PROVE IInv'
    <2>1. TypeOK'
      BY <1>2, Numbers DEF IInv, TypeOK, RefreshNext, ExpiresSoon, Held, Sends, Item, Tasks
    <2>2. ReportsAgree' /\ SpentReported' /\ WireAgrees' /\ TokensAgree' /\ NoLostWakeup' /\ AuthorizedIsServed'
      BY <1>2 DEF IInv, ReportsAgree, SpentReported, WireAgrees, TokensAgree, NoLostWakeup, AuthorizedIsServed,
           Awaiting, Authorized, RefreshNext
    <2>3. TasksAgree'
      BY <1>2 DEF IInv, TypeOK, TasksAgree, Item, RefreshNext
    <2>4. QuietWhenOver'
      BY <1>2 DEF IInv, TypeOK, QuietWhenOver, RefreshNext, ExpiresSoon, Held, Sends
    <2>5. LostAgrees'
      BY <1>2 DEF IInv, TypeOK, LostAgrees, RefreshNext, ExpiresSoon, Held, Sends
    <2>6. FreshStart'
      BY <1>2 DEF IInv, TypeOK, FreshStart, Authorized, RefreshNext, ExpiresSoon, Held, Sends
    <2> QED
      BY <2>1, <2>2, <2>3, <2>4, <2>5, <2>6 DEF IInv
  <1>3. CASE RefreshSleeps
    <2>1. TypeOK'
      BY <1>3, Numbers DEF IInv, TypeOK, RefreshSleeps, Item, Tasks
    <2>2. ReportsAgree' /\ SpentReported' /\ WireAgrees' /\ FreshStart' /\ TokensAgree' /\ NoLostWakeup' /\ AuthorizedIsServed'
      BY <1>3 DEF IInv, ReportsAgree, SpentReported, WireAgrees, FreshStart, TokensAgree, NoLostWakeup,
           AuthorizedIsServed, Looked, Authorized, Awaiting, RefreshSleeps
    <2>3. TasksAgree'
      BY <1>3 DEF IInv, TypeOK, TasksAgree, RefreshSleeps
    <2>4. QuietWhenOver'
      BY <1>3 DEF IInv, TypeOK, QuietWhenOver, RefreshSleeps
    <2>5. LostAgrees'
      BY <1>3 DEF IInv, TypeOK, LostAgrees, RefreshSleeps
    <2> QED
      BY <2>1, <2>2, <2>3, <2>4, <2>5 DEF IInv
  <1>4. CASE RefreshAnswered
    <2>1. /\ rp.item.acct \in Accounts
          /\ tok' \in [Accounts -> Tokens] /\ age' \in [Accounts -> {"fresh", "soon", "expired"}]
          /\ live' = live \ {rp.item.acct}
          /\ tok'[rp.item.acct] = rp.item.key + 1 /\ rp.item.key + 1 \in Tokens
          /\ \A a \in Accounts : tok[a] <= tok'[a]
      BY <1>4, RotatesKeeps DEF IInv, TasksAgree, RefreshAnswered
    <2>2. /\ hp' \in [Reports -> ReportType] /\ spent' \in SUBSET Accounts
          /\ ReportsAgree' /\ SpentReported'
          /\ \A r \in Reports : hp'[r].at = "probe" => hp[r].at = "probe"
          /\ \A b \in Accounts : Looked(hp, b) => Looked(hp', b)
          /\ rp.item.acct \in live => Looked(hp', rp.item.acct)
      BY <1>4, RotationReported DEF IInv, TasksAgree, RefreshAnswered
    <2>3. \A r \in Reports : hp'[r].at = "probe" => hp[r].at = "probe"
      BY <2>2
    <2>4. /\ session' = [session EXCEPT ![rp.item.acct] = IF @ = "absent" THEN "none" ELSE @]
          /\ cred' = [cred EXCEPT ![rp.item.acct] = rp.item.key + 1]
          /\ rp'.at = "save" /\ rp'.item = [acct |-> rp.item.acct, key |-> rp.item.key + 1]
          /\ rp' \in [at : {"save"}, item : Item, tries : 0..(RetryAttempts - 1)]
      BY <1>4, <2>1 DEF IInv, TypeOK, TasksAgree, Item, ReplaceCredentials, RefreshAnswered
    <2>5. TypeOK'
      BY <1>4, <2>1, <2>2, <2>4 DEF IInv, TypeOK, ReportType, RefreshAnswered
    <2>6. TasksAgree'
      BY <1>4, <2>4 DEF IInv, TasksAgree, RefreshAnswered
    <2>7. QuietWhenOver'
      BY <1>4 DEF IInv, QuietWhenOver, RefreshAnswered
    <2>8. WireAgrees'
      BY <1>4, <2>1 DEF IInv, WireAgrees, RefreshAnswered
    <2>9. LostAgrees'
      BY <1>4, <2>3, <2>4 DEF IInv, LostAgrees, RefreshAnswered
    <2>10. FreshStart'
      BY <1>4, <2>1, <2>4 DEF IInv, TypeOK, FreshStart, Authorized, RefreshAnswered
    <2>11. TokensAgree'
      BY <1>4, <2>1, <2>4, BoundAssumption DEF IInv, TypeOK, TokensAgree, Tokens, RefreshAnswered
    <2>12. NoLostWakeup'
      BY <1>4, <2>1, <2>4 DEF IInv, TypeOK, NoLostWakeup, Awaiting, RefreshAnswered
    <2>13. AuthorizedIsServed'
      BY <1>4, <2>1, <2>2, <2>3, <2>4 DEF IInv, TypeOK, AuthorizedIsServed, Looked, Authorized,
           RefreshAnswered
    <2> QED
      BY <2>2, <2>5, <2>6, <2>7, <2>8, <2>9, <2>10, <2>11, <2>12, <2>13 DEF IInv
  <1>5. CASE RefreshUnheard
    <2>1. /\ rp.item.acct \in Accounts
          /\ tok' \in [Accounts -> Tokens] /\ age' \in [Accounts -> {"fresh", "soon", "expired"}]
          /\ live' = live \ {rp.item.acct}
          /\ tok'[rp.item.acct] = rp.item.key + 1 /\ rp.item.key + 1 \in Tokens
          /\ \A a \in Accounts : tok[a] <= tok'[a]
      BY <1>5, RotatesKeeps DEF IInv, TasksAgree, RefreshUnheard
    <2>2. /\ hp' \in [Reports -> ReportType] /\ spent' \in SUBSET Accounts
          /\ ReportsAgree' /\ SpentReported'
          /\ \A r \in Reports : hp'[r].at = "probe" => hp[r].at = "probe"
          /\ \A b \in Accounts : Looked(hp, b) => Looked(hp', b)
          /\ rp.item.acct \in live => Looked(hp', rp.item.acct)
      BY <1>5, RotationReported DEF IInv, TasksAgree, RefreshUnheard
    <2>3. TypeOK'
      BY <1>5, <2>1, <2>2, FaultType DEF IInv, TypeOK, ReportType, Tasks, RefreshUnheard
    <2>4. NoLostWakeup' /\ TasksAgree' /\ QuietWhenOver'
      BY <1>5 DEF IInv, NoLostWakeup, TasksAgree, QuietWhenOver, Awaiting, RefreshUnheard
    <2>5. WireAgrees'
      BY <1>5, <2>1 DEF IInv, WireAgrees, RefreshUnheard
    <2>6. LostAgrees'
      BY <1>5, <2>2, TaskAssumption DEF IInv, LostAgrees, RefreshUnheard
    <2>7. FreshStart'
      BY <1>5 DEF IInv, FreshStart, Authorized, RefreshUnheard
    <2>8. TokensAgree'
      BY <1>5, <2>1, BoundAssumption DEF IInv, TypeOK, TokensAgree, Tokens, RefreshUnheard
    <2>9. AuthorizedIsServed'
      BY <1>5, <2>1, <2>2 DEF IInv, TypeOK, AuthorizedIsServed, Looked, Authorized, RefreshUnheard
    <2> QED
      BY <2>2, <2>3, <2>4, <2>5, <2>6, <2>7, <2>8, <2>9 DEF IInv
  <1>6. CASE RefreshRefused
    <2>1. /\ refreshing' \in SUBSET Accounts /\ hp' \in [Reports -> ReportType]
          /\ spent' \in SUBSET Accounts
          /\ rp' = [at |-> "next", item |-> NoItem, tries |-> 0] /\ lost' = lost \ {"refresh"}
          /\ ReportsAgree' /\ SpentReported'
          /\ \A r \in Reports : hp'[r].at = "probe" => hp[r].at = "probe"
          /\ \A b \in Accounts : Looked(hp, b) => Looked(hp', b)
      BY <1>6, RefreshOverKeeps DEF IInv, TypeOK, ReportType, TasksAgree, RefreshRefused
    <2>2. TypeOK'
      BY <1>6, <2>1, Numbers, FaultType DEF IInv, TypeOK, ReportType, RefreshRefused
    <2>3. WireAgrees' /\ TokensAgree' /\ NoLostWakeup'
      BY <1>6 DEF IInv, WireAgrees, TokensAgree, NoLostWakeup, Awaiting, RefreshRefused
    <2>4. TasksAgree'
      BY <1>6, <2>1 DEF IInv, TasksAgree, RefreshRefused
    <2>5. QuietWhenOver'
      BY <1>6, <2>1 DEF IInv, QuietWhenOver, RefreshRefused
    <2>6. LostAgrees'
      BY <1>6, <2>1, TaskAssumption DEF IInv, LostAgrees, RefreshRefused
    <2>7. FreshStart'
      BY <1>6, <2>1 DEF IInv, FreshStart, Authorized, RefreshRefused
    <2>8. AuthorizedIsServed'
      BY <1>6, <2>1 DEF IInv, AuthorizedIsServed, Looked, Authorized, RefreshRefused
    <2> QED
      BY <2>2, <2>3, <2>1, <2>4, <2>5, <2>6, <2>7, <2>8 DEF IInv
  <1>7. CASE RefreshPauses
    <2>1. rp.tries + 1 \in 0..(RetryAttempts - 1)
      BY <1>7, RetryAssumption DEF IInv, TypeOK, RefreshPauses
    <2>2. faults' \in 0..MaxFaults
      BY <1>7, FaultType DEF IInv, RefreshPauses
    <2>3. rp' \in [at : {"pause"}, item : Item \cup {NoItem}, tries : 0..(RetryAttempts - 1)]
      BY <1>7, <2>1 DEF IInv, TypeOK, RefreshPauses
    <2>4. TypeOK'
      BY <1>7, <2>1, <2>2, <2>3 DEF IInv, TypeOK, RefreshPauses
    <2>5. ReportsAgree' /\ SpentReported' /\ WireAgrees' /\ FreshStart' /\ TokensAgree' /\ NoLostWakeup' /\ AuthorizedIsServed'
      BY <1>7 DEF IInv, ReportsAgree, SpentReported, WireAgrees, FreshStart, TokensAgree, NoLostWakeup,
           AuthorizedIsServed, Looked, Authorized, Awaiting, RefreshPauses
    <2>6. TasksAgree'
      BY <1>7 DEF IInv, TypeOK, TasksAgree, RefreshPauses, Fault
    <2>7. QuietWhenOver'
      BY <1>7 DEF IInv, TypeOK, QuietWhenOver, RefreshPauses, Fault
    <2>8. LostAgrees'
      BY <1>7 DEF IInv, TypeOK, LostAgrees, RefreshPauses, Fault
    <2> QED
      BY <2>4, <2>5, <2>6, <2>7, <2>8 DEF IInv
  <1>8. CASE RefreshRetries
    <2>1. TypeOK'
      BY <1>8, Numbers DEF IInv, TypeOK, RefreshRetries, Sends, Item, Tasks
    <2>2. ReportsAgree' /\ SpentReported' /\ WireAgrees' /\ TokensAgree' /\ NoLostWakeup' /\ AuthorizedIsServed'
      BY <1>8 DEF IInv, ReportsAgree, SpentReported, WireAgrees, TokensAgree, NoLostWakeup, AuthorizedIsServed,
           Awaiting, Authorized, RefreshRetries
    <2>3. TasksAgree'
      BY <1>8 DEF IInv, TypeOK, TasksAgree, RefreshRetries, Sends
    <2>4. QuietWhenOver'
      BY <1>8 DEF IInv, TypeOK, QuietWhenOver, RefreshRetries, Sends
    <2>5. LostAgrees'
      BY <1>8 DEF IInv, TypeOK, LostAgrees, RefreshRetries, Sends
    <2>6. FreshStart'
      BY <1>8 DEF IInv, TypeOK, FreshStart, Authorized, RefreshRetries, Sends
    <2> QED
      BY <2>1, <2>2, <2>3, <2>4, <2>5, <2>6 DEF IInv
  <1>9. CASE RefreshSaved
    <2>1. TypeOK'
      BY <1>9 DEF IInv, TypeOK, TasksAgree, Sends, Tasks, Item, RefreshSaved
    <2>2. ReportsAgree' /\ SpentReported' /\ WireAgrees' /\ TokensAgree' /\ NoLostWakeup' /\ AuthorizedIsServed'
      BY <1>9 DEF IInv, ReportsAgree, SpentReported, WireAgrees, TokensAgree, NoLostWakeup, AuthorizedIsServed,
           Awaiting, Authorized, RefreshSaved
    <2>3. TasksAgree'
      BY <1>9 DEF IInv, TypeOK, TasksAgree, RefreshSaved, Sends
    <2>4. QuietWhenOver'
      BY <1>9 DEF IInv, TypeOK, QuietWhenOver, RefreshSaved, Sends
    <2>5. LostAgrees'
      BY <1>9 DEF IInv, TypeOK, LostAgrees, RefreshSaved, Sends
    <2>6. FreshStart'
      BY <1>9 DEF IInv, TypeOK, FreshStart, Authorized, RefreshSaved, Sends
    <2> QED
      BY <2>1, <2>2, <2>3, <2>4, <2>5, <2>6 DEF IInv
  <1>10. CASE RefreshNotSaved
    <2>1. /\ refreshing' \in SUBSET Accounts /\ hp' \in [Reports -> ReportType]
          /\ spent' \in SUBSET Accounts
          /\ rp' = [at |-> "next", item |-> NoItem, tries |-> 0] /\ lost' = lost \ {"refresh"}
          /\ ReportsAgree' /\ SpentReported'
          /\ \A r \in Reports : hp'[r].at = "probe" => hp[r].at = "probe"
          /\ \A b \in Accounts : Looked(hp, b) => Looked(hp', b)
      BY <1>10, RefreshOverKeeps DEF IInv, TypeOK, ReportType, TasksAgree, RefreshNotSaved
    <2>2. TypeOK'
      BY <1>10, <2>1, Numbers, FaultType DEF IInv, TypeOK, ReportType, RefreshNotSaved
    <2>3. WireAgrees' /\ TokensAgree' /\ NoLostWakeup'
      BY <1>10 DEF IInv, WireAgrees, TokensAgree, NoLostWakeup, Awaiting, RefreshNotSaved
    <2>4. TasksAgree'
      BY <1>10, <2>1 DEF IInv, TasksAgree, RefreshNotSaved
    <2>5. QuietWhenOver'
      BY <1>10, <2>1 DEF IInv, QuietWhenOver, RefreshNotSaved
    <2>6. LostAgrees'
      BY <1>10, <2>1, TaskAssumption DEF IInv, LostAgrees, RefreshNotSaved
    <2>7. FreshStart'
      BY <1>10, <2>1 DEF IInv, FreshStart, Authorized, RefreshNotSaved
    <2>8. AuthorizedIsServed'
      BY <1>10, <2>1 DEF IInv, AuthorizedIsServed, Looked, Authorized, RefreshNotSaved
    <2> QED
      BY <2>2, <2>3, <2>1, <2>4, <2>5, <2>6, <2>7, <2>8 DEF IInv
  <1>11. CASE RefreshEstablished
    <2>1. /\ Established("refresh", rp.item) /\ rp.item \in Item
      BY <1>11 DEF IInv, TypeOK, TasksAgree, Established, RefreshEstablished
    <2>2. /\ live' \in SUBSET Accounts /\ unsure' \in SUBSET Accounts /\ faults' \in 0..MaxFaults
          /\ session' \in [Accounts -> {"absent", "none", "auth", "due", "backoff"}]
          /\ cred' \in [Accounts -> Tokens]
          /\ live \subseteq live'
          /\ ~srvApp => live' = live
          /\ \A a \in Accounts : cred'[a] # cred[a] => cred'[a] = tok[a]
          /\ \A a \in Accounts : session'[a] # session[a] =>
               \/ session'[a] = "auth" /\ a \in live' /\ srvApp
               \/ Awaiting(a) /\ session'[a] = "backoff"
          /\ \A a \in Accounts : a \in unsure => a \in unsure' \/ a \in live'
      BY <2>1, EstablishKeeps DEF IInv
    <2>3. /\ refreshing' \in SUBSET Accounts /\ hp' \in [Reports -> ReportType]
          /\ spent' \in SUBSET Accounts
          /\ rp' = [at |-> "next", item |-> NoItem, tries |-> 0] /\ lost' = lost \ {"refresh"}
          /\ ReportsAgree' /\ SpentReported'
          /\ \A r \in Reports : hp'[r].at = "probe" => hp[r].at = "probe"
          /\ \A b \in Accounts : Looked(hp, b) => Looked(hp', b)
      BY <1>11, RefreshOverKeeps DEF IInv, TypeOK, ReportType, TasksAgree, RefreshEstablished
    <2>4. TypeOK'
      BY <1>11, <2>2, <2>3, Numbers DEF IInv, TypeOK, ReportType, RefreshEstablished
    <2>5. TasksAgree'
      BY <1>11, <2>3 DEF IInv, TasksAgree, RefreshEstablished
    <2>6. QuietWhenOver'
      BY <1>11 DEF IInv, QuietWhenOver, RefreshEstablished
    <2>7. WireAgrees'
      BY <1>11, <2>2 DEF IInv, WireAgrees, RefreshEstablished
    <2>8. LostAgrees'
      BY <1>11, <2>3, TaskAssumption DEF IInv, LostAgrees, RefreshEstablished
    <2>9. FreshStart'
      BY <1>11, <2>2, <2>3 DEF IInv, TypeOK, FreshStart, Authorized, RefreshEstablished
    <2>10. TokensAgree'
      BY <1>11, <2>2, BoundAssumption DEF IInv, TypeOK, TokensAgree, Tokens, RefreshEstablished
    <2>11. NoLostWakeup'
      BY <1>11, <2>2 DEF IInv, TypeOK, NoLostWakeup, Awaiting, RefreshEstablished
    <2>12. AuthorizedIsServed'
      BY <1>11, <2>2, <2>3 DEF IInv, TypeOK, AuthorizedIsServed, Looked, Authorized, RefreshEstablished
    <2> QED
      BY <2>4, <2>3, <2>5, <2>6, <2>7, <2>8, <2>9, <2>10, <2>11, <2>12 DEF IInv
  <1> QED
    BY <1>1, <1>2, <1>3, <1>4, <1>5, <1>6, <1>7, <1>8, <1>9, <1>10, <1>11
----------------------------------------------------------------------------
(* The theorems.                                                           *)

LEMMA InitStep == Init => IInv
  <1> SUFFICES ASSUME Init PROVE IInv
    OBVIOUS
  <1>1. TypeOK
    BY Numbers DEF Init, TypeOK, Tasks, NoItem
  <1>2. ReportsAgree /\ SpentReported
    BY NameAssumption DEF Init, ReportsAgree, SpentReported, Checking
  <1>3. TasksAgree /\ QuietWhenOver /\ WireAgrees /\ LostAgrees /\ FreshStart
    BY DEF Init, TasksAgree, QuietWhenOver, WireAgrees, LostAgrees, FreshStart, Authorized
  <1>4. TokensAgree /\ NoLostWakeup /\ AuthorizedIsServed
    BY Numbers DEF Init, TokensAgree, NoLostWakeup, AuthorizedIsServed
  <1> QED
    BY <1>1, <1>2, <1>3, <1>4 DEF IInv

LEMMA Stutter == ASSUME IInv, UNCHANGED vars PROVE IInv'
  <1> USE DEF vars, serverVars, storeVars, loopVars, restoreVars, reportVars, refreshVars
  <1>1. TypeOK' /\ ReportsAgree' /\ SpentReported' /\ TasksAgree' /\ QuietWhenOver' /\ WireAgrees'
    BY DEF IInv, TypeOK, ReportsAgree, SpentReported, TasksAgree, QuietWhenOver, WireAgrees
  <1>2. LostAgrees' /\ FreshStart' /\ TokensAgree' /\ NoLostWakeup' /\ AuthorizedIsServed'
    BY DEF IInv, LostAgrees, FreshStart, TokensAgree, NoLostWakeup, AuthorizedIsServed, Looked, Authorized, Awaiting
  <1> QED
    BY <1>1, <1>2 DEF IInv

\* Whatever the tasks, the server and the link do, in any order, the
\* invariant that relates them is kept.
THEOREM Inductive == Spec => []IInv
  <1>1. ASSUME IInv, Next PROVE IInv'
    BY <1>1, ServerStep, UserStep, LinkStep, RestoreStep, ReportStep, LoopStep, RefreshStep
       DEF Next, LinkNext, RestoreNext, LoopNext, RefreshNextStep, ReportNext
  <1> QED
    BY <1>1, InitStep, Stutter, PTL DEF Spec

\* The store, the server and every task stay within their types.
THEOREM TypeCorrect == Spec => []TypeOK
  BY Inductive, PTL DEF IInv

\* The recovery loop never sleeps through work: _reauth_loop clears its
\* signal before it reads the queue, and whoever flags an account or the
\* application sets it.
THEOREM NoLostWakeupHolds == Spec => []NoLostWakeup
  BY Inductive, PTL DEF IInv

\* is_account_authorized is honest on a link that works, however reports,
\* probes, refreshes and restorations interleave, but for the two gaps that
\* AuthorizedIsServed names.
THEOREM AuthorizedIsServedHolds == Spec => []AuthorizedIsServed
  BY Inductive, PTL DEF IInv

\* What a step does to the store: a session that is authorised is put up for
\* recovery only for cause, and a pair that is held is replaced only by a
\* later one.
StoreStep ==
    /\ \A a \in Accounts : Authorized(a) /\ session'[a] \in {"due", "backoff"} =>
         \/ a \notin live \cup spent
         \/ CheckRefused(a)
         \/ sp = "app" /\ sp' = "done"
    /\ \A a \in Accounts : Held(a) /\ session'[a] # "absent" => cred'[a] >= cred[a]

\* An attempt to establish a session takes such a step.
LEMMA EstablishStores ==
    ASSUME IInv, NEW t, NEW e \in Item, Established(t, e)
    PROVE  StoreStep
  <1>1. /\ \A a \in Accounts : cred'[a] # cred[a] => cred'[a] = tok[a]
        /\ \A a \in Accounts : session'[a] # session[a] =>
             session'[a] = "auth" \/ (Awaiting(a) /\ session'[a] = "backoff")
    BY EstablishKeeps DEF IInv
  <1>2. \A a \in Accounts : cred'[a] >= cred[a]
    BY <1>1, BoundAssumption DEF IInv, TypeOK, TokensAgree, Tokens
  <1> QED
    BY <1>1, <1>2 DEF StoreStep, Authorized, Awaiting

LEMMA StoreSteps == ASSUME IInv, [Next]_vars PROVE StoreStep
  <1> USE DEF serverVars, storeVars, loopVars, restoreVars, reportVars, refreshVars
  <1>1. CASE UNCHANGED <<session, cred>>
    BY <1>1, BoundAssumption DEF IInv, TypeOK, Tokens, StoreStep, Authorized
  <1>2. CASE TraderAnswered
    BY <1>2, EstablishStores DEF IInv, TypeOK, NoItem, TraderAnswered, Established
  <1>3. CASE \E e \in Item : RestoreAccount(e)
    BY <1>3, EstablishStores DEF RestoreAccount, Established
  <1>4. CASE \E e \in Item : LoopAccount(e)
    BY <1>4, EstablishStores DEF LoopAccount, Established
  <1>5. CASE RefreshEstablished
    BY <1>5, EstablishStores DEF IInv, TasksAgree, RefreshEstablished, Established
  <1>6. CASE RestoreAppFails
    <2>1. sp = "app" /\ sp' = "done" /\ UNCHANGED cred
      BY <1>6 DEF RestoreAppFails
    <2> QED
      BY <2>1, BoundAssumption DEF IInv, TypeOK, Tokens, StoreStep
  <1>7. CASE \E r \in Reports : ProbeAnswered(r)
    <2> PICK r \in Reports : ProbeAnswered(r)
      BY <1>7
    <2>1. UNCHANGED cred /\ hp[r].at = "probe"
      BY DEF ProbeAnswered
    <2>2. CASE UNCHANGED session
      BY <1>1, <2>1, <2>2
    <2>3. CASE ProbeDropped(r)
      <3>1. \A a \in Accounts : session'[a] # session[a] => a = hp[r].acct
        BY <2>3 DEF IInv, TypeOK, ProbeDropped, Flag
      <3>2. hp[r].acct \notin live \cup spent \/ CheckRefused(hp[r].acct)
        <4>1. hp[r] = [at |-> "probe", acct |-> hp[r].acct] /\ hp'[r].at = "emit"
          BY <2>1, <2>3 DEF IInv, TypeOK, ProbeDropped
        <4>2. Fault => faults' < faults
          BY BoundAssumption DEF IInv, TypeOK, Fault
        <4> QED
          BY <2>3, <4>1, <4>2 DEF ProbeDropped, Refuses, CheckRefused
      <3> QED
        BY <2>1, <3>1, <3>2, BoundAssumption DEF IInv, TypeOK, Tokens, StoreStep, Authorized
    <2> QED
      BY <2>2, <2>3 DEF ProbeAnswered, ProbeAlive, ProbeInconclusive
  <1>8. CASE \E a \in Accounts : RemoveAccount(a)
    BY <1>8, BoundAssumption DEF IInv, TypeOK, Tokens, StoreStep, Authorized, RemoveAccount
  <1>9. CASE \E a \in Accounts : BackoffElapses(a)
    BY <1>9, BoundAssumption DEF IInv, TypeOK, Tokens, StoreStep, Authorized, BackoffElapses
  <1>10. CASE LinkLost
    BY <1>10, BoundAssumption
       DEF IInv, TypeOK, Tokens, StoreStep, Authorized, LinkLost, OnConnectionLost, InvalidateAll
  <1>11. CASE Ends
    BY <1>11, BoundAssumption DEF IInv, TypeOK, Tokens, StoreStep, InvalidateAll, Ends
  <1>12. CASE RefreshAnswered
    <2>1. /\ rp.item.acct \in Accounts /\ rp.item.key \in Nat
          /\ rp.item.key = tok[rp.item.acct]
          /\ session' = [session EXCEPT ![rp.item.acct] = IF @ = "absent" THEN "none" ELSE @]
          /\ cred' = [cred EXCEPT ![rp.item.acct] = rp.item.key + 1]
      BY <1>12, Numbers DEF IInv, TasksAgree, Item, Rotates, ReplaceCredentials, RefreshAnswered
    <2> QED
      BY <2>1, BoundAssumption DEF IInv, TypeOK, TokensAgree, Tokens, StoreStep, Authorized
  <1>13. CASE \/ LinkRestoring \/ LinkRestored \/ Open \/ Closes \/ RestoreAppOk
              \/ LoopTop \/ LoopWakes \/ LoopAppAnswered \/ AppBackoffElapses \/ WireFails
              \/ \E r \in Reports : ReportHandled(r) \/ DropPublished(r)
              \/ \E t \in {"restore", "loop"} : AppAuthUnheard(t)
              \/ \E a \in Accounts : AuthenticateTrader(a) \/ TokenAges(a) \/ ServerDrops(a)
    BY <1>1, <1>13
       DEF LinkRestoring, LinkRestored, Open, Closes, RestoreAppOk, LoopTop, LoopWakes, LoopAppAnswered,
           AppBackoffElapses, WireFails, ReportHandled, DropPublished, AppAuthUnheard, AuthenticateTrader,
           TokenAges, ServerDrops
  <1>14. CASE \/ RefreshWakes \/ RefreshSleeps \/ RefreshUnheard \/ RefreshRefused \/ RefreshPauses
              \/ RefreshRetries \/ RefreshSaved \/ RefreshNotSaved \/ \E e \in Item : RefreshNext(e)
    BY <1>1, <1>14
       DEF RefreshWakes, RefreshSleeps, RefreshUnheard, RefreshRefused, RefreshPauses, RefreshRetries,
           RefreshSaved, RefreshNotSaved, RefreshNext
  <1>15. CASE UNCHANGED vars
    BY <1>1, <1>15 DEF vars
  <1> QED
    BY <1>2, <1>3, <1>4, <1>5, <1>6, <1>7, <1>8, <1>9, <1>10, <1>11, <1>12, <1>13, <1>14, <1>15
       DEF Next, LinkNext, RestoreNext, LoopNext, RefreshNextStep, ReportNext

\* A session that the server serves, or withholds only while its tokens are
\* being replaced, is never put up for recovery, although attempts, probes
\* and reports are overtaken by one another, unless the server refuses the
\* check of that account or the application's re-authentication failed.
THEOREM DropsAreRealHolds == Spec => DropsAreReal
  <1>1. IInv /\ [Next]_vars =>
          [\A a \in Accounts :
             Authorized(a) /\ session'[a] \in {"due", "backoff"} =>
               \/ a \notin live \cup spent
               \/ CheckRefused(a)
               \/ sp = "app" /\ sp' = "done"]_vars
    BY StoreSteps DEF StoreStep
  <1> QED
    BY <1>1, Inductive, PTL DEF Spec, DropsAreReal

\* The pair held for an account is never replaced by an older one, although
\* recovery and restoration work from snapshots that a refresh may overtake.
THEOREM CredentialsNeverGoBackHolds == Spec => CredentialsNeverGoBack
  <1>1. IInv /\ [Next]_vars =>
          [\A a \in Accounts : Held(a) /\ session'[a] # "absent" => cred'[a] >= cred[a]]_vars
    BY StoreSteps DEF StoreStep
  <1> QED
    BY <1>1, Inductive, PTL DEF Spec, CredentialsNeverGoBack
=============================================================================
