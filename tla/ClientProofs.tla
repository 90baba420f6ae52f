---------------------------- MODULE ClientProofs ----------------------------
(***************************************************************************)
(* Proofs about a client's life, the delivery of events and the answers to *)
(* trade calls, for any account, any subscriptions, any messages the       *)
(* server pushes and any number of messages in flight.                     *)
(***************************************************************************)
EXTENDS Client, SequenceLemmas, TLAPS

----------------------------------------------------------------------------
(* The inductive invariant.                                                *)

\* What is there in each phase of entering and leaving the client.
PhasesAgree ==
    /\ phase \in Phases /\ monitors \subseteq Monitors /\ up \in BOOLEAN /\ disposers \in BOOLEAN
    /\ phase \in {"closed", "connecting"} => ~up /\ jobs = {}
    /\ phase \in {"authing", "starting", "open"} => up \/ ~Reconnects
    /\ ~up => call = None \/ (call # None /\ call.slot # None)
    /\ phase \in {"closed", "connecting", "authing", "leaving"} => monitors = {}
    /\ phase = "open" => monitors = Monitors
    /\ disposers <=> phase = "open"
    /\ regs = IF disposers THEN 1 ELSE 0

\* What is under way has its parts: messages, requests, the call.
ShapesAgree ==
    /\ wire \in Seq(Range(wire)) /\ inbox \in Seq(Range(inbox))
    /\ call # None => call = [by |-> call.by, n |-> call.n, op |-> call.op,
                              slot |-> call.slot, did |-> call.did]

\* No two messages under way, or being handled, have the same serial.
SerialsAgree ==
    /\ \A i, k \in DOMAIN wire : wire[i].sn = wire[k].sn => i = k
    /\ \A j \in jobs, i \in DOMAIN wire : j.sn # wire[i].sn

\* A task that tells an event has told it to some of those it is owed to and
\* has yet to tell the others.
JobsAgree ==
    /\ \A j \in jobs : j = [sn |-> j.sn, reg |-> j.reg, body |-> j.body, at |-> j.at,
                            owed |-> j.owed, todo |-> j.todo, ran |-> j.ran]
    /\ \A j \in jobs : j.at = "spawned" => j.ran = {}
    /\ \A j \in jobs : j.at = "emitting" => j.owed = j.todo \cup j.ran

\* A list has subscriptions of its own class only.
ListsAgree ==
    /\ subscriptions \in [Classes -> Seq(Subs)]
    /\ \A c \in Classes : \A i \in DOMAIN subscriptions[c] : Class[subscriptions[c][i]] = c

\* What a message that answers a trade may say, given what the server did.
Tells(body, did) ==
    \/ did = "applied" /\ \E type \in {2, 3, 4, 5, Odd} : body = Execution(type)
    \/ did = "refused" /\ (body = Execution(7) \/ \E c \in {"order_error", "error", "odd"} : body = Refusal(c))

\* An id that is not zero is borne by one request, which is waiting or has
\* been answered, never both; what bears the id of the call under way answers
\* that call, and tells it what the server did.
AnswersAgree ==
    /\ \A i, k \in DOMAIN inbox : inbox[i].n = inbox[k].n => i = k
    /\ \A i \in DOMAIN inbox, k \in DOMAIN wire : wire[k].n # 0 => inbox[i].n # wire[k].n
    /\ call # None =>
         /\ \A i \in DOMAIN inbox : inbox[i].n = call.n => inbox[i].op = call.op /\ call.slot = None
         /\ call.op \in Trades =>
              /\ \A k \in DOMAIN wire : wire[k].n # 0 /\ wire[k].n = call.n => Tells(wire[k].body, call.did)
              /\ call.slot \notin {None, Gone} => Tells(call.slot, call.did)

IInv ==
    /\ PhasesAgree
    /\ ShapesAgree
    /\ SerialsAgree
    /\ JobsAgree
    /\ ListsAgree
    /\ HandledOnce
    /\ AnswersAgree

----------------------------------------------------------------------------
(* What the server answers, and what a trade call makes of it.             *)

\* The executions with which a trade that was applied is reported.
Reported == {<<2>>, <<2, 3>>, <<4>>, <<5>>, <<Odd>>}

LEMMA AppliedTypes == ASSUME NEW r, NEW x \in Applied(r) PROVE x[2] \in Reported
  <1>1. CASE r.op = "place" /\ Book.what = "none"
    BY <1>1 DEF Applied, Reported
  <1>2. CASE r.op = "amend" /\ Book.what = "order"
    BY <1>2 DEF Applied, Reported
  <1>3. CASE r.op = "cancel" /\ Book.what = "order"
    BY <1>3 DEF Applied, Reported
  <1>4. CASE r.op = "close" /\ Book.what = "position" /\ r.msg.volume <= Book.rec.volume
    BY <1>4 DEF Applied, Reported
  <1>5. CASE r.op = "amend_position" /\ Book.what = "position"
    BY <1>5 DEF Applied, Reported
  <1> QED
    BY <1>1, <1>2, <1>3, <1>4, <1>5 DEF Applied

\* Whatever the server answers, it answers with a number of messages, and the
\* messages about a trade say what it did.
LEMMA RepliesTell ==
    ASSUME NEW r, NEW a \in Replies(r)
    PROVE  /\ Len(a.bodies) \in Nat
           /\ r.op \in Trades => \A i \in 1..Len(a.bodies) : Tells(a.bodies[i], a.did)
  <1>1. CASE r.op \in Trades
    <2>1. CASE \E types \in Reported :
                 a.did = "applied" /\ a.bodies = [i \in DOMAIN types |-> Execution(types[i])]
      <3>1. PICK types \in Reported :
              a.did = "applied" /\ a.bodies = [i \in DOMAIN types |-> Execution(types[i])]
        BY <2>1
      <3>2. types \in Seq({2, 3, 4, 5, Odd})
        BY <3>1 DEF Reported
      <3>3. /\ Len(types) \in Nat /\ DOMAIN types = 1..Len(types)
            /\ \A i \in 1..Len(types) : types[i] \in {2, 3, 4, 5, Odd}
        BY <3>2
      <3>4. a.bodies \in Seq({Execution(t) : t \in {2, 3, 4, 5, Odd}}) /\ Len(a.bodies) = Len(types)
        BY <3>1, <3>3
      <3> QED
        BY <3>1, <3>3, <3>4 DEF Tells
    <2>2. CASE /\ a.did = "refused"
               /\ \/ a.bodies = <<Execution(7)>>
                  \/ \E c \in {"order_error", "error", "odd"} : a.bodies = <<Refusal(c)>>
      BY <2>2 DEF Tells
    <2> QED
      BY <1>1, <2>1, <2>2, AppliedTypes DEF Replies, Reported
  <1>2. CASE r.op \notin Trades
    BY <1>2 DEF Replies
  <1> QED
    BY <1>1, <1>2

\* A trade call makes of such a message, or of the end of the protocol, the
\* truth about its request.
LEMMA OutcomeHonest ==
    ASSUME NEW op \in Trades, NEW body, NEW did, Tells(body, did) \/ body = Gone
    PROVE  LET end == Outcome(op, body)
           IN /\ end.out \in {"order_error", "api", "unexpected"} => did = "refused"
              /\ end.out = "execution" => (did = "applied") = (end.val.type # 7)
              /\ end.out = "unknown_type" => did = "applied"
  <1>1. CASE body = Gone
    <2>1. body.class = "closed"
      BY <1>1 DEF Gone
    <2>2. Outcome(op, body) = Ends("closed", None)
      BY <2>1 DEF Outcome, Raised
    <2> QED
      BY <2>2 DEF Ends
  <1>2. CASE did = "refused" /\ \E c \in {"order_error", "error", "odd"} : body = Refusal(c)
    <2>1. body.class \in {"order_error", "error", "odd"}
      BY <1>2 DEF Refusal
    <2>2. Outcome(op, body).out \in {"order_error", "api", "unexpected"}
      <3>1. CASE body.class = "order_error"
        <4>1. Outcome(op, body) = Ends("order_error", None)
          BY <3>1 DEF Outcome, Raised, ExecuteTrade
        <4> QED
          BY <4>1 DEF Ends
      <3>2. CASE body.class = "error"
        <4>1. Outcome(op, body) = Ends("api", None)
          BY <3>2 DEF Outcome, Raised, ErrorOf
        <4> QED
          BY <4>1 DEF Ends
      <3>3. CASE body.class = "odd"
        <4>1. Outcome(op, body) = Ends("unexpected", None)
          BY <3>3 DEF Outcome, Raised, ExecuteTrade
        <4> QED
          BY <4>1 DEF Ends
      <3> QED
        BY <2>1, <3>1, <3>2, <3>3
    <2> QED
      BY <1>2, <2>2
  <1>3. CASE did = "refused" /\ body = Execution(7)
    <2>1. ExecutionFromProto(body) # None /\ ExecutionFromProto(body).type = 7 /\ body.class = "execution"
      BY <1>3, NoneAssumption DEF ExecutionFromProto, Execution, ExecutionTypes
    <2>2. Outcome(op, body) = Ends("execution", ExecutionFromProto(body))
      BY <1>3, <2>1 DEF Outcome, Raised, ExecuteTrade
    <2> QED
      BY <1>3, <2>1, <2>2 DEF Ends
  <1>4. CASE did = "applied" /\ \E type \in {2, 3, 4, 5, Odd} : body = Execution(type)
    <2>1. PICK type \in {2, 3, 4, 5, Odd} : body = Execution(type)
      BY <1>4
    <2>2. body.class = "execution" /\ (ExecutionFromProto(body) # None => ExecutionFromProto(body).type # 7)
      BY <2>1 DEF ExecutionFromProto, Execution, Odd
    <2>3. \/ Outcome(op, body) = Ends("unknown_type", None)
          \/ ExecutionFromProto(body) # None /\ Outcome(op, body) = Ends("execution", ExecutionFromProto(body))
      BY <2>2 DEF Outcome, Raised, ExecuteTrade
    <2> QED
      BY <1>4, <2>2, <2>3 DEF Ends
  <1> QED
    BY <1>1, <1>2, <1>3, <1>4 DEF Tells

\* Messages that the server sends go to the end of the wire, with serials that
\* nothing under way or being handled has.
LEMMA SendsKeeps ==
    ASSUME IInv, NEW n, NEW bodies, Len(bodies) \in Nat, Sends(n, bodies, Busy), UNCHANGED jobs
    PROVE  /\ wire' \in Seq(Range(wire')) /\ SerialsAgree'
           /\ \A i \in DOMAIN wire : i \in DOMAIN wire' /\ wire'[i] = wire[i]
           /\ \A i \in DOMAIN wire' \ DOMAIN wire :
                /\ wire'[i].n = n /\ wire'[i].sn \in Serials
                /\ \E k \in 1..Len(bodies) : wire'[i].body = bodies[k]
  <1>1. PICK f \in Lowest(Len(bodies), FreeSerials(Busy)) :
          wire' = wire \o [i \in 1..Len(bodies) |-> [n |-> n, sn |-> f[i], body |-> bodies[i]]]
    BY DEF Sends
  <1> DEFINE t == [i \in 1..Len(bodies) |-> [n |-> n, sn |-> f[i], body |-> bodies[i]]]
  <1>b. DOMAIN t = 1..Len(bodies) /\ t = [i \in 1..Len(bodies) |-> t[i]]
    OBVIOUS
  <1>c. wire' = wire \o t
    BY <1>1
  <1>a. \A i \in 1..Len(bodies) : t[i].n = n /\ t[i].sn = f[i] /\ t[i].body = bodies[i]
    OBVIOUS
  <1> HIDE DEF t
  <1>2. /\ wire' \in Seq(Range(wire')) /\ DOMAIN wire' = 1..(Len(wire) + Len(bodies))
        /\ \A i \in DOMAIN wire : i \in DOMAIN wire' /\ wire'[i] = wire[i]
        /\ \A i \in DOMAIN wire' \ DOMAIN wire : i - Len(wire) \in 1..Len(bodies) /\ wire'[i] = t[i - Len(wire)]
    <2>1. wire \in Seq(Range(wire))
      BY DEF IInv, ShapesAgree
    <2>2. /\ wire \o t \in Seq(Range(wire \o t)) /\ DOMAIN (wire \o t) = 1..(Len(wire) + Len(bodies))
          /\ \A i \in DOMAIN wire : i \in DOMAIN (wire \o t) /\ (wire \o t)[i] = wire[i]
          /\ \A i \in DOMAIN (wire \o t) \ DOMAIN wire :
                i - Len(wire) \in 1..Len(bodies) /\ (wire \o t)[i] = t[i - Len(wire)]
      BY <1>b, <2>1, ConcatParts, Zenon
    <2> QED
      BY <1>c, <2>2
  <1>3. Len(wire) \in Nat /\ DOMAIN wire = 1..Len(wire)
    BY SeqParts DEF IInv, ShapesAgree
  <1>4. \A i \in 1..Len(bodies) : f[i] \in Nat /\ f[i] \in FreeSerials(Busy)
    BY <1>1, SerialsAssumption DEF Lowest, FreeSerials
  <1>5. \A i, k \in 1..Len(bodies) : i < k => f[i] < f[k]
    BY <1>1, <1>4 DEF Lowest
  <1>6. \A i \in 1..Len(bodies) : /\ \A k \in DOMAIN wire : f[i] # wire[k].sn
                                  /\ \A j \in jobs : f[i] # j.sn
    BY <1>4 DEF FreeSerials, Busy
  <1>7. \A i \in DOMAIN wire' \ DOMAIN wire :
          /\ i - Len(wire) \in 1..Len(bodies) /\ wire'[i].sn = f[i - Len(wire)]
          /\ wire'[i].n = n /\ wire'[i].body = bodies[i - Len(wire)]
    BY <1>2, <1>a
  <1>8. ASSUME NEW i \in DOMAIN wire', NEW k \in DOMAIN wire', wire'[i].sn = wire'[k].sn PROVE i = k
    <2>1. CASE i \in DOMAIN wire /\ k \in DOMAIN wire
      BY <1>2, <1>8, <2>1 DEF IInv, SerialsAgree
    <2>2. CASE i \in DOMAIN wire /\ k \notin DOMAIN wire
      BY <1>2, <1>6, <1>7, <1>8, <2>2
    <2>3. CASE i \notin DOMAIN wire /\ k \in DOMAIN wire
      BY <1>2, <1>6, <1>7, <1>8, <2>3
    <2>4. CASE i \notin DOMAIN wire /\ k \notin DOMAIN wire
      <3>1. f[i - Len(wire)] = f[k - Len(wire)] /\ i - Len(wire) \in 1..Len(bodies) /\ k - Len(wire) \in 1..Len(bodies)
        BY <1>7, <1>8, <2>4
      <3>2. i - Len(wire) = k - Len(wire)
        BY <1>4, <1>5, <3>1
      <3> QED
        BY <1>2, <1>3, <3>2
    <2> QED
      BY <2>1, <2>2, <2>3, <2>4
  <1>9. ASSUME NEW j \in jobs', NEW i \in DOMAIN wire' PROVE j.sn # wire'[i].sn
    <2>1. CASE i \in DOMAIN wire
      BY <1>2, <2>1 DEF IInv, SerialsAgree
    <2>2. CASE i \notin DOMAIN wire
      BY <1>6, <1>7, <2>2
    <2> QED
      BY <2>1, <2>2
  <1>d. \A i \in 1..Len(bodies) : f[i] \in Serials
    BY <1>4 DEF FreeSerials
  <1> QED
    BY <1>2, <1>7, <1>8, <1>9, <1>d DEF SerialsAgree

----------------------------------------------------------------------------
(* Every step keeps the invariant.                                         *)

\* A step that moves neither messages nor calls nor the tasks of handlers.
LEMMA QuietStep ==
    ASSUME IInv, UNCHANGED <<tradeVars, jobs>>, PhasesAgree', ListsAgree'
    PROVE  IInv'
  <1>1. ShapesAgree' /\ SerialsAgree' /\ AnswersAgree'
    BY DEF IInv, ShapesAgree, SerialsAgree, AnswersAgree, tradeVars, Tells
  <1>2. JobsAgree' /\ HandledOnce'
    BY DEF IInv, JobsAgree, HandledOnce
  <1> QED
    BY <1>1, <1>2 DEF IInv

\* The lists of the emitter stay as they are, and registering keeps them sorted
\* by class.
LEMMA ListsStay == ASSUME ListsAgree, UNCHANGED subscriptions PROVE ListsAgree'
  BY DEF ListsAgree

LEMMA RegistersKeep == ASSUME ListsAgree, Registers PROVE ListsAgree'
  <1>1. ASSUME NEW s \in Subs, Subscribe(s) PROVE ListsAgree'
    <2> DEFINE old == subscriptions[Class[s]]
    <2>1. Class[s] \in Classes /\ old \in Seq(Subs)
      BY DEF ListsAgree, Classes
    <2>2. subscriptions' = [subscriptions EXCEPT ![Class[s]] = Append(old, s)]
      BY <1>1 DEF Subscribe
    <2>3. /\ Append(old, s) \in Seq(Subs) /\ Len(old) \in Nat
          /\ DOMAIN old = 1..Len(old) /\ DOMAIN Append(old, s) = 1..(Len(old) + 1)
          /\ \A i \in 1..Len(old) : Append(old, s)[i] = old[i]
          /\ Append(old, s)[Len(old) + 1] = s
      BY <2>1, AppendProperties, LenProperties
    <2>4. \A i \in DOMAIN Append(old, s) : Class[Append(old, s)[i]] = Class[s]
      BY <2>1, <2>3 DEF ListsAgree
    <2> QED
      BY <2>1, <2>2, <2>3, <2>4 DEF ListsAgree
  <1>2. ASSUME NEW s \in Subs, Unsubscribe(Class[s], Handler[s]) PROVE ListsAgree'
    <2> DEFINE old == subscriptions[Class[s]]
    <2>1. Class[s] \in Classes /\ old \in Seq(Subs) /\ Len(old) \in Nat /\ DOMAIN old = 1..Len(old)
      BY LenProperties DEF ListsAgree, Classes
    <2>2. PICK k \in DOMAIN old : subscriptions' = [subscriptions EXCEPT ![Class[s]] = RemoveAt(old, k)]
      BY <1>2 DEF Unsubscribe, First
    <2>3. /\ RemoveAt(old, k) \in Seq(Subs) /\ DOMAIN RemoveAt(old, k) = 1..(Len(old) - 1)
          /\ \A i \in 1..(Len(old) - 1) : RemoveAt(old, k)[i] = IF i < k THEN old[i] ELSE old[i + 1]
      BY <2>1, <2>2, RemoveAtProperties, LenProperties
    <2>4. \A i \in DOMAIN RemoveAt(old, k) : Class[RemoveAt(old, k)[i]] = Class[s]
      BY <2>1, <2>3 DEF ListsAgree
    <2> QED
      BY <2>1, <2>2, <2>3, <2>4 DEF ListsAgree
  <1>3. ASSUME NEW s \in Subs, UnsubscribeAll(Class[s]) PROVE ListsAgree'
    <2>1. Class[s] \in Classes /\ subscriptions' = [subscriptions EXCEPT ![Class[s]] = <<>>]
      BY <1>3 DEF Classes, UnsubscribeAll
    <2>2. <<>> \in Seq(Subs) /\ DOMAIN <<>> = {}
      OBVIOUS
    <2> QED
      BY <2>1, <2>2 DEF ListsAgree
  <1>4. ASSUME UnsubscribeEverything PROVE ListsAgree'
    BY <1>4, EmptySeq DEF ListsAgree, UnsubscribeEverything, Nobody
  <1> QED
    BY <1>1, <1>2, <1>3, <1>4 DEF Registers

\* The way out: the router's registration goes with the block.
LEMMA WindsDownParts ==
    ASSUME IInv, WindsDown, phase \in {"authing", "starting", "open"}
    PROVE  phase' \in {"leaving", "closing"} /\ (phase = "authing" <=> phase' = "leaving")
           /\ regs' = 0 /\ disposers' = FALSE
  <1>1. CASE phase = "authing"
    BY <1>1 DEF IInv, PhasesAgree, Reconnects, WindsDown, Goes
  <1>2. CASE phase # "authing"
    <2>1. phase' = "closing" /\ disposers' = FALSE /\ regs' = IF disposers THEN regs - 1 ELSE regs
      BY <1>2 DEF WindsDown, Goes, RouterStop
    <2>2. regs = IF disposers THEN 1 ELSE 0
      BY DEF IInv, PhasesAgree, Reconnects
    <2>3. regs' = 0
      BY <2>1, <2>2
    <2> QED
      BY <1>2, <2>1, <2>3
  <1> QED
    BY <1>1, <1>2

\* Entering the client, and leaving it as far as the last step.
LEMMA LifeStep ==
    ASSUME IInv,
           \/ Enter \/ ConnectFails \/ Connected \/ AppAuthenticated \/ AppAuthFails \/ Opened
           \/ \E m \in Monitors : Serve(m) \/ MonitorDies(m)
           \/ MonitorsEnd \/ Leave \/ Registers
    PROVE  IInv'
  <1> USE DEF tradeVars, eventVars, clientVars
  <1>1. UNCHANGED <<tradeVars, jobs>>
    BY DEF Enter, ConnectFails, Connected, AppAuthenticated, AppAuthFails, Opened, Serve, MonitorDies,
           MonitorsEnd, Leave, Registers, Subscribe, Unsubscribe, UnsubscribeAll, UnsubscribeEverything
  <1>2. PhasesAgree'
    <2>a. CASE Enter
      BY <2>a DEF IInv, PhasesAgree, Reconnects, Phases, Goes, Enter
    <2>b. CASE ConnectFails
      BY <2>b DEF IInv, PhasesAgree, Reconnects, Phases, Goes, ConnectFails
    <2>c. CASE Connected
      BY <2>c DEF IInv, PhasesAgree, Reconnects, Phases, Goes, Connected
    <2>d. CASE AppAuthenticated
      BY <2>d DEF IInv, PhasesAgree, Reconnects, Phases, Goes, AppAuthenticated
    <2>e. CASE AppAuthFails
      BY <2>e DEF IInv, PhasesAgree, Reconnects, Phases, Goes, AppAuthFails
    <2>2. CASE Opened
      BY <2>2 DEF IInv, PhasesAgree, Reconnects, Phases, Goes, Opened, RouterStart
    <2>3. CASE \E m \in Monitors : Serve(m)
      BY <2>3 DEF IInv, PhasesAgree, Reconnects, Serve
    <2>4. CASE \E m \in Monitors : MonitorDies(m)
      <3>1. WindsDown /\ phase \in {"starting", "open"} /\ monitors' = {} /\ up' = up
        BY <2>4 DEF MonitorDies
      <3> QED
        BY <1>1, <3>1, WindsDownParts DEF IInv, PhasesAgree, Reconnects, Phases
    <2>5. CASE MonitorsEnd
      BY <2>5 DEF IInv, PhasesAgree, Reconnects, MonitorsEnd
    <2>6. CASE Leave
      <3>1. WindsDown /\ phase = "open" /\ monitors' = monitors /\ up' = up
        BY <2>6 DEF Leave
      <3> QED
        BY <1>1, <3>1, WindsDownParts DEF IInv, PhasesAgree, Reconnects, Phases
    <2>7. CASE Registers
      BY <2>7 DEF IInv, PhasesAgree, Reconnects, Registers, Subscribe, Unsubscribe, UnsubscribeAll, UnsubscribeEverything
    <2> QED
      BY <2>a, <2>b, <2>c, <2>d, <2>e, <2>2, <2>3, <2>4, <2>5, <2>6, <2>7
  <1>3. ListsAgree'
    <2>1. CASE Registers
      BY <2>1, RegistersKeep DEF IInv
    <2>2. CASE ~Registers
      BY <2>2, ListsStay DEF IInv, Enter, ConnectFails, Connected, AppAuthenticated, AppAuthFails, Opened, Serve,
                             MonitorDies, MonitorsEnd, Leave
    <2> QED
      BY <2>1, <2>2
  <1> QED
    BY <1>1, <1>2, <1>3, QuietStep

\* The protocol ends: the handlers go, and the call that waits is woken.
LEMMA EndStep ==
    ASSUME IInv, ProtocolFails \/ Closed
    PROVE  IInv'
  <1>1. /\ up' = FALSE /\ jobs' = {} /\ wire' = <<>> /\ inbox' = <<>>
        /\ call' = None \/ (call # None /\ call' = [call EXCEPT !.slot = Gone])
    BY DEF ProtocolFails, Closed, ProtocolEnds
  <1>2. call' # None => /\ call' = [by |-> call'.by, n |-> call'.n, op |-> call'.op,
                                    slot |-> call'.slot, did |-> call'.did]
                        /\ call'.slot = Gone
    BY <1>1 DEF IInv, ShapesAgree
  <1>3. Gone # None
    BY NoneAssumption DEF Gone
  <1>4. PhasesAgree'
    <2>1. CASE ProtocolFails
      <3>1. WindsDown /\ phase \in {"authing", "starting", "open"} /\ monitors' = monitors
        BY <2>1 DEF ProtocolFails
      <3> QED
        BY <1>1, <1>2, <1>3, <3>1, WindsDownParts DEF IInv, PhasesAgree, Phases
    <2>2. CASE Closed
      BY <1>1, <1>2, <1>3, <2>2 DEF IInv, PhasesAgree, Reconnects, Phases, Goes, Closed
    <2> QED
      BY <2>1, <2>2
  <1>5. ShapesAgree'
    BY <1>1, <1>2, EmptySeq DEF ShapesAgree
  <1>6. SerialsAgree' /\ JobsAgree' /\ HandledOnce'
    BY <1>1 DEF SerialsAgree, JobsAgree, HandledOnce
  <1>7. AnswersAgree'
    BY <1>1, <1>2 DEF AnswersAgree
  <1> QED
    BY <1>4, <1>5, <1>6, <1>7, ListsStay DEF IInv, ProtocolFails, Closed

\* The protocol stops under the client: what was under way is lost, and the
\* call that waits is woken.
LEMMA StopStep == ASSUME IInv, ProtocolStops PROVE IInv'
  <1> USE DEF eventVars
  <1>1. /\ up' = FALSE /\ wire' = <<>> /\ inbox' = <<>> /\ UNCHANGED <<scenario, phase, monitors, eventVars>>
        /\ ~Reconnects /\ phase \in {"authing", "starting", "open"}
        /\ call' = None \/ (call # None /\ call' = [call EXCEPT !.slot = Gone])
    BY DEF ProtocolStops
  <1>2. call' # None => /\ call' = [by |-> call'.by, n |-> call'.n, op |-> call'.op,
                                    slot |-> call'.slot, did |-> call'.did]
                        /\ call'.slot = Gone
    BY <1>1 DEF IInv, ShapesAgree
  <1>3. Gone # None
    BY NoneAssumption DEF Gone
  <1>4. PhasesAgree'
    BY <1>1, <1>2, <1>3 DEF IInv, PhasesAgree, Reconnects
  <1>5. ShapesAgree'
    BY <1>1, <1>2, EmptySeq DEF ShapesAgree
  <1>6. SerialsAgree' /\ JobsAgree' /\ HandledOnce'
    BY <1>1 DEF IInv, SerialsAgree, JobsAgree, HandledOnce
  <1>7. AnswersAgree'
    BY <1>1, <1>2 DEF AnswersAgree
  <1> QED
    BY <1>1, <1>4, <1>5, <1>6, <1>7, ListsStay DEF IInv

\* The link is replaced: what was under way is lost.
LEMMA LinkStep == ASSUME IInv, LinkReplaced PROVE IInv'
  <1> USE DEF tradeVars, eventVars, clientVars
  <1>1. PhasesAgree' /\ JobsAgree' /\ HandledOnce'
    BY DEF IInv, PhasesAgree, Reconnects, JobsAgree, HandledOnce, LinkReplaced
  <1>2. ShapesAgree'
    BY EmptySeq DEF IInv, ShapesAgree, LinkReplaced
  <1>3. SerialsAgree'
    BY DEF SerialsAgree, LinkReplaced
  <1>4. AnswersAgree'
    BY DEF IInv, AnswersAgree, LinkReplaced, Tells
  <1>5. ListsAgree'
    BY ListsStay DEF IInv, LinkReplaced
  <1> QED
    BY <1>1, <1>2, <1>3, <1>4, <1>5 DEF IInv

\* A call begins: its request goes to the server with an id of its own.
LEMMA SendKeeps ==
    ASSUME IInv, up, NEW by, NEW op, NEW req, NEW fact, Send(by, op, req, fact),
           UNCHANGED <<eventVars, clientVars>>
    PROVE  IInv'
  <1> USE DEF eventVars, clientVars
  <1>1. PICK n \in FreeIds :
          /\ call' = [by |-> by, n |-> n, op |-> op, slot |-> None, did |-> "nothing"]
          /\ inbox' = Append(inbox, [n |-> n, op |-> op, req |-> req, msg |-> ToProto(op, req), fact |-> fact])
    BY DEF Send
  <1>2. wire' = wire
    BY DEF Send
  <1>3. /\ \A i \in DOMAIN inbox : inbox[i].n # n
        /\ \A k \in DOMAIN wire : wire[k].n # n
    BY <1>1 DEF FreeIds
  <1>4. /\ inbox' \in Seq(Range(inbox'))
        /\ \A i \in DOMAIN inbox : i \in DOMAIN inbox' /\ inbox'[i] = inbox[i]
        /\ \A i \in DOMAIN inbox' \ DOMAIN inbox : i = Len(inbox) + 1 /\ inbox'[i].n = n /\ inbox'[i].op = op
    <2> DEFINE e == [n |-> n, op |-> op, req |-> req, msg |-> ToProto(op, req), fact |-> fact]
    <2>1. inbox \in Seq(Range(inbox)) /\ inbox' = Append(inbox, e)
      BY <1>1 DEF IInv, ShapesAgree
    <2>2. e.n = n /\ e.op = op
      OBVIOUS
    <2> HIDE DEF e
    <2> QED
      BY <2>1, <2>2, AppendParts
  <1>5. call'.n = n /\ call'.op = op /\ call'.slot = None
    BY <1>1
  <1>6. PhasesAgree' /\ SerialsAgree' /\ JobsAgree' /\ HandledOnce'
    BY <1>2 DEF IInv, PhasesAgree, Reconnects, SerialsAgree, JobsAgree, HandledOnce
  <1>7. ShapesAgree'
    BY <1>1, <1>2, <1>4 DEF IInv, ShapesAgree
  <1>8. AnswersAgree'
    <2>1. \A i, k \in DOMAIN inbox' : inbox'[i].n = inbox'[k].n => i = k
      BY <1>3, <1>4 DEF IInv, AnswersAgree
    <2>2. \A i \in DOMAIN inbox', k \in DOMAIN wire' : wire'[k].n # 0 => inbox'[i].n # wire'[k].n
      BY <1>2, <1>3, <1>4 DEF IInv, AnswersAgree
    <2>3. \A i \in DOMAIN inbox' : inbox'[i].n = call'.n => inbox'[i].op = call'.op /\ call'.slot = None
      BY <1>3, <1>4, <1>5
    <2>4. \A k \in DOMAIN wire' : wire'[k].n # call'.n
      BY <1>2, <1>3, <1>5
    <2> QED
      BY <1>5, <2>1, <2>2, <2>3, <2>4 DEF AnswersAgree
  <1> QED
    BY <1>6, <1>7, <1>8, ListsStay DEF IInv

LEMMA SendStep == ASSUME IInv, Ask \/ Examine PROVE IInv'
  <1>1. /\ UNCHANGED <<eventVars, clientVars>>
        /\ \E by, op, req, fact : Send(by, op, req, fact)
    BY DEF Ask, Examine, PlaceOrder, CancelOrder, ClosePosition, AmendOrder, AmendPosition, Read, Query
  <1>2. up
    BY DEF Ask, Examine, Data, IInv, PhasesAgree, Reconnects
  <1> QED
    BY <1>1, <1>2, SendKeeps

\* The call under way ends, with an answer or without.
LEMMA ResumeStep == ASSUME IInv, Resumes \/ TimesOut PROVE IInv'
  <1>1. call' = None /\ UNCHANGED <<inbox, wire, jobs, scenario, phase, monitors, up, disposers, regs, subscriptions>>
    BY DEF Resumes, TimesOut, Resume, Timeout, EndCall, eventVars, clientVars
  <1>2. PhasesAgree' /\ ShapesAgree' /\ SerialsAgree'
    BY <1>1 DEF IInv, PhasesAgree, Reconnects, ShapesAgree, SerialsAgree
  <1>3. JobsAgree' /\ HandledOnce' /\ AnswersAgree'
    BY <1>1 DEF IInv, JobsAgree, HandledOnce, AnswersAgree
  <1> QED
    BY <1>1, <1>2, <1>3, ListsStay DEF IInv

\* The reader takes the first message of the wire: an answer for the call that
\* waits, or an event for at most one new task.
LEMMA ReadStep == ASSUME IInv, ReadMessage PROVE IInv'
  <1> USE DEF clientVars
  <1>1. wire \in Seq(Range(wire)) /\ wire # <<>> /\ wire' = Tail(wire)
    BY DEF IInv, ShapesAgree, ReadMessage
  <1>2. /\ wire' \in Seq(Range(wire')) /\ 1 \in DOMAIN wire /\ Head(wire) = wire[1]
        /\ \A i \in DOMAIN wire' : i \in Nat \ {0} /\ i + 1 \in DOMAIN wire /\ wire'[i] = wire[i + 1]
    BY <1>1, TailParts, SeqParts
  <1>3. /\ up /\ UNCHANGED <<inbox, regs, disposers, phase, monitors, up>>
        /\ phase \notin {"closed", "connecting"}
    BY DEF IInv, PhasesAgree, Reconnects, ReadMessage
  <1>4. PhasesAgree' /\ ListsAgree'
    BY <1>3, ListsStay DEF IInv, PhasesAgree, Reconnects, ReadMessage
  <1>5. CASE Answers(Head(wire))
    <2>1. call # None /\ call' = [call EXCEPT !.slot = wire[1].body] /\ jobs' = jobs
          /\ wire[1].n # 0 /\ wire[1].n = call.n
      BY <1>2, <1>5 DEF ReadMessage, Answers
    <2>2. /\ call' = [by |-> call.by, n |-> call.n, op |-> call.op, slot |-> wire[1].body, did |-> call.did]
          /\ call'.n = call.n /\ call'.op = call.op /\ call'.did = call.did /\ call'.slot = wire[1].body
      BY <2>1 DEF IInv, ShapesAgree
    <2>3. ShapesAgree'
      BY <1>2, <1>3, <2>2 DEF IInv, ShapesAgree
    <2>4. SerialsAgree' /\ JobsAgree' /\ HandledOnce'
      BY <1>2, <2>1 DEF IInv, SerialsAgree, JobsAgree, HandledOnce
    <2>5. AnswersAgree'
      <3>1. \A i \in DOMAIN inbox : inbox[i].n # call.n
        BY <1>2, <2>1 DEF IInv, AnswersAgree
      <3>2. call.op \in Trades =>
              /\ \A k \in DOMAIN wire' : wire'[k].n # 0 /\ wire'[k].n = call.n => Tells(wire'[k].body, call.did)
              /\ Tells(wire[1].body, call.did)
        BY <1>2, <2>1 DEF IInv, AnswersAgree
      <3>3. /\ \A i, k \in DOMAIN inbox' : inbox'[i].n = inbox'[k].n => i = k
            /\ \A i \in DOMAIN inbox', k \in DOMAIN wire' : wire'[k].n # 0 => inbox'[i].n # wire'[k].n
        BY <1>2, <1>3 DEF IInv, AnswersAgree
      <3> QED
        BY <1>3, <2>2, <3>1, <3>2, <3>3 DEF AnswersAgree, Tells
    <2> QED
      BY <1>4, <2>3, <2>4, <2>5 DEF IInv
  <1>6. CASE ~Answers(Head(wire))
    <2>1. call' = call /\ Spawn(wire[1])
      BY <1>2, <1>6 DEF ReadMessage
    <2>2. \A k \in 1..regs : k = 1
      BY DEF IInv, PhasesAgree, Reconnects
    <2>3. /\ jobs \subseteq jobs'
          /\ \A j \in jobs' \ jobs : j = [sn |-> wire[1].sn, reg |-> 1, body |-> wire[1].body, at |-> "spawned",
                                          owed |-> {}, todo |-> {}, ran |-> {}]
      BY <2>1, <2>2 DEF Spawn
    <2>4. ShapesAgree'
      BY <1>2, <1>3, <2>1 DEF IInv, ShapesAgree
    <2>5. SerialsAgree'
      <3>1. \A i, k \in DOMAIN wire' : wire'[i].sn = wire'[k].sn => i = k
        BY <1>2 DEF IInv, SerialsAgree
      <3>2. \A j \in jobs' : j \in jobs \/ j.sn = wire[1].sn
        BY <2>3
      <3>3. \A j \in jobs', i \in DOMAIN wire' : j.sn # wire'[i].sn
        BY <1>2, <3>2 DEF IInv, SerialsAgree
      <3> QED
        BY <3>1, <3>3 DEF SerialsAgree
    <2>6. JobsAgree'
      <3>1. ASSUME NEW j \in jobs' \ jobs
            PROVE  /\ j = [sn |-> j.sn, reg |-> j.reg, body |-> j.body, at |-> j.at,
                           owed |-> j.owed, todo |-> j.todo, ran |-> j.ran]
                   /\ j.at = "spawned" /\ j.ran = {}
        BY <2>3
      <3> QED
        BY <2>3, <3>1 DEF IInv, JobsAgree
    <2>7. HandledOnce'
      <3>1. \A j \in jobs : j.sn # wire[1].sn
        BY <1>2 DEF IInv, SerialsAgree
      <3>2. \A j \in jobs' \ jobs : j.sn = wire[1].sn
        BY <2>3
      <3>3. \A j, k \in jobs' \ jobs : j = k
        BY <2>3
      <3> QED
        BY <3>1, <3>2, <3>3 DEF IInv, HandledOnce
    <2>8. AnswersAgree'
      <3>1. \A k \in DOMAIN wire' : \E i \in DOMAIN wire : wire'[k] = wire[i]
        BY <1>2
      <3> QED
        BY <1>3, <2>1, <3>1 DEF IInv, AnswersAgree, Tells
    <2> QED
      BY <1>4, <2>4, <2>5, <2>6, <2>7, <2>8 DEF IInv
  <1> QED
    BY <1>5, <1>6

\* The server sends what nobody asked for: a fill, or a message it pushes.
LEMMA PushKeeps ==
    ASSUME IInv, up, NEW bodies, Len(bodies) \in Nat, Sends(0, bodies, Busy),
           UNCHANGED <<call, inbox, eventVars, clientVars>>
    PROVE  IInv'
  <1> USE DEF eventVars, clientVars
  <1>1. /\ wire' \in Seq(Range(wire')) /\ SerialsAgree'
        /\ \A i \in DOMAIN wire : i \in DOMAIN wire' /\ wire'[i] = wire[i]
        /\ \A i \in DOMAIN wire' \ DOMAIN wire : wire'[i].n = 0
    BY SendsKeeps
  <1>2. PhasesAgree' /\ ShapesAgree' /\ JobsAgree' /\ HandledOnce'
    BY <1>1 DEF IInv, PhasesAgree, Reconnects, ShapesAgree, JobsAgree, HandledOnce
  <1>3. \A k \in DOMAIN wire' : wire'[k].n # 0 => k \in DOMAIN wire /\ wire'[k] = wire[k]
    BY <1>1
  <1>4. AnswersAgree'
    BY <1>3 DEF IInv, AnswersAgree, Tells
  <1> QED
    BY <1>1, <1>2, <1>4, ListsStay DEF IInv

\* The server deals with the oldest request.  It is the only one of its id, so
\* no message answered it before, and if the call that sent it still waits the
\* messages tell that call what was done.
LEMMA ActsKeeps ==
    ASSUME IInv, up, ServerActs(Busy), UNCHANGED <<eventVars, clientVars>>
    PROVE  IInv'
  <1> USE DEF eventVars, clientVars
  <1> DEFINE r == Head(inbox)
  <1>1. PICK a \in Replies(r) :
          /\ Sends(r.n, a.bodies, Busy)
          /\ call' = IF call # None /\ call.n = r.n THEN [call EXCEPT !.did = a.did] ELSE call
    BY DEF ServerActs
  <1>2. /\ Len(a.bodies) \in Nat
        /\ r.op \in Trades => \A i \in 1..Len(a.bodies) : Tells(a.bodies[i], a.did)
    BY RepliesTell
  <1>3. /\ wire' \in Seq(Range(wire')) /\ SerialsAgree'
        /\ \A i \in DOMAIN wire : i \in DOMAIN wire' /\ wire'[i] = wire[i]
        /\ \A i \in DOMAIN wire' \ DOMAIN wire :
             wire'[i].n = r.n /\ \E k \in 1..Len(a.bodies) : wire'[i].body = a.bodies[k]
    BY <1>1, <1>2, SendsKeeps
  <1>4. /\ inbox' \in Seq(Range(inbox')) /\ 1 \in DOMAIN inbox /\ r = inbox[1]
        /\ \A i \in DOMAIN inbox' : i \in Nat \ {0} /\ i + 1 \in DOMAIN inbox /\ inbox'[i] = inbox[i + 1]
    <2>1. inbox \in Seq(Range(inbox)) /\ inbox # <<>> /\ inbox' = Tail(inbox)
      BY DEF IInv, ShapesAgree, ServerActs
    <2> QED
      BY <2>1, TailParts, SeqParts
  <1> HIDE DEF r
  <1>7. \A i, k \in DOMAIN inbox' : inbox'[i].n = inbox'[k].n => i = k
    BY <1>4 DEF IInv, AnswersAgree
  <1>8. ASSUME NEW i \in DOMAIN inbox', NEW k \in DOMAIN wire', wire'[k].n # 0 PROVE inbox'[i].n # wire'[k].n
    <2>1. CASE k \in DOMAIN wire
      BY <1>3, <1>4, <1>8, <2>1 DEF IInv, AnswersAgree
    <2>2. CASE k \notin DOMAIN wire
      <3>1. wire'[k].n = inbox[1].n
        BY <1>3, <1>4, <2>2
      <3>2. inbox[i + 1].n # inbox[1].n
        BY <1>4 DEF IInv, AnswersAgree
      <3> QED
        BY <1>4, <3>1, <3>2
    <2> QED
      BY <2>1, <2>2
  <1>5. CASE call = None
    <2>1. call' = None
      BY <1>1, <1>5
    <2>2. PhasesAgree' /\ ShapesAgree' /\ JobsAgree' /\ HandledOnce'
      BY <1>3, <1>4, <2>1 DEF IInv, PhasesAgree, Reconnects, ShapesAgree, JobsAgree, HandledOnce
    <2> QED
      BY <1>3, <1>7, <1>8, <2>1, <2>2, ListsStay DEF IInv, AnswersAgree
  <1>6. CASE call # None
    <2>1. /\ call' = [by |-> call.by, n |-> call.n, op |-> call.op, slot |-> call.slot, did |-> call'.did]
          /\ call' # None => call'.n = call.n /\ call'.op = call.op /\ call'.slot = call.slot
          /\ call'.did = IF call.n = r.n THEN a.did ELSE call.did
      BY <1>1, <1>6 DEF IInv, ShapesAgree
    <2>2. PhasesAgree' /\ ShapesAgree' /\ JobsAgree' /\ HandledOnce'
      BY <1>3, <1>4, <2>1 DEF IInv, PhasesAgree, Reconnects, ShapesAgree, JobsAgree, HandledOnce
    <2>4. \A i \in DOMAIN inbox' : inbox'[i].n = call.n => inbox'[i].op = call.op /\ call.slot = None
      BY <1>4, <1>6 DEF IInv, AnswersAgree
    <2>5. ASSUME call.op \in Trades
          PROVE  /\ \A k \in DOMAIN wire' : wire'[k].n # 0 /\ wire'[k].n = call.n => Tells(wire'[k].body, call'.did)
                 /\ call.slot \notin {None, Gone} => Tells(call.slot, call'.did)
      <3>1. CASE call.n = r.n
        <4>1. r.op = call.op /\ call.slot = None
          BY <1>4, <1>6, <3>1 DEF IInv, AnswersAgree
        <4>2. \A k \in DOMAIN wire : wire[k].n # 0 => wire[k].n # call.n
          BY <1>4, <3>1 DEF IInv, AnswersAgree
        <4>3. \A k \in DOMAIN wire' : wire'[k].n # 0 /\ wire'[k].n = call.n => Tells(wire'[k].body, a.did)
          BY <1>2, <1>3, <2>5, <4>1, <4>2
        <4> QED
          BY <2>1, <3>1, <4>1, <4>3
      <3>2. CASE call.n # r.n
        <4>1. \A k \in DOMAIN wire' : wire'[k].n = call.n => k \in DOMAIN wire /\ wire'[k] = wire[k]
          BY <1>3, <3>2
        <4>2. call'.did = call.did
          BY <2>1, <3>2
        <4>3. \A k \in DOMAIN wire : wire[k].n # 0 /\ wire[k].n = call.n => Tells(wire[k].body, call.did)
          BY <1>6, <2>5 DEF IInv, AnswersAgree
        <4>4. call.slot \notin {None, Gone} => Tells(call.slot, call.did)
          BY <1>6, <2>5 DEF IInv, AnswersAgree
        <4> QED
          BY <4>1, <4>2, <4>3, <4>4
      <3> QED
        BY <3>1, <3>2
    <2>6. AnswersAgree'
      <3>1. Gone' = Gone
        BY DEF Gone
      <3> QED
        BY <1>7, <1>8, <2>1, <2>4, <2>5, <3>1 DEF AnswersAgree
    <2> QED
      BY <1>3, <2>2, <2>6, ListsStay DEF IInv
  <1> QED
    BY <1>5, <1>6

LEMMA ServerStep == ASSUME IInv, Server PROVE IInv'
  <1>1. up /\ UNCHANGED <<eventVars, clientVars>>
    BY DEF Server
  <1>2. CASE ServerActs(Busy)
    BY <1>1, <1>2, ActsKeeps
  <1>3. CASE \E body : Sends(0, <<body>>, Busy) /\ UNCHANGED <<call, inbox>>
    <2>1. PICK body : Sends(0, <<body>>, Busy) /\ UNCHANGED <<call, inbox>>
      BY <1>3
    <2>2. Len(<<body>>) \in Nat
      OBVIOUS
    <2> QED
      BY <1>1, <2>1, <2>2, PushKeeps
  <1> QED
    BY <1>2, <1>3 DEF Server, ServerFills, ServerPushes

\* Those whose filter matches an event are those it is owed to.
LEMMA OwedMatches ==
    ASSUME ListsAgree, NEW event PROVE Owed(event) = Matching(event)
  <1>1. ASSUME NEW c \in Classes, NEW s \in Range(subscriptions[c]) PROVE s \in Subs /\ Class[s] = c
    <2>1. subscriptions[c] \in Seq(Subs) /\ \E i \in DOMAIN subscriptions[c] : s = subscriptions[c][i]
      BY DEF ListsAgree, Range
    <2> QED
      BY <2>1, ElementOfSeq, LenProperties DEF ListsAgree
  <1>2. \A s : s \in Owed(event) => s \in Matching(event)
    BY <1>1 DEF Owed, Matching, Matches
  <1>3. \A s : s \in Matching(event) => s \in Owed(event)
    BY <1>1 DEF Owed, Matching, Matches
  <1> QED
    BY <1>2, <1>3

\* What changes in the record of a handler's task when it has told a
\* subscription; one field at a time, as the provers see it.
LEMMA DeliverParts ==
    ASSUME NEW j, NEW s,
           j = [sn |-> j.sn, reg |-> j.reg, body |-> j.body, at |-> j.at, owed |-> j.owed, todo |-> j.todo, ran |-> j.ran]
    PROVE  [j EXCEPT !.todo = @ \ {s}, !.ran = @ \cup {s}] =
             [sn |-> j.sn, reg |-> j.reg, body |-> j.body, at |-> j.at, owed |-> j.owed, todo |-> j.todo \ {s}, ran |-> j.ran \cup {s}]
  <1> DEFINE e1 == [j EXCEPT !.todo = @ \ {s}]
             e2 == [e1 EXCEPT !.ran = @ \cup {s}]
  <1>1. e1 = [sn |-> j.sn, reg |-> j.reg, body |-> j.body, at |-> j.at, owed |-> j.owed, todo |-> j.todo \ {s}, ran |-> j.ran]
    OBVIOUS
  <1> HIDE DEF e1
  <1>2. e2 = [sn |-> j.sn, reg |-> j.reg, body |-> j.body, at |-> j.at, owed |-> j.owed, todo |-> j.todo \ {s}, ran |-> j.ran \cup {s}]
    BY <1>1
  <1> HIDE DEF e2
  <1>3. [j EXCEPT !.todo = @ \ {s}, !.ran = @ \cup {s}] = e2
    BY DEF e1, e2
  <1> QED
    BY <1>2, <1>3

\* A handler's task that goes on stays the task of its message, and still
\* accounts for everyone that the event is owed to.
LEMMA TaskStep ==
    ASSUME IInv, NEW j \in jobs, Emit(j) \/ \E s \in j.todo : Deliver(j, s)
    PROVE  \E e : /\ jobs' = (jobs \ {j}) \cup {e}
                  /\ e = [sn |-> e.sn, reg |-> e.reg, body |-> e.body, at |-> e.at,
                          owed |-> e.owed, todo |-> e.todo, ran |-> e.ran]
                  /\ e.sn = j.sn /\ e.reg = j.reg /\ e.at = "emitting" /\ e.owed = e.todo \cup e.ran
                  /\ e.todo \subseteq j.todo \cup Subs
  <1>1. j = [sn |-> j.sn, reg |-> j.reg, body |-> j.body, at |-> j.at, owed |-> j.owed, todo |-> j.todo, ran |-> j.ran]
    BY DEF IInv, JobsAgree
  <1>2. CASE Emit(j)
    <2> DEFINE event == EventFor(j.body)
               matching == IF event = None THEN {} ELSE Matching(event)
               due == IF event = None THEN {} ELSE Owed(event)
               e == [j EXCEPT !.at = "emitting", !.body = None, !.todo = matching, !.owed = due]
    <2>1. j.at = "spawned" /\ jobs' = (jobs \ {j}) \cup {e}
      BY <1>2 DEF Emit
    <2>2. due = matching
      BY OwedMatches DEF IInv
    <2>3. j.ran = {}
      BY <2>1 DEF IInv, JobsAgree
    <2>6. matching \subseteq Subs
      BY DEF Matching
    <2> HIDE DEF matching, due
    <2>4. e = [sn |-> j.sn, reg |-> j.reg, body |-> None, at |-> "emitting",
               owed |-> due, todo |-> matching, ran |-> j.ran]
      <3> DEFINE e1 == [j EXCEPT !.at = "emitting"]
                 e2 == [e1 EXCEPT !.body = None]
                 e3 == [e2 EXCEPT !.todo = matching]
                 e4 == [e3 EXCEPT !.owed = due]
      <3>1. e1 = [sn |-> j.sn, reg |-> j.reg, body |-> j.body, at |-> "emitting", owed |-> j.owed, todo |-> j.todo, ran |-> j.ran]
        BY <1>1
      <3> HIDE DEF e1
      <3>2. e2 = [sn |-> j.sn, reg |-> j.reg, body |-> None, at |-> "emitting", owed |-> j.owed, todo |-> j.todo, ran |-> j.ran]
        BY <3>1
      <3> HIDE DEF e2
      <3>3. e3 = [sn |-> j.sn, reg |-> j.reg, body |-> None, at |-> "emitting", owed |-> j.owed, todo |-> matching, ran |-> j.ran]
        BY <3>2
      <3> HIDE DEF e3
      <3>4. e4 = [sn |-> j.sn, reg |-> j.reg, body |-> None, at |-> "emitting", owed |-> due, todo |-> matching, ran |-> j.ran]
        BY <3>3
      <3> HIDE DEF e4
      <3>5. e = e4
        BY DEF e1, e2, e3, e4
      <3> QED
        BY <3>4, <3>5
    <2> HIDE DEF e
    <2>5. /\ e = [sn |-> e.sn, reg |-> e.reg, body |-> e.body, at |-> e.at,
                  owed |-> e.owed, todo |-> e.todo, ran |-> e.ran]
          /\ e.sn = j.sn /\ e.reg = j.reg /\ e.at = "emitting"
          /\ e.owed = due /\ e.todo = matching /\ e.ran = j.ran
      BY <2>4
    <2> QED
      BY <2>1, <2>2, <2>3, <2>5, <2>6
  <1>3. CASE \E s \in j.todo : Deliver(j, s)
    <2>1. PICK s \in j.todo : Deliver(j, s)
      BY <1>3
    <2> DEFINE e == [j EXCEPT !.todo = @ \ {s}, !.ran = @ \cup {s}]
    <2>2. j.at = "emitting" /\ jobs' = (jobs \ {j}) \cup {e}
      BY <2>1 DEF Deliver
    <2>3. j.owed = j.todo \cup j.ran
      BY <2>2 DEF IInv, JobsAgree
    <2>4. e = [sn |-> j.sn, reg |-> j.reg, body |-> j.body, at |-> j.at,
               owed |-> j.owed, todo |-> j.todo \ {s}, ran |-> j.ran \cup {s}]
      BY <1>1, DeliverParts
    <2> HIDE DEF e
    <2>5. /\ e = [sn |-> e.sn, reg |-> e.reg, body |-> e.body, at |-> e.at,
                  owed |-> e.owed, todo |-> e.todo, ran |-> e.ran]
          /\ e.sn = j.sn /\ e.reg = j.reg /\ e.at = j.at
          /\ e.owed = j.owed /\ e.todo = j.todo \ {s} /\ e.ran = j.ran \cup {s}
      BY <2>4
    <2> QED
      BY <2>1, <2>2, <2>3, <2>5
  <1> QED
    BY <1>2, <1>3

\* A handler's task takes a step or ends.
LEMMA HandleStep == ASSUME IInv, Handles PROVE IInv'
  <1>1. UNCHANGED <<call, inbox, wire, scenario, phase, monitors, up, regs, disposers, subscriptions>>
    BY DEF Handles, Emit, Emitted, Deliver, DeliverRaises, tradeVars, clientVars
  <1>2. jobs # {}
    BY DEF Handles
  <1>3. PhasesAgree' /\ ShapesAgree' /\ AnswersAgree' /\ ListsAgree'
    BY <1>1, <1>2, ListsStay DEF IInv, PhasesAgree, Reconnects, ShapesAgree, AnswersAgree, Tells
  <1>4. CASE \E j \in jobs : Emitted(j)
    <2>1. jobs' \subseteq jobs
      BY <1>4 DEF Emitted
    <2> QED
      BY <1>1, <1>3, <2>1 DEF IInv, SerialsAgree, JobsAgree, HandledOnce
  <1>5. CASE \E j \in jobs : Emit(j) \/ \E s \in j.todo : Deliver(j, s)
    <2>1. PICK j \in jobs : Emit(j) \/ \E s \in j.todo : Deliver(j, s)
      BY <1>5
    <2>3. PICK e : /\ jobs' = (jobs \ {j}) \cup {e} /\ e.sn = j.sn
                   /\ e = [sn |-> e.sn, reg |-> e.reg, body |-> e.body, at |-> e.at,
                           owed |-> e.owed, todo |-> e.todo, ran |-> e.ran]
                   /\ e.at = "emitting" /\ e.owed = e.todo \cup e.ran
      BY <2>1, TaskStep
    <2>4. SerialsAgree'
      BY <1>1, <2>3 DEF IInv, SerialsAgree
    <2>5. JobsAgree'
      BY <2>3 DEF IInv, JobsAgree
    <2>6. HandledOnce'
      BY <2>3 DEF IInv, HandledOnce
    <2> QED
      BY <1>3, <2>4, <2>5, <2>6 DEF IInv
  <1> QED
    BY <1>4, <1>5 DEF Handles, DeliverRaises

LEMMA InitStep == Init => IInv
  <1> SUFFICES ASSUME Init PROVE IInv
    OBVIOUS
  <1>1. PhasesAgree
    BY DEF Init, PhasesAgree, Phases
  <1>2. ShapesAgree
    BY EmptySeq DEF Init, ShapesAgree
  <1>3. SerialsAgree /\ JobsAgree /\ HandledOnce /\ AnswersAgree
    BY DEF Init, SerialsAgree, JobsAgree, HandledOnce, AnswersAgree
  <1>4. ListsAgree
    BY EmptySeq DEF Init, ListsAgree, Nobody
  <1> QED
    BY <1>1, <1>2, <1>3, <1>4 DEF IInv

LEMMA Stutter == ASSUME IInv, UNCHANGED vars PROVE IInv'
  <1>1. UNCHANGED <<tradeVars, jobs>> /\ PhasesAgree' /\ ListsAgree'
    BY ListsStay DEF IInv, PhasesAgree, Reconnects, vars, eventVars, clientVars, tradeVars
  <1> QED
    BY <1>1, QuietStep

----------------------------------------------------------------------------
(* Types.                                                                  *)

\* What TypeOK says beyond the inductive invariant.
ValuesAgree ==
    /\ \A j \in jobs : j.sn \in Serials /\ j.todo \subseteq Subs /\ j.at \in {"spawned", "emitting"}
    /\ call # None => call.n \in Serials /\ call.op \in Trades \cup Reads \cup Queries
    /\ \A i \in DOMAIN wire : wire[i].sn \in Serials
    /\ book # None => book.what \in {"order", "position"}

\* The book that the server may have after a request is an order, a position
\* or nothing.
Held(b) == b.what \in {"order", "position", "none"}

LEMMA BookHeld == ASSUME ValuesAgree PROVE Held(Book)
  BY DEF ValuesAgree, Held, Book, Nothing

LEMMA AppliedHeld == ASSUME NEW r, NEW x \in Applied(r) PROVE Held(x[1])
  <1> USE DEF Held, Order, Position, Nothing
  <1>1. CASE r.op = "place" /\ Book.what = "none"
    BY <1>1 DEF Applied
  <1>2. CASE r.op = "amend" /\ Book.what = "order"
    BY <1>2 DEF Applied
  <1>3. CASE r.op = "cancel" /\ Book.what = "order"
    BY <1>3 DEF Applied
  <1>4. CASE r.op = "close" /\ Book.what = "position" /\ r.msg.volume <= Book.rec.volume
    BY <1>4 DEF Applied
  <1>5. CASE r.op = "amend_position" /\ Book.what = "position"
    BY <1>5 DEF Applied
  <1> QED
    BY <1>1, <1>2, <1>3, <1>4, <1>5 DEF Applied

LEMMA RepliesHeld == ASSUME ValuesAgree, NEW r, NEW a \in Replies(r) PROVE Held(a.book)
  <1>1. CASE a.book = Book
    BY <1>1, BookHeld
  <1>2. CASE \E x \in Applied(r) : a.book = x[1]
    BY <1>2, AppliedHeld
  <1> QED
    BY <1>1, <1>2 DEF Replies

LEMMA SetBookKeeps ==
    ASSUME NEW b, Held(b), SetBook(b) PROVE book' # None => book'.what \in {"order", "position"}
  BY DEF Held, SetBook

LEMMA ServerValues == ASSUME IInv, ValuesAgree, Server PROVE ValuesAgree'
  <1> USE DEF eventVars, clientVars
  <1>1. jobs' = jobs
    BY DEF Server
  <1>2. ASSUME NEW n, NEW bodies, Len(bodies) \in Nat, Sends(n, bodies, Busy)
        PROVE  \A i \in DOMAIN wire' : wire'[i].sn \in Serials
    <2>1. /\ \A i \in DOMAIN wire : i \in DOMAIN wire' /\ wire'[i] = wire[i]
          /\ \A i \in DOMAIN wire' \ DOMAIN wire : wire'[i].sn \in Serials
      BY <1>1, <1>2, SendsKeeps
    <2> QED
      BY <2>1 DEF ValuesAgree
  <1>3. CASE ServerActs(Busy)
    <2>1. PICK a \in Replies(Head(inbox)) :
            /\ Sends(Head(inbox).n, a.bodies, Busy)
            /\ SetBook(a.book)
            /\ call' = IF call # None /\ call.n = Head(inbox).n THEN [call EXCEPT !.did = a.did] ELSE call
      BY <1>3 DEF ServerActs
    <2>2. \A i \in DOMAIN wire' : wire'[i].sn \in Serials
      BY <1>2, <2>1, RepliesTell
    <2>3. book' # None => book'.what \in {"order", "position"}
      BY <2>1, RepliesHeld, SetBookKeeps
    <2>4. call' # None => call # None /\ call'.n = call.n /\ call'.op = call.op
      BY <2>1 DEF IInv, ShapesAgree
    <2> QED
      BY <1>1, <2>2, <2>3, <2>4 DEF ValuesAgree
  <1>4. CASE ServerFills(Busy)
    <2>1. /\ SetBook(Position(PositionFor(book.rec), AskedPosition(asked)))
          /\ Sends(0, <<Execution(3)>>, Busy) /\ call' = call
      BY <1>4 DEF ServerFills
    <2>2. \A i \in DOMAIN wire' : wire'[i].sn \in Serials
      <3>1. Len(<<Execution(3)>>) \in Nat
        OBVIOUS
      <3> QED
        BY <1>2, <2>1, <3>1
    <2>3. book' # None => book'.what \in {"order", "position"}
      BY <2>1, SetBookKeeps DEF Held, Position
    <2> QED
      BY <1>1, <2>1, <2>2, <2>3 DEF ValuesAgree
  <1>5. CASE \E body \in Pushes : ServerPushes(body, Busy)
    <2>1. PICK body : Sends(0, <<body>>, Busy) /\ call' = call /\ book' = book
      BY <1>5 DEF ServerPushes
    <2>2. \A i \in DOMAIN wire' : wire'[i].sn \in Serials
      <3>1. Len(<<body>>) \in Nat
        OBVIOUS
      <3> QED
        BY <1>2, <2>1, <3>1
    <2> QED
      BY <1>1, <2>1, <2>2 DEF ValuesAgree
  <1> QED
    BY <1>3, <1>4, <1>5 DEF Server

LEMMA SendValues == ASSUME ValuesAgree, Ask \/ Examine PROVE ValuesAgree'
  <1>1. /\ UNCHANGED <<wire, book, jobs>>
        /\ \E by, req, fact : \E op \in Trades \cup Reads \cup Queries : Send(by, op, req, fact)
    BY DEF Ask, Examine, PlaceOrder, CancelOrder, ClosePosition, AmendOrder, AmendPosition, Read, Query, Send,
           Trades, eventVars
  <1>2. call'.n \in Serials /\ call'.op \in Trades \cup Reads \cup Queries
    BY <1>1 DEF Send, FreeIds
  <1> QED
    BY <1>1, <1>2 DEF ValuesAgree

LEMMA ReadValues == ASSUME IInv, ValuesAgree, ReadMessage PROVE ValuesAgree'
  <1>1. wire \in Seq(Range(wire)) /\ wire # <<>> /\ wire' = Tail(wire) /\ book' = book
    BY DEF IInv, ShapesAgree, ReadMessage
  <1>2. /\ 1 \in DOMAIN wire /\ Head(wire) = wire[1]
        /\ \A i \in DOMAIN wire' : i + 1 \in DOMAIN wire /\ wire'[i] = wire[i + 1]
    BY <1>1, TailParts
  <1>3. \A i \in DOMAIN wire' : wire'[i].sn \in Serials
    BY <1>2 DEF ValuesAgree
  <1>4. call' # None => call # None /\ call'.n = call.n /\ call'.op = call.op
    BY DEF ReadMessage, Answers, IInv, ShapesAgree
  <1>5. \A j \in jobs' : j \in jobs \/ (j.sn = wire[1].sn /\ j.todo = {} /\ j.at = "spawned")
    BY <1>2 DEF ReadMessage, Spawn
  <1> QED
    BY <1>1, <1>2, <1>3, <1>4, <1>5 DEF ValuesAgree

LEMMA HandleValues == ASSUME IInv, ValuesAgree, Handles PROVE ValuesAgree'
  <1>1. UNCHANGED <<call, wire, book>>
    BY DEF Handles, tradeVars
  <1>2. CASE \E j \in jobs : Emitted(j)
    BY <1>1, <1>2 DEF ValuesAgree, Emitted
  <1>3. CASE \E j \in jobs : Emit(j) \/ \E s \in j.todo : Deliver(j, s)
    <2>1. PICK j \in jobs : Emit(j) \/ \E s \in j.todo : Deliver(j, s)
      BY <1>3
    <2>2. PICK e : /\ jobs' = (jobs \ {j}) \cup {e} /\ e.sn = j.sn /\ e.at = "emitting"
                   /\ e.todo \subseteq Subs
      BY <2>1, TaskStep DEF ValuesAgree
    <2> QED
      BY <1>1, <2>2 DEF ValuesAgree
  <1> QED
    BY <1>2, <1>3 DEF Handles, DeliverRaises

\* No step leaves the types.
LEMMA ValuesStep == ASSUME IInv, ValuesAgree, Next PROVE ValuesAgree'
  <1> USE DEF tradeVars, eventVars, clientVars
  <1>1. CASE ProtocolFails \/ Closed \/ ProtocolStops
    <2>1. /\ jobs' \in {{}, jobs} /\ wire' = <<>> /\ book' = book
          /\ call' = None \/ (call # None /\ call' = [call EXCEPT !.slot = Gone])
      BY <1>1 DEF ProtocolFails, Closed, ProtocolEnds, ProtocolStops
    <2>2. call' # None => call # None /\ call'.n = call.n /\ call'.op = call.op
      BY <2>1 DEF IInv, ShapesAgree
    <2> QED
      BY <2>1, <2>2 DEF ValuesAgree
  <1>2. CASE LinkReplaced
    BY <1>2 DEF ValuesAgree, LinkReplaced
  <1>3. CASE Resumes \/ TimesOut
    BY <1>3 DEF ValuesAgree, Resumes, TimesOut, Resume, Timeout, EndCall
  <1>4. CASE UNCHANGED <<tradeVars, jobs>>
    BY <1>4 DEF ValuesAgree
  <1>5. \/ ProtocolFails \/ Closed \/ ProtocolStops \/ LinkReplaced \/ Resumes \/ TimesOut \/ Server \/ Ask \/ Examine
        \/ ReadMessage \/ Handles \/ UNCHANGED <<tradeVars, jobs>>
    BY DEF Next, Enter, ConnectFails, Connected, AppAuthenticated, AppAuthFails, Opened, Serve, MonitorDies,
           MonitorsEnd, Leave, Registers, Subscribe, Unsubscribe, UnsubscribeAll, UnsubscribeEverything
  <1> QED
    BY <1>1, <1>2, <1>3, <1>4, <1>5, ServerValues, SendValues, ReadValues, HandleValues

\* The scenario is chosen at the start.
LEMMA ScenarioStays == ASSUME Next PROVE scenario' = scenario
  BY DEF Next, Enter, ConnectFails, Connected, AppAuthenticated, AppAuthFails, Opened, Serve, MonitorDies,
         MonitorsEnd, ProtocolFails, ProtocolStops, Leave, Closed, WindsDown, Goes, ReadMessage, LinkReplaced, Server, Ask,
         Examine, Resumes, TimesOut, Registers, Handles, clientVars

----------------------------------------------------------------------------
(* The theorems.                                                           *)

\* In every reachable state the phase of entering or leaving the client, the
\* messages and requests under way, the call that waits and the tasks of the
\* handlers agree with each other (__aenter__, __aexit__, send_request,
\* _dispatch_message, _dispatch_event, emit).
THEOREM Inductive == Spec => []IInv
  <1>1. ASSUME IInv, Next PROVE IInv'
    BY <1>1, LifeStep, EndStep, StopStep, LinkStep, ReadStep, ServerStep, SendStep, ResumeStep, HandleStep DEF Next
  <1>2. IInv /\ [Next]_vars => IInv'
    BY <1>1, Stutter
  <1> QED
    BY InitStep, <1>2, PTL DEF Spec

\* Every reachable state is well typed: the phases and monitors of the client,
\* the emitter's lists, the tasks of the handlers, the call under way, the
\* messages and the server's book.
THEOREM TypeCorrect == Spec => []TypeOK
  <1> DEFINE TInv == scenario \in Scenarios /\ ValuesAgree
  <1>1. Init => TInv
    BY DEF Init, ValuesAgree
  <1>2. IInv /\ TInv /\ [Next]_vars => TInv'
    <2>1. ASSUME IInv, TInv, Next PROVE TInv'
      BY <2>1, ValuesStep, ScenarioStays
    <2>2. ASSUME TInv, UNCHANGED vars PROVE TInv'
      BY <2>2 DEF ValuesAgree, vars, tradeVars, eventVars, clientVars
    <2> QED
      BY <2>1, <2>2
  <1>3. IInv /\ TInv => TypeOK
    BY DEF IInv, PhasesAgree, Reconnects, ListsAgree, ValuesAgree, TypeOK
  <1> HIDE DEF TInv
  <1> QED
    BY Inductive, <1>1, <1>2, <1>3, PTL DEF Spec

\* An open client has its monitors, its router and, unless reconnecting is
\* disabled, a protocol that runs; a closed one has left nothing behind; and a
\* protocol that stopped leaves no call waiting, for any monitors that die and
\* any handlers and calls that are at work (_lifecycle, __aenter__, __aexit__,
\* Protocol.serve, _abandon).
THEOREM ServedOrQuietHolds == Spec => []ServedOrQuiet
  <1>1. IInv => ServedOrQuiet
    BY DEF IInv, PhasesAgree, Reconnects, ServedOrQuiet
  <1> QED
    BY Inductive, <1>1, PTL

\* No message is handled by two tasks, however often the client was opened and
\* closed before (router.start, router.stop, _dispatch_event).
THEOREM HandledOnceHolds == Spec => []HandledOnce
  <1>1. IInv => HandledOnce
    BY DEF IInv
  <1> QED
    BY Inductive, <1>1, PTL

\* A trade call never tells the application the opposite of what the server
\* did with its request, for any orders, late answers, second messages and
\* timeouts (_execute_trade, _raise_if_order_error, _dispatch_message).
THEOREM AnswerIsHonestHolds == Spec => []AnswerIsHonest
  <1>1. IInv => AnswerIsHonest
    <2> SUFFICES ASSUME IInv, call # None, call.slot # None, call.op \in Trades
                 PROVE  LET end == Outcome(call.op, call.slot)
                        IN /\ end.out \in {"order_error", "api", "unexpected"} => call.did = "refused"
                           /\ end.out = "execution" => (call.did = "applied") = (end.val.type # 7)
                           /\ end.out = "unknown_type" => call.did = "applied"
      BY DEF AnswerIsHonest
    <2>1. Tells(call.slot, call.did) \/ call.slot = Gone
      BY DEF IInv, AnswersAgree
    <2> QED
      BY <2>1, OutcomeHonest
  <1> QED
    BY Inductive, <1>1, PTL

\* The task of an event ends on its own only when every subscription that asked
\* for the event when it was emitted has had it, and no other, for any
\* subscriptions, filters and handlers that raise (emit, _deliver).
THEOREM ToldInFullHolds == Spec => ToldInFull
  <1> DEFINE A == \A j \in jobs : (\A k \in jobs' : k.sn # j.sn \/ k.reg # j.reg) =>
                    \/ j.at = "emitting" /\ j.ran = j.owed
                    \/ Closed \/ ProtocolFails
  <1>1. ASSUME IInv, Next PROVE A
    <2>1. CASE jobs \subseteq jobs' \/ Closed \/ ProtocolFails
      BY <2>1
    <2>2. CASE \E j \in jobs : Emitted(j)
      <3>1. PICK j \in jobs : Emitted(j)
        BY <2>2
      <3>2. jobs' = jobs \ {j} /\ j.at = "emitting" /\ j.ran = j.owed
        BY <1>1, <3>1 DEF IInv, JobsAgree, Emitted
      <3> QED
        BY <3>2
    <2>3. CASE \E j \in jobs : Emit(j) \/ \E s \in j.todo : Deliver(j, s)
      <3>1. PICK j \in jobs : Emit(j) \/ \E s \in j.todo : Deliver(j, s)
        BY <2>3
      <3>3. \E e : jobs' = (jobs \ {j}) \cup {e} /\ e.sn = j.sn /\ e.reg = j.reg
        BY <1>1, <3>1, TaskStep
      <3> QED
        BY <3>3
    <2>4. CASE ReadMessage
      BY <2>4, <2>1 DEF ReadMessage, Spawn
    <2>5. CASE ProtocolFails \/ Closed
      BY <2>5, <2>1
    <2>6. CASE Handles
      BY <2>6, <2>2, <2>3 DEF Handles, DeliverRaises
    <2>7. CASE jobs' = jobs
      BY <2>7, <2>1
    <2>8. ReadMessage \/ ProtocolFails \/ Closed \/ Handles \/ jobs' = jobs
      BY <1>1 DEF Next, Enter, ConnectFails, Connected, AppAuthenticated, AppAuthFails, Opened, Serve, MonitorDies,
                  MonitorsEnd, ProtocolStops, Leave, LinkReplaced, Server, Ask, Examine, Resumes, TimesOut, Registers,
                  Subscribe, Unsubscribe, UnsubscribeAll, UnsubscribeEverything, eventVars
    <2> QED
      BY <2>4, <2>5, <2>6, <2>7, <2>8
  <1>2. IInv /\ [Next]_vars => [A]_vars
    BY <1>1
  <1> QED
    BY Inductive, <1>2, PTL DEF Spec, ToldInFull
=============================================================================
