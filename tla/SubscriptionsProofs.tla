------------------------- MODULE SubscriptionsProofs -------------------------
(***************************************************************************)
(* Proofs about the standing subscriptions, for any symbols and periods,   *)
(* any number of callers and of restores at a time, and any amount of      *)
(* trouble.                                                                *)
(***************************************************************************)
EXTENDS Subscriptions, TLAPS

----------------------------------------------------------------------------
(* The inductive invariant.                                                *)

\* A task inside a call awaits an answer; a restore awaits one exactly while
\* it is under way, always to a subscription, and holds on to a forgotten
\* record only until it returns.
CallsAgree ==
    /\ \A t \in Tasks : call[t] # NoCall => call[t].op \in {"subscribe", "unsubscribe"}
    /\ \A r \in Restores : stage[r] # "idle" <=> call[r] # NoCall
    /\ \A r \in Restores : stage[r] # "idle" => call[r].op = "subscribe"
    /\ \A r \in apart : stage[r] # "idle"

\* Restore r works on the session that is there now.
Active(r) == stage[r] # "idle" /\ r \notin lost

\* At most one restore works on a session, and none without one: the others
\* have outlived theirs.
OneRestore ==
    /\ \A r \in Restores : Active(r) => up
    /\ \A r, q \in Restores : Active(r) /\ Active(q) => r = q

\* The feeds of one kind that are recorded and not live.
Missing(kind) == Of(kind, standing \ subs)

\* What is recorded and not live is what the restore at work has yet to ask
\* for, whatever was subscribed and unsubscribed in the meantime.
RestoreCovers ==
    \A r \in Restores : Active(r) /\ ~strayed =>
        /\ r \notin apart
        /\ stage[r] = "spots" => Missing("spots") \subseteq call[r].topics
        /\ stage[r] = "bars"  => /\ Missing("spots") = {}
                                 /\ Missing("bars") \subseteq call[r].topics \cup left[r]
        /\ stage[r] = "depth" => /\ Missing("spots") = {} /\ Missing("bars") = {}
                                 /\ Missing("depth") \subseteq call[r].topics

IInv ==
    /\ TypeOK
    /\ CallsAgree
    /\ OneRestore
    /\ RestoreCovers
    /\ FeedMatchesIntent

----------------------------------------------------------------------------
(* What the parts of the actions do.                                       *)

CallType == [op : {"none", "subscribe", "unsubscribe"}, topics : SUBSET Topic]

LEMMA TroubleType ==
    ASSUME TypeOK, Trouble \/ UNCHANGED trouble
    PROVE  trouble' \in 0..MaxTrouble
  BY TroubleAssumption DEF TypeOK, Trouble

\* The feeds are of three kinds, and Of picks those of one.
LEMMA Kinds ==
    ASSUME NEW S \in SUBSET Topic
    PROVE  /\ \A kind : Of(kind, S) \in SUBSET Topic
           /\ Of("spots", S) = {} /\ Of("bars", S) = {} /\ Of("depth", S) = {} => S = {}
  BY DEF Topic, Of

\* Task t awaits the answer to c, or none, and nothing changes for the others.
LEMMA AskKeeps ==
    ASSUME TypeOK, NEW t \in Tasks, NEW c \in CallType, NEW alive \in BOOLEAN, Ask(t, c, alive)
    PROVE  /\ call' \in [Tasks -> CallType] /\ lost' \in SUBSET Tasks
           /\ call'[t] = c /\ \A s \in Tasks : s # t => call'[s] = call[s]
           /\ alive => t \notin lost'
           /\ \A s \in Tasks : s # t => (s \in lost' <=> s \in lost)
  BY DEF TypeOK, CallType, Ask

\* The request of task t ends.  Unless the server acted on it behind the
\* client's back, the record and the feeds change together: no feed gets
\* ahead of the record, and none falls behind it.
LEMMA AnswerKeeps ==
    ASSUME TypeOK, CallsAgree, NEW t \in Tasks, call[t] # NoCall, Accepted(t) \/ Rejected(t)
    PROVE  /\ subs' \in SUBSET Topic /\ standing' \in SUBSET Topic
           /\ strayed' \in BOOLEAN /\ trouble' \in 0..MaxTrouble
           /\ strayed => strayed'
           /\ ~strayed' => standing' \ subs' \subseteq standing \ subs
           /\ ~strayed' /\ subs \subseteq standing => subs' \subseteq standing'
           /\ ~strayed' /\ subs = standing => subs' = standing'
           /\ Accepted(t) /\ call[t].op = "subscribe" => call[t].topics \subseteq subs'
           /\ \A x \in standing \ standing' : up /\ x \in subs /\ x \notin subs'
  <1>1. call[t].op \in {"subscribe", "unsubscribe"} /\ call[t].topics \in SUBSET Topic
    BY DEF TypeOK, CallsAgree
  <1>2. trouble' \in 0..MaxTrouble
    BY TroubleType DEF Accepted, Rejected
  <1>3. CASE Accepted(t)
    <2>1. /\ up /\ UNCHANGED strayed
          /\ call[t].op = "unsubscribe" => call[t].topics \subseteq subs
      BY <1>3 DEF Accepted, Allows
    <2>2. CASE call[t].op = "subscribe"
      <3>1. subs' = subs \cup call[t].topics /\ standing' = standing \cup call[t].topics
        BY <1>3, <2>2 DEF Accepted, Serve, Record
      <3> QED
        BY <1>1, <1>2, <2>1, <2>2, <3>1 DEF TypeOK
    <2>3. CASE call[t].op = "unsubscribe"
      <3>1. subs' = subs \ call[t].topics /\ standing' = standing \ call[t].topics
        BY <1>3, <2>3 DEF Accepted, Serve, Record
      <3> QED
        BY <1>1, <1>2, <2>1, <2>3, <3>1 DEF TypeOK
    <2> QED
      BY <1>1, <2>2, <2>3
  <1>4. CASE Rejected(t) /\ ~Accepted(t)
    <2>1. UNCHANGED standing /\ (UNCHANGED <<subs, strayed>> \/ (Serve(call[t]) /\ strayed' = TRUE))
      BY <1>4 DEF Rejected
    <2>2. subs' \in SUBSET Topic
      BY <1>1, <2>1 DEF TypeOK, Serve
    <2> QED
      BY <1>2, <1>4, <2>1, <2>2 DEF TypeOK
  <1> QED
    BY <1>3, <1>4

\* What is missing shrinks with what is recorded and not live.
LEMMA MissingShrinks ==
    ASSUME standing' \ subs' \subseteq standing \ subs, NEW kind
    PROVE  Missing(kind)' \subseteq Missing(kind)
  BY DEF Missing, Of

\* What restore r asks for next when its record is S and it has been through
\* stage s: nothing that S holds is passed over.
Onward(r, s, S, T) ==
    LET bars == IF s \in {"start", "spots"} THEN Of("bars", S) ELSE T IN
    \/ /\ stage'[r] = "spots" /\ s = "start"
       /\ call'[r] = [op |-> "subscribe", topics |-> Of("spots", S)]
    \/ /\ stage'[r] = "bars" /\ s # "depth" /\ (s = "start" => Of("spots", S) = {})
       /\ call'[r].op = "subscribe" /\ bars = call'[r].topics \cup left'[r]
    \/ /\ stage'[r] = "depth" /\ s # "depth" /\ (s = "start" => Of("spots", S) = {})
       /\ bars = {} /\ call'[r] = [op |-> "subscribe", topics |-> Of("depth", S)]
    \/ /\ stage'[r] = "idle" /\ call'[r] = NoCall /\ (s = "start" => Of("spots", S) = {})
       /\ s # "depth" => bars = {} /\ Of("depth", S) = {}

LEMMA ProceedKeeps ==
    ASSUME TypeOK, NEW r \in Restores, NEW s \in {"start", "spots", "bars", "depth"},
           NEW S \in SUBSET Topic, NEW T \in SUBSET Topic, Proceed(r, s, S, T)
    PROVE  /\ stage' \in [Restores -> {"idle", "spots", "bars", "depth"}]
           /\ left' \in [Restores -> SUBSET Topic] /\ view' \in [Restores -> SUBSET Topic]
           /\ call' \in [Tasks -> CallType] /\ lost' \in SUBSET Tasks
           /\ \A q \in Restores : q # r => stage'[q] = stage[q] /\ left'[q] = left[q]
           /\ \A t \in Tasks : t # r => call'[t] = call[t] /\ (t \in lost' <=> t \in lost)
           /\ r \notin lost'
           /\ apart' \in SUBSET apart /\ (stage'[r] = "idle" => r \notin apart')
           /\ ready' \in {"no", "restored"} /\ (stage'[r] # "idle" => ready' = "no")
           /\ Onward(r, s, S, T)
  <1> DEFINE bars == IF s \in {"start", "spots"} THEN Of("bars", S) ELSE T
  <1>0. r \in Tasks /\ bars \in SUBSET Topic
    BY Kinds DEF Tasks
  <1>1. ASSUME NEW st \in {"spots", "bars", "depth"}, NEW topics \in SUBSET Topic, NEW rest \in SUBSET Topic,
               Sends(r, st, topics, rest)
        PROVE  /\ stage' \in [Restores -> {"idle", "spots", "bars", "depth"}]
               /\ left' \in [Restores -> SUBSET Topic] /\ view' \in [Restores -> SUBSET Topic]
               /\ call' \in [Tasks -> CallType] /\ lost' \in SUBSET Tasks
               /\ \A q \in Restores : q # r => stage'[q] = stage[q] /\ left'[q] = left[q]
               /\ \A t \in Tasks : t # r => call'[t] = call[t] /\ (t \in lost' <=> t \in lost)
               /\ r \notin lost' /\ UNCHANGED apart
               /\ stage'[r] = st /\ left'[r] = rest /\ call'[r] = [op |-> "subscribe", topics |-> topics]
    <2>1. [op |-> "subscribe", topics |-> topics] \in CallType
      BY DEF CallType
    <2>2. Ask(r, [op |-> "subscribe", topics |-> topics], TRUE)
      BY <1>1 DEF Sends
    <2>3. /\ call' \in [Tasks -> CallType] /\ lost' \in SUBSET Tasks
          /\ call'[r] = [op |-> "subscribe", topics |-> topics]
          /\ \A t \in Tasks : t # r => call'[t] = call[t] /\ (t \in lost' <=> t \in lost)
          /\ r \notin lost'
      BY <1>0, <2>1, <2>2, AskKeeps
    <2> QED
      BY <1>1, <2>3 DEF Sends, TypeOK
  <1>2. CASE s = "start" /\ Of("spots", S) # {} /\ Sends(r, "spots", Of("spots", S), {}) /\ ready' = "no"
    BY <1>1, <1>2, Kinds DEF Onward
  <1>3. CASE /\ s # "depth" /\ bars # {} /\ (s = "start" => Of("spots", S) = {}) /\ ready' = "no"
             /\ \E b \in bars : Sends(r, "bars", {b}, bars \ {b})
    <2>0. PICK b \in bars : Sends(r, "bars", {b}, bars \ {b})
      BY <1>3
    <2>1. bars = {b} \cup (bars \ {b}) /\ {b} \in SUBSET Topic /\ bars \ {b} \in SUBSET Topic
      BY <1>0
    <2> HIDE DEF bars
    <2>2. /\ stage' \in [Restores -> {"idle", "spots", "bars", "depth"}]
          /\ left' \in [Restores -> SUBSET Topic] /\ view' \in [Restores -> SUBSET Topic]
          /\ call' \in [Tasks -> CallType] /\ lost' \in SUBSET Tasks
          /\ \A q \in Restores : q # r => stage'[q] = stage[q] /\ left'[q] = left[q]
          /\ \A t \in Tasks : t # r => call'[t] = call[t] /\ (t \in lost' <=> t \in lost)
          /\ r \notin lost' /\ UNCHANGED apart
          /\ stage'[r] = "bars" /\ left'[r] = bars \ {b}
          /\ call'[r] = [op |-> "subscribe", topics |-> {b}]
      BY <1>1, <2>0, <2>1
    <2>3. bars = call'[r].topics \cup left'[r] /\ call'[r].op = "subscribe"
      BY <2>1, <2>2
    <2> QED
      BY <1>3, <2>2, <2>3 DEF Onward, bars
  <1>4. CASE /\ s # "depth" /\ bars = {} /\ (s = "start" => Of("spots", S) = {}) /\ ready' = "no"
             /\ Sends(r, "depth", Of("depth", S), {})
    BY <1>1, <1>4, Kinds DEF Onward
  <1>5. CASE /\ Ends(r) /\ ready' = "restored" /\ (s = "start" => Of("spots", S) = {})
             /\ s # "depth" => bars = {} /\ Of("depth", S) = {}
    <2>1. NoCall \in CallType /\ Ask(r, NoCall, TRUE)
      BY <1>5 DEF CallType, NoCall, Ends
    <2>2. /\ call' \in [Tasks -> CallType] /\ lost' \in SUBSET Tasks /\ call'[r] = NoCall
          /\ \A t \in Tasks : t # r => call'[t] = call[t] /\ (t \in lost' <=> t \in lost)
          /\ r \notin lost'
      BY <1>0, <2>1, AskKeeps
    <2> QED
      BY <1>5, <2>2 DEF Ends, TypeOK, Onward
  <1> QED
    BY <1>2, <1>3, <1>4, <1>5 DEF Proceed

----------------------------------------------------------------------------
(* Every step keeps the invariant.                                         *)

\* A restore that is not the one that moves still covers what is missing,
\* when the record and the feeds have moved together.
LEMMA CoversKept ==
    ASSUME IInv, NEW q \in Restores, Active(q)', ~strayed', ~strayed, Active(q),
           standing' \ subs' \subseteq standing \ subs, apart' \in SUBSET apart,
           stage'[q] = stage[q], call'[q] = call[q], left'[q] = left[q]
    PROVE  /\ q \notin apart'
           /\ stage'[q] = "spots" => Missing("spots")' \subseteq call'[q].topics
           /\ stage'[q] = "bars"  => /\ Missing("spots")' = {}
                                     /\ Missing("bars")' \subseteq call'[q].topics \cup left'[q]
           /\ stage'[q] = "depth" => /\ Missing("spots")' = {} /\ Missing("bars")' = {}
                                     /\ Missing("depth")' \subseteq call'[q].topics
  <1>1. /\ Missing("spots")' \subseteq Missing("spots") /\ Missing("bars")' \subseteq Missing("bars")
        /\ Missing("depth")' \subseteq Missing("depth")
    BY MissingShrinks
  <1> QED
    BY <1>1 DEF IInv, RestoreCovers

\* subscribe_* and unsubscribe_*, up to the request.
LEMMA CallStep ==
    ASSUME IInv, NEW t \in Callers, NEW op \in {"subscribe", "unsubscribe"}, NEW S \in Requests, Call(t, op, S)
    PROVE  IInv'
  <1>1. t \in Tasks /\ t \notin Restores /\ [op |-> op, topics |-> S] \in CallType
    BY TaskAssumption DEF Tasks, CallType, Requests
  <1>2. Ask(t, [op |-> op, topics |-> S], up) /\ up \in BOOLEAN
    BY DEF Call, IInv, TypeOK
  <1>3. /\ call' \in [Tasks -> CallType] /\ lost' \in SUBSET Tasks
        /\ call'[t] = [op |-> op, topics |-> S]
        /\ \A s \in Tasks : s # t => call'[s] = call[s] /\ (s \in lost' <=> s \in lost)
    BY <1>1, <1>2, AskKeeps DEF IInv
  <1>4. \A r \in Restores : /\ call'[r] = call[r] /\ (r \in lost' <=> r \in lost)
                            /\ Active(r)' <=> Active(r)
    BY <1>1, <1>3 DEF Tasks, Active, Call
  <1>5. TypeOK'
    BY <1>3 DEF IInv, TypeOK, CallType, Call
  <1>6. CallsAgree'
    BY <1>1, <1>3, <1>4 DEF IInv, CallsAgree, Call
  <1>7. OneRestore'
    BY <1>4 DEF IInv, OneRestore, Call
  <1>8. RestoreCovers'
    BY <1>4, CoversKept DEF RestoreCovers, Call
  <1>9. FeedMatchesIntent'
    BY DEF IInv, FeedMatchesIntent, Call
  <1> QED
    BY <1>5, <1>6, <1>7, <1>8, <1>9 DEF IInv

\* The rest of such a call.
LEMMA ReturnStep ==
    ASSUME IInv, NEW t \in Callers, Return(t)
    PROVE  IInv'
  <1>1. t \in Tasks /\ t \notin Restores /\ NoCall \in CallType
    BY TaskAssumption DEF Tasks, CallType, NoCall
  <1>2. Ask(t, NoCall, up) /\ up \in BOOLEAN
    BY DEF Return, IInv, TypeOK
  <1>3. /\ call' \in [Tasks -> CallType] /\ lost' \in SUBSET Tasks /\ call'[t] = NoCall
        /\ \A s \in Tasks : s # t => call'[s] = call[s] /\ (s \in lost' <=> s \in lost)
    BY <1>1, <1>2, AskKeeps DEF IInv
  <1>4. \A r \in Restores : /\ call'[r] = call[r] /\ (r \in lost' <=> r \in lost)
                            /\ Active(r)' <=> Active(r)
    BY <1>1, <1>3 DEF Tasks, Active, Return
  <1>5. /\ subs' \in SUBSET Topic /\ standing' \in SUBSET Topic
        /\ strayed' \in BOOLEAN /\ trouble' \in 0..MaxTrouble /\ (strayed => strayed')
        /\ ~strayed' => standing' \ subs' \subseteq standing \ subs
        /\ ~strayed' /\ subs \subseteq standing => subs' \subseteq standing'
        /\ ~strayed' /\ subs = standing => subs' = standing'
    BY <1>1, AnswerKeeps DEF IInv, Return
  <1>6. TypeOK'
    BY <1>3, <1>5 DEF IInv, TypeOK, CallType, Return
  <1>7. CallsAgree'
    BY <1>1, <1>3, <1>4 DEF IInv, CallsAgree, Return
  <1>8. OneRestore'
    BY <1>4 DEF IInv, OneRestore, Return
  <1>9. RestoreCovers'
    BY <1>4, <1>5, CoversKept DEF RestoreCovers, Return
  <1>10. FeedMatchesIntent'
    BY <1>5 DEF IInv, FeedMatchesIntent, Return
  <1> QED
    BY <1>6, <1>7, <1>8, <1>9, <1>10 DEF IInv

\* AuthManager.remove_account.
LEMMA ForgetStep == ASSUME IInv, Forget PROVE IInv'
  <1>1. TypeOK'
    BY TroubleType DEF IInv, TypeOK, Forget
  <1>2. CallsAgree' /\ OneRestore'
    BY DEF IInv, TypeOK, CallsAgree, OneRestore, Active, Forget
  <1>3. RestoreCovers' /\ FeedMatchesIntent'
    BY DEF RestoreCovers, FeedMatchesIntent, Forget
  <1> QED
    BY <1>1, <1>2, <1>3 DEF IInv

\* The link or the session ends: no restore is active any more.
LEMMA SessionEndsStep == ASSUME IInv, SessionEnds PROVE IInv'
  <1>1. TypeOK'
    BY TroubleType DEF IInv, TypeOK, SessionEnds
  <1>2. CallsAgree'
    BY DEF IInv, CallsAgree, SessionEnds
  <1>3. \A r \in Restores : ~Active(r)'
    BY DEF IInv, CallsAgree, Active, Tasks, SessionEnds
  <1>4. OneRestore' /\ RestoreCovers' /\ FeedMatchesIntent'
    BY <1>3 DEF OneRestore, RestoreCovers, FeedMatchesIntent, SessionEnds
  <1> QED
    BY <1>1, <1>2, <1>4 DEF IInv

\* The restore on a fresh session, or after a request it made was accepted.
LEMMA OnwardStep ==
    ASSUME IInv, NEW r \in Restores, NEW s \in {"start", "spots", "bars", "depth"},
           NEW S \in SUBSET Topic, NEW T \in SUBSET Topic, Proceed(r, s, S, T),
           up', subs' \in SUBSET Topic, standing' \in SUBSET Topic,
           strayed' \in BOOLEAN, trouble' \in 0..MaxTrouble,
           \A q \in Restores : q # r => ~Active(q),
           ~strayed' => /\ S = standing' /\ subs' \subseteq standing' /\ r \notin apart
                        /\ s # "start" => Missing("spots")' = {}
                        /\ s = "bars" => Missing("bars")' \subseteq T
                        /\ s = "depth" => Missing("bars")' = {} /\ Missing("depth")' = {}
    PROVE  IInv'
  <1>1. /\ stage' \in [Restores -> {"idle", "spots", "bars", "depth"}]
        /\ left' \in [Restores -> SUBSET Topic] /\ view' \in [Restores -> SUBSET Topic]
        /\ call' \in [Tasks -> CallType] /\ lost' \in SUBSET Tasks
        /\ \A q \in Restores : q # r => stage'[q] = stage[q] /\ left'[q] = left[q]
        /\ \A t \in Tasks : t # r => call'[t] = call[t] /\ (t \in lost' <=> t \in lost)
        /\ apart' \in SUBSET apart /\ (stage'[r] = "idle" => r \notin apart')
        /\ ready' \in {"no", "restored"} /\ (stage'[r] # "idle" => ready' = "no")
        /\ Onward(r, s, S, T)
    BY ProceedKeeps DEF IInv
  <1>2. TypeOK'
    BY <1>1 DEF IInv, TypeOK, CallType
  <1>3. /\ stage'[r] # "idle" <=> call'[r] # NoCall
        /\ stage'[r] # "idle" => call'[r].op = "subscribe"
    BY <1>1 DEF Onward, NoCall
  <1>4. CallsAgree'
    <2>1. \A q \in Restores : q \in Tasks
      BY DEF Tasks
    <2> QED
      BY <1>1, <1>3, <2>1 DEF IInv, TypeOK, CallsAgree
  <1>5. \A q \in Restores : q # r => ~Active(q)'
    BY <1>1 DEF Active, Tasks
  <1>6. OneRestore'
    BY <1>5 DEF OneRestore
  <1>7. \A kind : Missing(kind)' \subseteq Of(kind, standing')
    BY DEF Missing, Of
  <1>8. RestoreCovers'
    BY <1>1, <1>5, <1>7 DEF RestoreCovers, Onward
  <1>9. FeedMatchesIntent'
    <2> SUFFICES ASSUME ~strayed', ready' = "restored" PROVE standing' \ subs' = {}
      BY DEF FeedMatchesIntent
    <2>1. Missing("spots")' = {} /\ Missing("bars")' = {} /\ Missing("depth")' = {}
      BY <1>1, <1>7 DEF Onward
    <2> QED
      BY <2>1, Kinds DEF Missing
  <1> QED
    BY <1>2, <1>4, <1>6, <1>8, <1>9 DEF IInv

\* The account is authorised on a fresh session: nothing is live, and no other
\* restore is active.
LEMMA EstablishStep ==
    ASSUME IInv, NEW r \in Restores, Establish(r)
    PROVE  IInv'
  <1>1. /\ up' /\ subs' = {} /\ strayed' = FALSE /\ UNCHANGED <<standing, trouble>>
        /\ Proceed(r, "start", standing, {}) /\ stage[r] = "idle"
    BY DEF Establish, Authorised
  <1>2. \A q \in Restores : ~Active(q)
    BY DEF IInv, OneRestore, Establish, Authorised
  <1>3. r \notin apart
    BY <1>1 DEF IInv, CallsAgree
  <1>4. /\ standing \in SUBSET Topic /\ standing' \in SUBSET Topic /\ trouble' \in 0..MaxTrouble
        /\ {} \in SUBSET Topic /\ subs' \in SUBSET Topic /\ strayed' \in BOOLEAN
    BY <1>1 DEF IInv, TypeOK
  <1>5. standing = standing' /\ subs' \subseteq standing'
    BY <1>1
  <1>6. Proceed(r, "start", standing, {}) /\ up'
    BY <1>1
  <1> QED
    BY <1>2, <1>3, <1>4, <1>5, <1>6, OnwardStep

\* The account is authorised without a restore, and no restore is active: what
\* was recorded stays missing, and nothing is live that was not recorded.
LEMMA EstablishQuietlyStep == ASSUME IInv, EstablishQuietly PROVE IInv'
  <1>1. TypeOK' /\ CallsAgree'
    BY DEF IInv, TypeOK, CallsAgree, EstablishQuietly, Authorised
  <1>2. \A q \in Restores : ~Active(q)'
    BY DEF IInv, OneRestore, Active, EstablishQuietly, Authorised
  <1>3. OneRestore' /\ RestoreCovers' /\ FeedMatchesIntent'
    BY <1>2 DEF OneRestore, RestoreCovers, FeedMatchesIntent, EstablishQuietly, Authorised
  <1> QED
    BY <1>1, <1>3 DEF IInv

\* The recovery loop announces such a session.
LEMMA RecoveredElsewhereStep == ASSUME IInv, RecoveredElsewhere PROVE IInv'
  <1>1. TypeOK' /\ CallsAgree' /\ OneRestore' /\ FeedMatchesIntent'
    BY DEF IInv, TypeOK, CallsAgree, OneRestore, Active, FeedMatchesIntent, RecoveredElsewhere
  <1>2. RestoreCovers'
    BY DEF IInv, RestoreCovers, Active, Missing, RecoveredElsewhere
  <1> QED
    BY <1>1, <1>2 DEF IInv

\* A request of the restore at work was accepted.
LEMMA AcceptedStep ==
    ASSUME IInv, NEW r \in Restores, RestoreStep(r)
    PROVE  IInv'
  <1> DEFINE now == IF r \in apart THEN view[r] ELSE standing'
  <1>1. /\ stage[r] \in {"spots", "bars", "depth"} /\ Accepted(r) /\ UNCHANGED up
        /\ Proceed(r, stage[r], now, left[r])
    BY DEF IInv, TypeOK, RestoreStep
  <1>2. r \in Tasks /\ call[r] # NoCall /\ call[r].op = "subscribe" /\ Active(r) /\ up
    BY <1>1 DEF IInv, CallsAgree, OneRestore, Active, Tasks, Accepted
  <1>3. /\ subs' \in SUBSET Topic /\ standing' \in SUBSET Topic
        /\ strayed' \in BOOLEAN /\ trouble' \in 0..MaxTrouble /\ (strayed => strayed')
        /\ ~strayed' => standing' \ subs' \subseteq standing \ subs
        /\ ~strayed' /\ subs \subseteq standing => subs' \subseteq standing'
        /\ call[r].topics \subseteq subs'
    BY <1>1, <1>2, AnswerKeeps DEF IInv
  <1>4. now \in SUBSET Topic /\ left[r] \in SUBSET Topic
    BY <1>3 DEF IInv, TypeOK
  <1>5. \A q \in Restores : q # r => ~Active(q)
    BY <1>2 DEF IInv, OneRestore
  <1>6. ASSUME ~strayed'
        PROVE  /\ now = standing' /\ subs' \subseteq standing' /\ r \notin apart
               /\ Missing("spots")' = {}
               /\ stage[r] = "bars" => Missing("bars")' \subseteq left[r]
               /\ stage[r] = "depth" => Missing("bars")' = {} /\ Missing("depth")' = {}
    <2>1. ~strayed /\ r \notin apart /\ subs \subseteq standing
      BY <1>2, <1>3, <1>6 DEF IInv, RestoreCovers, FeedMatchesIntent
    <2>2. /\ Missing("spots")' \subseteq Missing("spots") /\ Missing("bars")' \subseteq Missing("bars")
          /\ Missing("depth")' \subseteq Missing("depth")
      BY <1>3, <1>6, MissingShrinks
    <2>3. \A kind : Missing(kind)' \cap call[r].topics = {}
      BY <1>3 DEF Missing, Of
    <2>4. /\ stage[r] = "spots" => Missing("spots") \subseteq call[r].topics
          /\ stage[r] = "bars"  => /\ Missing("spots") = {}
                                   /\ Missing("bars") \subseteq call[r].topics \cup left[r]
          /\ stage[r] = "depth" => /\ Missing("spots") = {} /\ Missing("bars") = {}
                                   /\ Missing("depth") \subseteq call[r].topics
      BY <1>2, <2>1 DEF IInv, RestoreCovers
    <2>5. Missing("spots")' = {}
      BY <1>1, <2>2, <2>3, <2>4
    <2>6. stage[r] = "bars" => Missing("bars")' \subseteq left[r]
      BY <2>2, <2>3, <2>4
    <2>7. stage[r] = "depth" => Missing("bars")' = {} /\ Missing("depth")' = {}
      BY <2>2, <2>3, <2>4
    <2> QED
      BY <1>3, <1>6, <2>1, <2>5, <2>6, <2>7
  <1> HIDE DEF now
  <1> QED
    BY <1>1, <1>2, <1>3, <1>4, <1>5, <1>6, OnwardStep

\* A request of a restore failed, and the restore with it.
LEMMA StopsStep ==
    ASSUME IInv, NEW r \in Restores, RestoreStops(r)
    PROVE  IInv'
  <1>1. r \in Tasks /\ NoCall \in CallType /\ call[r] # NoCall
    BY DEF Tasks, CallType, NoCall, IInv, CallsAgree, RestoreStops
  <1>2. Ask(r, NoCall, TRUE) /\ Rejected(r) /\ UNCHANGED <<up, standing>>
    BY DEF RestoreStops, Ends, Rejected
  <1>3. /\ call' \in [Tasks -> CallType] /\ lost' \in SUBSET Tasks /\ call'[r] = NoCall
        /\ \A t \in Tasks : t # r => call'[t] = call[t] /\ (t \in lost' <=> t \in lost)
    BY <1>1, <1>2, AskKeeps DEF IInv
  <1>4. /\ stage' \in [Restores -> {"idle", "spots", "bars", "depth"}]
        /\ left' \in [Restores -> SUBSET Topic] /\ view' \in [Restores -> SUBSET Topic]
        /\ stage'[r] = "idle" /\ apart' = apart \ {r}
        /\ \A q \in Restores : q # r => stage'[q] = stage[q] /\ left'[q] = left[q]
    BY DEF RestoreStops, Ends, IInv, TypeOK
  <1>5. /\ subs' \in SUBSET Topic /\ standing' \in SUBSET Topic
        /\ strayed' \in BOOLEAN /\ trouble' \in 0..MaxTrouble /\ (strayed => strayed')
        /\ ~strayed' => standing' \ subs' \subseteq standing \ subs
        /\ ~strayed' /\ subs \subseteq standing => subs' \subseteq standing'
        /\ ~strayed' /\ subs = standing => subs' = standing'
    BY <1>1, <1>2, AnswerKeeps DEF IInv
  <1>6. ready' \in {ready, "failed"}
    BY DEF RestoreStops
  <1>7. TypeOK'
    BY <1>2, <1>3, <1>4, <1>5, <1>6 DEF IInv, TypeOK, CallType
  <1>8. \A q \in Restores : q \in Tasks
    BY DEF Tasks
  <1>9. CallsAgree'
    BY <1>3, <1>4, <1>8 DEF IInv, TypeOK, CallsAgree
  <1>10. \A q \in Restores : Active(q)' => q # r /\ Active(q)
    BY <1>3, <1>4, <1>8 DEF Active
  <1>11. OneRestore'
    BY <1>2, <1>10 DEF IInv, OneRestore
  <1>12. RestoreCovers'
    BY <1>3, <1>4, <1>5, <1>8, <1>10, CoversKept DEF RestoreCovers
  <1>13. FeedMatchesIntent'
    BY <1>2, <1>5, <1>6 DEF IInv, FeedMatchesIntent
  <1> QED
    BY <1>7, <1>9, <1>11, <1>12, <1>13 DEF IInv

----------------------------------------------------------------------------
(* The theorems.                                                           *)

LEMMA InitStep == Init => IInv
  <1> SUFFICES ASSUME Init PROVE IInv
    OBVIOUS
  <1>1. TypeOK
    <2>1. NoCall \in [op : {"none", "subscribe", "unsubscribe"}, topics : SUBSET Topic]
      BY DEF NoCall
    <2>2. MaxTrouble \in 0..MaxTrouble
      BY TroubleAssumption
    <2> QED
      BY <2>1, <2>2 DEF Init, TypeOK
  <1>2. CallsAgree /\ OneRestore /\ RestoreCovers /\ FeedMatchesIntent
    BY DEF Init, CallsAgree, OneRestore, RestoreCovers, Active, FeedMatchesIntent, Tasks
  <1> QED
    BY <1>1, <1>2 DEF IInv

LEMMA Stutter == ASSUME IInv, UNCHANGED vars PROVE IInv'
  <1>1. TypeOK' /\ CallsAgree' /\ OneRestore' /\ FeedMatchesIntent'
    BY DEF vars, IInv, TypeOK, CallsAgree, OneRestore, Active, FeedMatchesIntent
  <1>2. RestoreCovers'
    BY DEF vars, IInv, RestoreCovers, Active, Missing
  <1> QED
    BY <1>1, <1>2 DEF IInv

\* Whatever is called, restored, forgotten and lost, in any order, what the
\* restore at work has yet to ask for covers what is missing.
THEOREM Inductive == Spec => []IInv
  <1>1. ASSUME IInv, Next PROVE IInv'
    BY <1>1, CallStep, ReturnStep, ForgetStep, SessionEndsStep, EstablishStep, EstablishQuietlyStep,
       RecoveredElsewhereStep, AcceptedStep, StopsStep DEF Next
  <1> QED
    BY <1>1, InitStep, Stutter, PTL DEF Spec

\* The record, the server's feeds and every restore stay within their types.
THEOREM TypeCorrect == Spec => []TypeOK
  BY Inductive, PTL DEF IInv

\* On a session nothing has escaped the record of, no feed is live that the
\* record does not have, and after a restore that reported no failure the two
\* are the same, whatever the application did while it ran.
THEOREM FeedMatchesIntentHolds == Spec => []FeedMatchesIntent
  BY Inductive, PTL DEF IInv

\* What the application asked for is given up only with the feed itself or
\* with the account.
THEOREM IntentKeptHolds == Spec => IntentKept
  <1>1. ASSUME IInv, [Next]_vars
        PROVE  [Forget \/ \A t \in standing \ standing' : up /\ t \in subs /\ t \notin subs']_vars
    <2>1. CASE \E t \in Tasks : call[t] # NoCall /\ (Accepted(t) \/ Rejected(t))
      BY <1>1, <2>1, AnswerKeeps DEF IInv
    <2>2. ASSUME NEW t \in Callers, Return(t)
          PROVE  t \in Tasks /\ call[t] # NoCall /\ (Accepted(t) \/ Rejected(t))
      BY <2>2 DEF Tasks, Return
    <2>3. ASSUME NEW r \in Restores, RestoreStep(r) \/ RestoreStops(r)
          PROVE  r \in Tasks /\ call[r] # NoCall /\ (Accepted(r) \/ Rejected(r))
      BY <1>1, <2>3 DEF IInv, CallsAgree, Tasks, RestoreStep, RestoreStops
    <2>4. CASE UNCHANGED standing
      BY <2>4
    <2>5. CASE \/ \E t \in Callers, op \in {"subscribe", "unsubscribe"}, S \in Requests : Call(t, op, S)
               \/ \E r \in Restores : Establish(r)
               \/ EstablishQuietly \/ RecoveredElsewhere \/ SessionEnds \/ UNCHANGED vars
      BY <2>4, <2>5 DEF Call, Establish, EstablishQuietly, RecoveredElsewhere, SessionEnds, vars
    <2> QED
      BY <1>1, <2>1, <2>2, <2>3, <2>5 DEF Next
  <1> QED
    BY <1>1, Inductive, PTL DEF Spec, IntentKept
=============================================================================
