--------------------------- MODULE RequestsProofs ---------------------------
(***************************************************************************)
(* Proofs about request correlation, for any set of callers and any bounds *)
(* on ids and messages.                                                    *)
(***************************************************************************)
EXTENDS Requests, SequenceLemmas, TLAPS

----------------------------------------------------------------------------
(* The inductive invariant.                                                *)

\* An idle caller has no id, ids are handed out once, and only a request
\* waits for an answer.
IdsAgree ==
    \A c \in Callers :
        /\ stage[c] = "idle" => id[c] = 0
        /\ id[c] < nextId
        /\ stage[c] \in {"waiting", "expiring"} => id[c] # 0

\* An answer that is stored bears the id of its slot.
OutcomesAgree ==
    \A i \in Ids : pending[i].tag \in {"reply", "odd", "error"} => pending[i].of = i

\* Pending requests are failed only after the protocol stops running.
RunningAgrees == link \in Running => ~failed

IInv ==
    /\ TypeOK
    /\ IdsAgree
    /\ SlotPerCall
    /\ OutcomesAgree
    /\ OwnAnswer
    /\ RunningAgrees
    /\ NobodyLeftWaiting
    /\ LockMatchesWriters

\* The part of it about slots and ids, and the part about waking.
CallInv == IdsAgree /\ SlotPerCall /\ OutcomesAgree /\ OwnAnswer
WakeInv == RunningAgrees /\ NobodyLeftWaiting

----------------------------------------------------------------------------
(* The write lock as a sequence.                                           *)

\* A caller that is not at the lock queues for it.
LEMMA LockQueues ==
    ASSUME TypeOK, LockMatchesWriters, NEW c \in Callers,
           stage[c] \notin {"locking", "sending", "adrift"},
           stage' = [stage EXCEPT ![c] = "locking"],
           lock' = Append(lock, c)
    PROVE  lock' \in Seq(Callers) /\ LockMatchesWriters'
  <1>1. /\ lock' \in Seq(Callers) /\ Len(lock') = Len(lock) + 1 /\ Len(lock) \in Nat
        /\ DOMAIN lock = 1..Len(lock) /\ DOMAIN lock' = 1..Len(lock')
        /\ \A i \in 1..Len(lock) : lock'[i] = lock[i] /\ lock[i] \in Callers
        /\ lock'[Len(lock) + 1] = c
    BY AppendProperties, LenProperties, ElementOfSeq DEF TypeOK
  <1>2. \A k \in DOMAIN lock : lock[k] # c
    BY DEF LockMatchesWriters
  <1>3. /\ stage'[c] = "locking"
        /\ \A d \in Callers : d # c => stage'[d] = stage[d]
    BY DEF TypeOK
  <1>4. \A d \in Callers :
          stage'[d] \in {"locking", "sending", "adrift"} <=> \E k \in DOMAIN lock' : lock'[k] = d
    <2> SUFFICES ASSUME NEW d \in Callers
                 PROVE  stage'[d] \in {"locking", "sending", "adrift"}
                        <=> \E k \in DOMAIN lock' : lock'[k] = d
      OBVIOUS
    <2>1. CASE d = c
      BY <1>1, <1>3, <2>1
    <2>2. CASE d # c
      BY <1>1, <1>3, <2>2 DEF LockMatchesWriters
    <2> QED
      BY <2>1, <2>2
  <1>5. \A j, k \in DOMAIN lock' : lock'[j] = lock'[k] => j = k
    BY <1>1, <1>2 DEF LockMatchesWriters
  <1>6. \A k \in DOMAIN lock' : stage'[lock'[k]] \in {"sending", "adrift"} => k = 1
    BY <1>1, <1>2, <1>3 DEF LockMatchesWriters
  <1> QED
    BY <1>1, <1>4, <1>5, <1>6 DEF LockMatchesWriters

\* The caller at place k leaves the lock for a stage in which it needs none.
LEMMA LockLeft ==
    ASSUME TypeOK, LockMatchesWriters, NEW c \in Callers, NEW st, NEW k \in 1..Len(lock),
           lock[k] = c, st \notin {"locking", "sending", "adrift"},
           stage' = [stage EXCEPT ![c] = st],
           lock' \in Seq(Callers), Len(lock') = Len(lock) - 1,
           \A i \in 1..(Len(lock) - 1) : lock'[i] = IF i < k THEN lock[i] ELSE lock[i + 1]
    PROVE  LockMatchesWriters'
  <1>1. /\ Len(lock) \in Nat
        /\ DOMAIN lock = 1..Len(lock) /\ DOMAIN lock' = 1..(Len(lock) - 1)
        /\ \A i \in 1..Len(lock) : lock[i] \in Callers
    BY LenProperties, ElementOfSeq DEF TypeOK
  <1>2. /\ stage'[c] = st
        /\ \A d \in Callers : d # c => stage'[d] = stage[d]
    BY DEF TypeOK
  <1>3. \A j \in 1..Len(lock) : lock[j] = c => j = k
    BY <1>1 DEF LockMatchesWriters
  <1>4. \A j \in DOMAIN lock' : \E i \in 1..Len(lock) : /\ lock'[j] = lock[i] /\ i # k
                                                       /\ i = IF j < k THEN j ELSE j + 1
    BY <1>1
  <1>5. \A i \in 1..Len(lock) : i # k => \E j \in DOMAIN lock' : lock'[j] = lock[i]
    <2> TAKE i \in 1..Len(lock)
    <2> HAVE i # k
    <2>1. CASE i < k
      BY <1>1, <2>1
    <2>2. CASE i > k
      <3>1. i - 1 \in 1..(Len(lock) - 1) /\ ~(i - 1 < k) /\ (i - 1) + 1 = i
        BY <1>1, <2>2
      <3> QED
        BY <1>1, <3>1
    <2> QED
      BY <1>1, <2>1, <2>2
  <1>6. \A d \in Callers :
          stage'[d] \in {"locking", "sending", "adrift"} <=> \E j \in DOMAIN lock' : lock'[j] = d
    <2> SUFFICES ASSUME NEW d \in Callers
                 PROVE  stage'[d] \in {"locking", "sending", "adrift"}
                        <=> \E j \in DOMAIN lock' : lock'[j] = d
      OBVIOUS
    <2>1. CASE d = c
      BY <1>2, <1>3, <1>4, <2>1
    <2>2. CASE d # c
      <3>1. stage'[d] \in {"locking", "sending", "adrift"} <=> \E i \in 1..Len(lock) : lock[i] = d
        BY <1>1, <1>2, <2>2 DEF LockMatchesWriters
      <3>2. ASSUME NEW i \in 1..Len(lock), lock[i] = d PROVE \E j \in DOMAIN lock' : lock'[j] = d
        BY <1>5, <2>2, <3>2
      <3>3. ASSUME NEW j \in DOMAIN lock', lock'[j] = d PROVE \E i \in 1..Len(lock) : lock[i] = d
        BY <1>4, <3>3
      <3> QED
        BY <3>1, <3>2, <3>3
    <2> QED
      BY <2>1, <2>2
  <1>7. \A i, j \in DOMAIN lock' : lock'[i] = lock'[j] => i = j
    <2> TAKE i, j \in DOMAIN lock'
    <2> HAVE lock'[i] = lock'[j]
    <2>1. PICK m \in 1..Len(lock) : lock'[i] = lock[m] /\ m = IF i < k THEN i ELSE i + 1
      BY <1>4
    <2>2. PICK n \in 1..Len(lock) : lock'[j] = lock[n] /\ n = IF j < k THEN j ELSE j + 1
      BY <1>4
    <2>3. m = n
      BY <1>1, <2>1, <2>2 DEF LockMatchesWriters
    <2> QED
      BY <1>1, <2>1, <2>2, <2>3
  <1>8. \A j \in DOMAIN lock' : stage'[lock'[j]] \in {"sending", "adrift"} => j = 1
    BY <1>1, <1>2, <1>3, <1>4 DEF LockMatchesWriters
  <1> QED
    BY <1>6, <1>7, <1>8 DEF LockMatchesWriters

\* The holder of the lock releases it.
LEMMA LockReleased ==
    ASSUME TypeOK, LockMatchesWriters, NEW c \in Callers, NEW st,
           stage[c] \in {"sending", "adrift"} \/ (stage[c] = "locking" /\ Head(lock) = c),
           st \notin {"locking", "sending", "adrift"},
           stage' = [stage EXCEPT ![c] = st],
           lock' = Tail(lock)
    PROVE  lock' \in Seq(Callers) /\ LockMatchesWriters'
  <1>1. \E k \in DOMAIN lock : lock[k] = c
    BY DEF LockMatchesWriters
  <1>2. lock # <<>> /\ Len(lock) \in Nat /\ DOMAIN lock = 1..Len(lock) /\ 1 \in 1..Len(lock)
    BY <1>1, LenProperties DEF TypeOK
  <1>3. lock[1] = c
    BY <1>1, <1>2 DEF LockMatchesWriters
  <1>4. /\ lock' \in Seq(Callers) /\ Len(lock') = Len(lock) - 1
        /\ \A i \in 1..(Len(lock) - 1) : lock'[i] = lock[i + 1]
    BY <1>2, HeadTailProperties DEF TypeOK
  <1>5. \A i \in 1..(Len(lock) - 1) : lock'[i] = IF i < 1 THEN lock[i] ELSE lock[i + 1]
    BY <1>2, <1>4
  <1>6. LockMatchesWriters'
    BY <1>2, <1>3, <1>4, <1>5, LockLeft
  <1> QED
    BY <1>4, <1>6

\* Other changes of a stage leave the lock alone.
LEMMA LockUntouched ==
    ASSUME TypeOK, LockMatchesWriters, UNCHANGED lock,
           \A c \in Callers :
               /\ stage'[c] \in {"locking", "sending", "adrift"} <=> stage[c] \in {"locking", "sending", "adrift"}
               /\ stage'[c] \in {"sending", "adrift"} =>
                    stage[c] \in {"sending", "adrift"} \/ (Head(lock) = c /\ stage[c] = "locking")
    PROVE  LockMatchesWriters'
  <1>1. Len(lock) \in Nat /\ DOMAIN lock = 1..Len(lock) /\ \A i \in 1..Len(lock) : lock[i] \in Callers
    BY LenProperties, ElementOfSeq DEF TypeOK
  <1>2. ASSUME NEW k \in DOMAIN lock, Head(lock) = lock[k] PROVE k = 1
    BY <1>1, <1>2 DEF LockMatchesWriters
  <1> QED
    BY <1>1, <1>2 DEF LockMatchesWriters

----------------------------------------------------------------------------
(* The steps of a call.                                                    *)

\* What of a step must be shown for the types of the variables of calls.
CallTypes ==
    /\ nextId \in 1..(MaxIds + 1)
    /\ stage \in [Callers -> {"idle", "locking", "sending", "adrift", "waiting", "expiring"}]
    /\ id \in [Callers -> 0..MaxIds]
    /\ pending \in [Ids -> Slot]
    /\ res \in [Callers -> Result]

\* A call that ends removes its slot and nobody else's, and what it returns is
\* what the server gave to it.
LEMMA FinishKeeps ==
    ASSUME TypeOK, CallInv, NEW c \in Callers, NEW tag, NEW of,
           Finish(c, tag, of), UNCHANGED nextId,
           tag \in {"closed", "foreign", "timeout", "cancelled", "sent", "reply", "api"},
           of \in 0..MaxIds,
           tag \in {"reply", "api"} => of = id[c]
    PROVE  /\ CallTypes' /\ CallInv'
           /\ \A i \in Ids : pending'[i] = Open => pending[i] = Open
  <1>1. Absent \in Slot
    BY BoundsAssumption DEF Absent, Slot
  <1>2. CallTypes'
    <2>1. [tag |-> tag, of |-> of, id |-> id[c]] \in Result
      BY DEF TypeOK, Result
    <2>2. id[c] # 0 => id[c] \in Ids
      BY BoundsAssumption DEF TypeOK, Ids
    <2>3. pending' \in [Ids -> Slot]
      BY <1>1, <2>2 DEF TypeOK, Finish
    <2> QED
      BY <2>1, <2>3, BoundsAssumption DEF TypeOK, CallTypes, Finish
  <1>3. /\ stage'[c] = "idle" /\ id'[c] = 0 /\ res'[c] = [tag |-> tag, of |-> of, id |-> id[c]]
        /\ \A d \in Callers : d # c => stage'[d] = stage[d] /\ id'[d] = id[d] /\ res'[d] = res[d]
        /\ \A i \in Ids : pending'[i] = IF i = id[c] THEN Absent ELSE pending[i]
    BY BoundsAssumption DEF TypeOK, Finish, Ids
  <1>4. IdsAgree'
    BY <1>3, BoundsAssumption DEF CallInv, IdsAgree, TypeOK
  <1>5. SlotPerCall'
    <2>1. \A d, e \in Busy' : (id'[d] = id'[e] /\ id'[d] # 0) => d = e
      BY <1>3 DEF CallInv, SlotPerCall, Busy
    <2>2. ASSUME NEW i \in Ids PROVE pending'[i] # Absent <=> \E d \in Busy' : id'[d] = i
      <3>1. CASE i = id[c]
        <4>1. ASSUME NEW d \in Busy', id'[d] = i PROVE FALSE
          BY <1>3, <3>1, <4>1, BoundsAssumption DEF CallInv, SlotPerCall, Busy, Ids, IdsAgree
        <4> QED
          BY <1>3, <3>1, <4>1
      <3>2. CASE i # id[c]
        BY <1>3, <3>2, BoundsAssumption DEF CallInv, SlotPerCall, Busy, Ids
      <3> QED
        BY <3>1, <3>2
    <2> QED
      BY <2>1, <2>2 DEF SlotPerCall
  <1>6. OutcomesAgree'
    BY <1>3 DEF CallInv, OutcomesAgree, Absent
  <1>7. OwnAnswer'
    BY <1>3 DEF CallInv, OwnAnswer
  <1>8. \A i \in Ids : pending'[i] = Open => pending[i] = Open
    BY <1>3 DEF Open, Absent
  <1> QED
    BY <1>2, <1>4, <1>5, <1>6, <1>7, <1>8 DEF CallInv

\* A step of the caller that moves it from one stage of its call to the next.
LEMMA StageKeeps ==
    ASSUME TypeOK, CallInv, NEW c \in Callers, NEW st,
           stage[c] # "idle",
           st \in {"locking", "sending", "waiting", "expiring"},
           st \in {"waiting", "expiring"} => id[c] # 0,
           stage' = [stage EXCEPT ![c] = st],
           UNCHANGED <<nextId, id, pending, res>>
    PROVE  CallTypes' /\ CallInv'
  <1>1. CallTypes'
    BY DEF TypeOK, CallTypes
  <1>2. stage'[c] = st /\ \A d \in Callers : d # c => stage'[d] = stage[d]
    BY DEF TypeOK
  <1>3. Busy' = Busy
    BY <1>2 DEF Busy
  <1> QED
    BY <1>1, <1>2, <1>3 DEF CallInv, IdsAgree, SlotPerCall, OutcomesAgree, OwnAnswer

\* Each step of a caller keeps the invariant.
LEMMA CallStep ==
    ASSUME IInv, NEW c \in Callers, CallNext(c)
    PROVE  IInv'
  <1> USE DEF linkVars
  <1>0. TypeOK /\ CallInv /\ WakeInv /\ LockMatchesWriters
    BY DEF IInv, CallInv, WakeInv
  <1>a. ASSUME UNCHANGED linkVars, CallTypes', lock' \in Seq(Callers), CallInv', LockMatchesWriters',
               \A i \in Ids : pending'[i] = Open => pending[i] = Open \/ link \in Running
        PROVE  IInv'
    <2>1. TypeOK'
      BY <1>0, <1>a DEF TypeOK, CallTypes
    <2>2. WakeInv'
      BY <1>0, <1>a DEF WakeInv, RunningAgrees, NobodyLeftWaiting
    <2> QED
      BY <1>a, <2>1, <2>2 DEF IInv, CallInv, WakeInv
  <1>b. 0 \in 0..MaxIds
    BY BoundsAssumption
  <1>1. CASE Call(c)
    <2>1. /\ nextId \in Ids /\ id[c] = 0 /\ Open \in Slot /\ Unended \in Result
          /\ Open # Absent
      BY <1>0, <1>1, BoundsAssumption DEF Call, CallInv, IdsAgree, Open, Slot, Unended, Result, Ids, TypeOK, Absent
    <2>2. CallTypes'
      BY <1>0, <1>1, <2>1, BoundsAssumption DEF Call, CallTypes, TypeOK, NextId, Ids
    <2>3. /\ stage'[c] = "locking" /\ id'[c] = nextId /\ res'[c] = Unended /\ nextId' = nextId + 1
          /\ \A d \in Callers : d # c => stage'[d] = stage[d] /\ id'[d] = id[d] /\ res'[d] = res[d]
          /\ \A i \in Ids : pending'[i] = IF i = nextId THEN Open ELSE pending[i]
      BY <1>0, <1>1 DEF Call, TypeOK, NextId
    <2>4. \A d \in Callers : id[d] < nextId /\ id[d] \in Nat /\ nextId \in Nat \ {0}
      BY <1>0, BoundsAssumption DEF CallInv, IdsAgree, TypeOK
    <2>5. IdsAgree'
      BY <1>0, <2>3, <2>4 DEF CallInv, IdsAgree
    <2>6. SlotPerCall'
      <3>1. Busy' = Busy \cup {c}
        BY <2>3 DEF Busy
      <3>2. c \notin Busy
        BY <1>1 DEF Call, Busy
      <3>3. \A d \in Busy : d # c /\ id'[d] = id[d] /\ id[d] # nextId
        BY <2>3, <2>4, <3>2 DEF Busy
      <3>4. \A d, e \in Busy' : (id'[d] = id'[e] /\ id'[d] # 0) => d = e
        BY <1>0, <2>3, <3>1, <3>3 DEF CallInv, SlotPerCall
      <3>5. \A i \in Ids : pending'[i] # Absent <=> \E d \in Busy' : id'[d] = i
        BY <1>0, <2>1, <2>3, <3>1, <3>3 DEF CallInv, SlotPerCall
      <3> QED
        BY <3>4, <3>5 DEF SlotPerCall
    <2>7. OutcomesAgree' /\ OwnAnswer'
      BY <1>0, <2>3 DEF CallInv, OutcomesAgree, OwnAnswer, Open, Unended
    <2>8. lock' \in Seq(Callers) /\ LockMatchesWriters'
      BY <1>0, <1>1, LockQueues DEF Call
    <2> QED
      BY <1>a, <1>1, <2>2, <2>5, <2>6, <2>7, <2>8 DEF Call, CallInv
  <1>2. CASE CallEvent(c)
    <2>1. /\ stage'[c] = "locking" /\ id[c] = 0 /\ res'[c] = Unended
          /\ \A d \in Callers : d # c => stage'[d] = stage[d] /\ res'[d] = res[d]
      BY <1>0, <1>2 DEF CallEvent, TypeOK, CallInv, IdsAgree
    <2>2. CallTypes'
      BY <1>0, <1>2, BoundsAssumption DEF CallEvent, CallTypes, TypeOK, Unended, Result
    <2>3. Busy' = Busy \cup {c}
      BY <2>1 DEF Busy
    <2>4. SlotPerCall'
      <3>1. UNCHANGED <<id, pending>>
        BY <1>2 DEF CallEvent
      <3>2. \A i \in Ids : pending'[i] # Absent <=> \E d \in Busy' : id'[d] = i
        BY <1>0, <2>1, <2>3, <3>1, BoundsAssumption DEF CallInv, SlotPerCall, Ids
      <3>3. \A d, e \in Busy' : (id'[d] = id'[e] /\ id'[d] # 0) => d = e
        BY <1>0, <2>1, <2>3, <3>1 DEF CallInv, SlotPerCall
      <3> QED
        BY <3>2, <3>3 DEF SlotPerCall
    <2>5. IdsAgree' /\ OutcomesAgree' /\ OwnAnswer'
      BY <1>0, <1>2, <2>1 DEF CallEvent, CallInv, IdsAgree, OutcomesAgree, OwnAnswer, Unended
    <2>6. lock' \in Seq(Callers) /\ LockMatchesWriters'
      BY <1>0, <1>2, LockQueues DEF CallEvent
    <2> QED
      BY <1>a, <1>2, <2>2, <2>4, <2>5, <2>6 DEF CallEvent, CallInv
  <1>3. CASE CallRefused(c)
    <2>1. CallTypes' /\ CallInv' /\ \A i \in Ids : pending'[i] = Open => pending[i] = Open
      BY <1>0, <1>3, <1>b, FinishKeeps DEF CallRefused
    <2>2. lock' \in Seq(Callers) /\ LockMatchesWriters'
      BY <1>0, <1>3, LockUntouched DEF CallRefused, Finish, TypeOK
    <2> QED
      BY <1>a, <1>3, <2>1, <2>2 DEF CallRefused
  <1>4. CASE BeginSend(c)
    <2>1. CASE stream # "none"
      <3>1. CallTypes' /\ CallInv'
        BY <1>0, <1>4, <2>1, StageKeeps DEF BeginSend
      <3>2. lock' \in Seq(Callers) /\ LockMatchesWriters'
        BY <1>0, <1>4, <2>1, LockUntouched DEF BeginSend, TypeOK
      <3> QED
        BY <1>a, <1>4, <2>1, <3>1, <3>2 DEF BeginSend
    <2>2. CASE stream = "none"
      <3>1. CallTypes' /\ CallInv' /\ \A i \in Ids : pending'[i] = Open => pending[i] = Open
        BY <1>0, <1>4, <1>b, <2>2, FinishKeeps DEF BeginSend
      <3>2. lock' \in Seq(Callers) /\ LockMatchesWriters'
        BY <1>0, <1>4, <2>2, LockReleased DEF BeginSend, Finish
      <3> QED
        BY <1>a, <1>4, <2>2, <3>1, <3>2 DEF BeginSend
    <2> QED
      BY <2>1, <2>2
  <1>5. CASE SendDone(c)
    <2>1. inbox' \in SUBSET Ids
      <3>1. id[c] # 0 => id[c] \in Ids
        BY <1>0, BoundsAssumption DEF TypeOK, Ids
      <3> QED
        BY <1>0, <1>5, <3>1 DEF SendDone, TypeOK
    <2>2. /\ CallTypes' /\ CallInv'
          /\ \A i \in Ids : pending'[i] = Open => pending[i] = Open
      <3>1. CASE id[c] # 0
        BY <1>0, <1>5, <3>1, StageKeeps DEF SendDone
      <3>2. CASE id[c] = 0
        BY <1>0, <1>5, <1>b, <3>2, FinishKeeps DEF SendDone
      <3> QED
        BY <3>1, <3>2
    <2>3. lock' \in Seq(Callers) /\ LockMatchesWriters'
      BY <1>0, <1>5, LockReleased DEF SendDone, Finish
    <2>4. TypeOK'
      BY <1>0, <1>5, <2>1, <2>2, <2>3 DEF SendDone, TypeOK, CallTypes
    <2>5. WakeInv'
      BY <1>0, <1>5, <2>2 DEF SendDone, WakeInv, RunningAgrees, NobodyLeftWaiting
    <2> QED
      BY <2>2, <2>3, <2>4, <2>5 DEF IInv, CallInv, WakeInv
  <1>6. CASE SendFails(c)
    <2>1. CallTypes' /\ CallInv' /\ \A i \in Ids : pending'[i] = Open => pending[i] = Open
      BY <1>0, <1>6, <1>b, FinishKeeps DEF SendFails
    <2>2. lock' \in Seq(Callers) /\ LockMatchesWriters'
      BY <1>0, <1>6, LockReleased DEF SendFails, Finish
    <2> QED
      BY <1>a, <1>6, <2>1, <2>2 DEF SendFails
  <1>7. CASE TimeoutFires(c)
    <2>1. CallTypes' /\ CallInv'
      BY <1>0, <1>7, StageKeeps DEF TimeoutFires, CallInv, IdsAgree
    <2>2. lock' \in Seq(Callers) /\ LockMatchesWriters'
      BY <1>0, <1>7, LockUntouched DEF TimeoutFires, TypeOK
    <2> QED
      BY <1>a, <1>7, <2>1, <2>2 DEF TimeoutFires
  <1>8. CASE TimedOut(c)
    <2>1. CallTypes' /\ CallInv' /\ \A i \in Ids : pending'[i] = Open => pending[i] = Open
      BY <1>0, <1>8, <1>b, FinishKeeps DEF TimedOut
    <2>2. lock' \in Seq(Callers) /\ LockMatchesWriters'
      BY <1>0, <1>8, LockUntouched DEF TimedOut, Finish, TypeOK
    <2> QED
      BY <1>a, <1>8, <2>1, <2>2 DEF TimedOut
  <1>9. CASE Resume(c)
    <2>1. /\ id[c] \in Ids
          /\ pending[id[c]].tag \in {"error", "odd", "reply"} => pending[id[c]].of = id[c]
      BY <1>0, <1>9, BoundsAssumption DEF Resume, CallInv, IdsAgree, OutcomesAgree, TypeOK, Ids
    <2>2. pending[id[c]].of \in 0..MaxIds
      BY <1>0, <2>1 DEF TypeOK, Slot
    <2>3. CallTypes' /\ CallInv' /\ \A i \in Ids : pending'[i] = Open => pending[i] = Open
      <3>1. CASE Finish(c, "closed", 0)
        BY <1>0, <1>9, <1>b, <3>1, FinishKeeps DEF Resume
      <3>2. CASE pending[id[c]].tag \in {"error", "odd"} /\ Finish(c, "api", pending[id[c]].of)
        BY <1>0, <1>9, <2>1, <2>2, <3>2, FinishKeeps DEF Resume
      <3>3. CASE pending[id[c]].tag = "reply" /\ Finish(c, "reply", pending[id[c]].of)
        BY <1>0, <1>9, <2>1, <2>2, <3>3, FinishKeeps DEF Resume
      <3> QED
        BY <1>9, <3>1, <3>2, <3>3 DEF Resume
    <2>4. lock' \in Seq(Callers) /\ LockMatchesWriters'
      BY <1>0, <1>9, LockUntouched DEF Resume, Finish, TypeOK
    <2> QED
      BY <1>a, <1>9, <2>3, <2>4 DEF Resume
  <1>10. CASE Cancel(c)
    <2>1. CallTypes' /\ CallInv' /\ \A i \in Ids : pending'[i] = Open => pending[i] = Open
      BY <1>0, <1>10, <1>b, FinishKeeps DEF Cancel
    <2>2. lock' \in Seq(Callers) /\ LockMatchesWriters'
      <3>1. ASSUME NEW k \in DOMAIN lock, lock[k] = c, lock' = RemoveAt(lock, k)
            PROVE  lock' \in Seq(Callers) /\ LockMatchesWriters'
        <4>1. k \in 1..Len(lock)
          BY <1>0, LenProperties DEF TypeOK
        <4>2. /\ lock' \in Seq(Callers) /\ Len(lock') = Len(lock) - 1
              /\ \A i \in 1..(Len(lock) - 1) : lock'[i] = IF i < k THEN lock[i] ELSE lock[i + 1]
          BY <1>0, <3>1, <4>1, RemoveAtProperties DEF TypeOK
        <4>3. stage' = [stage EXCEPT ![c] = "idle"]
          BY <1>10 DEF Cancel, Finish
        <4> QED
          BY <1>0, <3>1, <4>1, <4>2, <4>3, LockLeft
      <3>2. CASE (\A k \in DOMAIN lock : lock[k] # c) /\ UNCHANGED lock
        <4>1. stage[c] \notin {"locking", "sending", "adrift"}
          BY <1>0, <3>2 DEF LockMatchesWriters
        <4> QED
          BY <1>0, <1>10, <3>2, <4>1, LockUntouched DEF Cancel, Finish, TypeOK
      <3> QED
        BY <1>10, <3>1, <3>2 DEF Cancel
    <2> QED
      BY <1>a, <1>10, <2>1, <2>2 DEF Cancel
  <1> QED
    BY <1>1, <1>2, <1>3, <1>4, <1>5, <1>6, <1>7, <1>8, <1>9, <1>10 DEF CallNext

----------------------------------------------------------------------------
(* The steps of the link and of the server.                                *)

\* Waking every pending request keeps the slots and leaves none open.
LEMMA FailPendingKeeps ==
    ASSUME TypeOK, CallInv, FailPending, UNCHANGED <<nextId, stage, id, lock, res>>
    PROVE  CallTypes' /\ CallInv' /\ \A i \in Ids : pending'[i] # Open
  <1>1. Absent \in Slot /\ Refused \in Slot /\ Refused # Absent /\ Refused # Open /\ Absent # Open
    BY BoundsAssumption DEF Absent, Refused, Open, Slot
  <1>2. /\ CallTypes'
        /\ \A i \in Ids : pending'[i] = IF pending[i] = Absent THEN Absent ELSE Refused
    BY <1>1 DEF TypeOK, CallTypes, FailPending
  <1>3. SlotPerCall'
    BY <1>1, <1>2 DEF CallInv, SlotPerCall, Busy
  <1>4. IdsAgree' /\ OutcomesAgree' /\ OwnAnswer'
    BY <1>2 DEF CallInv, IdsAgree, OutcomesAgree, OwnAnswer, Absent, Refused
  <1> QED
    BY <1>1, <1>2, <1>3, <1>4 DEF CallInv

\* Closing the stream moves no caller in or out of its call or the lock.
LEMMA CloseStreamKeeps ==
    ASSUME TypeOK, CallInv, LockMatchesWriters, CloseStream, UNCHANGED <<nextId, id, pending, lock, res>>
    PROVE  CallTypes' /\ CallInv' /\ LockMatchesWriters'
  <1>1. /\ CallTypes'
        /\ \A c \in Callers : stage'[c] = IF stage[c] = "sending" THEN "adrift" ELSE stage[c]
    BY DEF TypeOK, CallTypes, CloseStream
  <1>2. Busy' = Busy
    BY <1>1 DEF Busy
  <1>3. CallInv'
    BY <1>1, <1>2 DEF CallInv, IdsAgree, SlotPerCall, OutcomesAgree, OwnAnswer
  <1>4. LockMatchesWriters'
    BY <1>1, LockUntouched
  <1> QED
    BY <1>1, <1>3, <1>4

\* The link's steps keep the invariant.
LEMMA LinkStep ==
    ASSUME IInv, LinkNext
    PROVE  IInv'
  <1> USE DEF callVars, Running
  <1>0. TypeOK /\ CallInv /\ WakeInv /\ LockMatchesWriters
    BY DEF IInv, CallInv, WakeInv
  <1>a. ASSUME UNCHANGED callVars PROVE CallTypes' /\ CallInv' /\ LockMatchesWriters' /\ lock' \in Seq(Callers)
    BY <1>0, <1>a DEF TypeOK, CallTypes, CallInv, IdsAgree, SlotPerCall, OutcomesAgree, OwnAnswer,
                      LockMatchesWriters, Busy
  <1>b. ASSUME UNCHANGED <<stage, lock>> PROVE LockMatchesWriters' /\ lock' \in Seq(Callers)
    BY <1>0, <1>b DEF TypeOK, LockMatchesWriters
  <1>c. ASSUME TypeOK', CallInv', WakeInv', LockMatchesWriters' PROVE IInv'
    BY <1>c DEF IInv, CallInv, WakeInv
  <1>1. CASE OpenLink
    <2>1. TypeOK' /\ WakeInv'
      BY <1>0, <1>1, <1>a DEF OpenLink, NewStream, Link!Open, TypeOK, CallTypes, WakeInv, RunningAgrees, NobodyLeftWaiting
    <2> QED
      BY <1>1, <1>a, <1>c, <2>1 DEF OpenLink
  <1>2. CASE Fail
    <2>1. TypeOK' /\ WakeInv'
      BY <1>0, <1>2, <1>a DEF Fail, TypeOK, CallTypes, WakeInv, RunningAgrees, NobodyLeftWaiting
    <2> QED
      BY <1>2, <1>a, <1>c, <2>1 DEF Fail
  <1>3. CASE Drop
    <2>1. TypeOK' /\ WakeInv'
      BY <1>0, <1>3, <1>a DEF Drop, Link!Lost, TypeOK, CallTypes, WakeInv, RunningAgrees, NobodyLeftWaiting
    <2> QED
      BY <1>3, <1>a, <1>c, <2>1 DEF Drop
  <1>4. CASE Replace
    <2>1. CallTypes' /\ CallInv' /\ LockMatchesWriters'
      BY <1>0, <1>4, CloseStreamKeeps DEF Replace
    <2>2. TypeOK' /\ WakeInv'
      BY <1>0, <1>4, <2>1 DEF Replace, CloseStream, TypeOK, CallTypes, WakeInv, RunningAgrees, NobodyLeftWaiting
    <2> QED
      BY <1>c, <2>1, <2>2
  <1>5. CASE Reconnect
    <2>1. TypeOK' /\ WakeInv'
      BY <1>0, <1>5, <1>a DEF Reconnect, NewStream, Link!BeginRestore, TypeOK, CallTypes, WakeInv, RunningAgrees, NobodyLeftWaiting
    <2> QED
      BY <1>5, <1>a, <1>c, <2>1 DEF Reconnect
  <1>6. CASE EndRestore
    <2>1. TypeOK' /\ WakeInv'
      BY <1>0, <1>6, <1>a DEF EndRestore, Link!Restored, Link!LostAgain, TypeOK, CallTypes, WakeInv, RunningAgrees, NobodyLeftWaiting
    <2> QED
      BY <1>6, <1>a, <1>c, <2>1 DEF EndRestore
  <1>7. CASE Abandon
    <2>1. CallTypes' /\ CallInv' /\ \A i \in Ids : pending'[i] # Open
      BY <1>0, <1>7, FailPendingKeeps DEF Abandon
    <2>2. TypeOK' /\ WakeInv'
      BY <1>0, <1>7, <2>1 DEF Abandon, Link!GiveUp, TypeOK, CallTypes, WakeInv, RunningAgrees, NobodyLeftWaiting
    <2> QED
      BY <1>7, <1>b, <1>c, <2>1, <2>2 DEF Abandon
  <1>8. CASE Stop
    <2>1. TypeOK' /\ WakeInv'
      BY <1>0, <1>8, <1>a DEF Stop, Link!GiveUp, TypeOK, CallTypes, WakeInv, RunningAgrees, NobodyLeftWaiting
    <2> QED
      BY <1>8, <1>a, <1>c, <2>1 DEF Stop
  <1>9. CASE ServeReturns
    <2>1. CallTypes' /\ CallInv' /\ \A i \in Ids : pending'[i] # Open
      BY <1>0, <1>9, FailPendingKeeps DEF ServeReturns
    <2>2. TypeOK' /\ WakeInv'
      BY <1>0, <1>9, <2>1 DEF ServeReturns, TypeOK, CallTypes, WakeInv, RunningAgrees, NobodyLeftWaiting
    <2> QED
      BY <1>9, <1>b, <1>c, <2>1, <2>2 DEF ServeReturns
  <1>10. CASE CloseLink
    <2>1. CallTypes' /\ CallInv' /\ LockMatchesWriters'
      BY <1>0, <1>10, CloseStreamKeeps DEF CloseLink
    <2>2. TypeOK' /\ WakeInv'
      BY <1>0, <1>10, <2>1 DEF CloseLink, Link!Close, CloseStream, TypeOK, CallTypes, WakeInv, RunningAgrees, NobodyLeftWaiting
    <2> QED
      BY <1>c, <2>1, <2>2
  <1> QED
    BY <1>1, <1>2, <1>3, <1>4, <1>5, <1>6, <1>7, <1>8, <1>9, <1>10 DEF LinkNext

\* A message that is dispatched goes into the slot whose id it bears.
LEMMA ServerStep ==
    ASSUME IInv, NEW m \in Message, Answer(m) \/ Dispatch(m)
    PROVE  IInv'
  <1>0. TypeOK /\ CallInv /\ WakeInv /\ LockMatchesWriters
    BY DEF IInv, CallInv, WakeInv
  <1>1. CASE Answer(m)
    BY <1>1 DEF IInv, Answer, callVars, TypeOK, IdsAgree, SlotPerCall, OutcomesAgree, OwnAnswer,
                RunningAgrees, NobodyLeftWaiting, LockMatchesWriters, Busy
  <1>2. CASE Dispatch(m)
    <2>1. m.of \in Ids /\ m.kind \in {"reply", "odd", "error"}
      BY DEF Message
    <2>2. /\ [tag |-> m.kind, of |-> m.of] \in Slot
          /\ [tag |-> m.kind, of |-> m.of] # Absent /\ [tag |-> m.kind, of |-> m.of] # Open
      BY <2>1, BoundsAssumption DEF Slot, Absent, Open, Ids
    <2>3. /\ pending' \in [Ids -> Slot]
          /\ \A i \in Ids : pending'[i] = IF i = m.of /\ pending[m.of] # Absent
                                          THEN [tag |-> m.kind, of |-> m.of] ELSE pending[i]
      BY <1>0, <1>2, <2>1, <2>2 DEF Dispatch, TypeOK
    <2>4. /\ TypeOK'
          /\ UNCHANGED <<link, failed, nextId, stage, id, lock, res>>
      BY <1>0, <1>2, <2>3 DEF Dispatch, TypeOK
    <2>5. SlotPerCall'
      BY <1>0, <2>2, <2>3, <2>4 DEF CallInv, SlotPerCall, Busy
    <2>6. OutcomesAgree'
      BY <1>0, <2>3 DEF CallInv, OutcomesAgree
    <2>7. IdsAgree' /\ OwnAnswer' /\ LockMatchesWriters' /\ RunningAgrees'
      BY <1>0, <2>4 DEF CallInv, IdsAgree, OwnAnswer, LockMatchesWriters, WakeInv, RunningAgrees
    <2>8. NobodyLeftWaiting'
      BY <1>0, <2>2, <2>3, <2>4 DEF WakeInv, NobodyLeftWaiting
    <2> QED
      BY <2>4, <2>5, <2>6, <2>7, <2>8 DEF IInv
  <1> QED
    BY <1>1, <1>2

----------------------------------------------------------------------------
(* The theorems.                                                           *)

\* The invariant holds in every reachable state: slots, ids, outcomes, the
\* write lock and the stages of all callers agree with one another.
THEOREM Inductive == Spec => []IInv
  <1>1. Init => IInv
    <2> SUFFICES ASSUME Init PROVE IInv
      OBVIOUS
    <2>1. TypeOK
      BY BoundsAssumption, EmptySeq DEF Init, Link!Init, TypeOK, Absent, Slot, Unended, Result, Ids
    <2>2. IdsAgree /\ SlotPerCall /\ OutcomesAgree /\ OwnAnswer
      BY BoundsAssumption DEF Init, IdsAgree, SlotPerCall, OutcomesAgree, OwnAnswer, Absent, Unended, Busy
    <2>3. RunningAgrees /\ NobodyLeftWaiting
      BY DEF Init, Link!Init, RunningAgrees, NobodyLeftWaiting, Running, Absent, Open
    <2>4. LockMatchesWriters
      BY EmptySeq DEF Init, LockMatchesWriters
    <2> QED
      BY <2>1, <2>2, <2>3, <2>4 DEF IInv
  <1>2. IInv /\ [Next]_vars => IInv'
    <2> SUFFICES ASSUME IInv, [Next]_vars PROVE IInv'
      OBVIOUS
    <2>1. CASE UNCHANGED vars
      BY <2>1 DEF vars, linkVars, callVars, IInv, TypeOK, IdsAgree, SlotPerCall, OutcomesAgree, OwnAnswer,
                  RunningAgrees, NobodyLeftWaiting, LockMatchesWriters, Busy
    <2> QED
      BY <2>1, LinkStep, CallStep, ServerStep DEF Next
  <1> QED
    BY <1>1, <1>2, PTL DEF Spec

\* Every variable stays in its type: no id beyond the ones handed out, no
\* stage or outcome that send_request does not know.
THEOREM TypeCorrect == Spec => []TypeOK
  BY Inductive, PTL DEF IInv

\* A slot of _pending lives exactly as long as its call, and no two calls
\* share one (send_request, its finally clause, _dispatch_message).
THEOREM SlotPerCallHolds == Spec => []SlotPerCall
  BY Inductive, PTL DEF IInv

\* No call is ever given the answer to another one (_dispatch_message,
\* send_request).
THEOREM OwnAnswerHolds == Spec => []OwnAnswer
  BY Inductive, PTL DEF IInv

\* After the protocol has stopped and _fail_pending has run, no request
\* waits for an event that nobody will set.
THEOREM NobodyLeftWaitingHolds == Spec => []NobodyLeftWaiting
  BY Inductive, PTL DEF IInv

\* The write lock is held and waited for by exactly the calls that have yet
\* to write, whatever fails or is cancelled.
THEOREM LockMatchesWritersHolds == Spec => []LockMatchesWriters
  BY Inductive, PTL DEF IInv
=============================================================================
