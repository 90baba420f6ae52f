-------------------------- MODULE ConnectionProofs --------------------------
(***************************************************************************)
(* Proofs about the connection layer, for any set of links, any reconnect  *)
(* budget and any limit on read errors.                                    *)
(***************************************************************************)
EXTENDS Connection, TLAPS

----------------------------------------------------------------------------
(* The inductive invariant.                                                *)

\* The flags agree with the tasks they stand for.
FlagsAgree ==
    /\ reconnecting <=> rt # "idle"
    /\ redo => reconnecting
    /\ running => served
    /\ reconnecting => served
    /\ running => phase # "closed"
    /\ served => phase # "closed"
    /\ monitored => phase \in {"serving", "stopping"}

\* The transport has no stream exactly while it is being replaced.
StreamAgrees ==
    /\ rt \in {"closing", "connecting"} => stream = None
    /\ (running /\ phase # "stopping" /\ rt \notin {"closing", "connecting"}) => stream # None
    /\ phase = "closed" => stream = None

\* Every reader runs in protocol.serve, the scope on record is that of the
\* reader that started last, and an uncancelled reader reads the current
\* stream.  Cancelled readers linger only while there is no stream.
ReadersAgree ==
    /\ ~served => readerScope = None
    /\ \A r \in Links : ReaderLive(r) => served
    /\ \A r \in Links : (reader[r] \in {"reading", "backoff"} /\ r \notin cancelled) => r = readerScope
    /\ \A r \in Links : (reader[r] = "reading" /\ r \notin cancelled) => on[r] = stream
    /\ \A r \in cancelled : reader[r] \in {"reading", "backoff"}
    /\ cancelled # {} => stream = None
    /\ rt \in {"closing", "connecting"} => \A r \in Links : ReaderLive(r) => r \in cancelled

\* Somebody is watching, unless a report is being acted on or recorded.
Watched ==
    (running /\ phase # "stopping" /\ (rt = "idle" \/ (rt = "restoring" /\ ~redo))) =>
        \E r \in Links : ReaderLive(r) /\ r \notin cancelled

\* Every heartbeat loop runs in heartbeat.serve, and the scope on record is
\* that of the loop that started last.
BeatsAgree ==
    /\ ~monitored => beatScope = None
    /\ \A b \in Links : BeatLive(b) => monitored
    /\ \A b \in Links : (beat[b] \in {"sleeping", "sending"} /\ b \notin beatCancelled) => b = beatScope
    /\ \A b \in beatCancelled : beat[b] \in {"sleeping", "sending"}

\* What the listener was last told is where the reconnection task is.
ToldAgrees ==
    running => /\ (rt = "idle" /\ phase # "stopping") => told = "up"
               /\ rt \in {"spawned", "closing", "connecting"} => told = "down"
               /\ rt = "restoring" => told = "restoring"

IInv ==
    /\ TypeOK
    /\ FlagsAgree
    /\ StreamAgrees
    /\ ReadersAgree
    /\ OneReader
    /\ Watched
    /\ BeatsAgree
    /\ OneHeartbeatLoop
    /\ ToldAgrees

----------------------------------------------------------------------------
(* Type correctness.                                                       *)

\* The identity given to a new link is one that nothing refers to.
LEMMA FreshIsUnused ==
    ASSUME \E l \in Links : Unused(l)
    PROVE  FreshLink \in Links /\ Unused(FreshLink)
  BY Zenon DEF FreshLink

\* Reporting a drop keeps the types of what it touches.
LEMMA HandleDisconnectType ==
    ASSUME TypeOK, HandleDisconnect
    PROVE  /\ reconnecting' \in BOOLEAN /\ redo' \in BOOLEAN
           /\ rt' \in {"idle", "spawned", "closing", "connecting", "restoring"}
           /\ told' \in {"up", "down", "restoring"}
  BY DEF TypeOK, HandleDisconnect

\* Every step keeps every variable in its type.
LEMMA TypeStep == TypeOK /\ [Next]_vars => TypeOK'
  <1> SUFFICES ASSUME TypeOK, [Next]_vars PROVE TypeOK'
    OBVIOUS
  <1> USE DEF linkVars, protocolVars, readerVars, beatVars
  <1>1. ASSUME NEW r \in Links, ReaderNext(r) PROVE TypeOK'
    <2>1. CASE ReaderStart(r)
      BY <2>1, ErrorsAssumption DEF ReaderStart, ReadNext, ReaderExits, TypeOK, Scope
    <2>2. ASSUME NEW isReply \in BOOLEAN, ReaderReceives(r, isReply) PROVE TypeOK'
      BY <2>2, ErrorsAssumption DEF ReaderReceives, ReadNext, ReaderExits, TypeOK, Scope
    <2>3. CASE ReaderSeesEnd(r)
      BY <2>3, HandleDisconnectType, ErrorsAssumption DEF ReaderSeesEnd, ReaderExits, TypeOK, Scope
    <2>4. CASE ReaderFails(r)
      BY <2>4, HandleDisconnectType, ErrorsAssumption DEF ReaderFails, ReaderExits, TypeOK, Scope
    <2>5. CASE ReaderBackoffEnds(r)
      BY <2>5, ErrorsAssumption DEF ReaderBackoffEnds, ReadNext, ReaderExits, TypeOK, Scope
    <2>6. CASE ReaderUnwinds(r)
      BY <2>6, ErrorsAssumption DEF ReaderUnwinds, ReaderExits, TypeOK, Scope
    <2> QED
      BY <1>1, <2>1, <2>2, <2>3, <2>4, <2>5, <2>6 DEF ReaderNext
  <1>2. ASSUME NEW b \in Links, BeatNext(b) PROVE TypeOK'
    <2>1. CASE BeatStart(b)
      BY <2>1 DEF BeatStart, TypeOK, Scope
    <2>2. CASE BeatTimesOut(b)
      BY <2>2, HandleDisconnectType DEF BeatTimesOut, BeatExits, TypeOK, Scope
    <2>3. CASE BeatSends(b)
      BY <2>3, HandleDisconnectType DEF BeatSends, BeatExits, TypeOK, Scope
    <2>4. CASE BeatSent(b)
      BY <2>4 DEF BeatSent, TypeOK, Scope
    <2>5. CASE BeatSendFails(b)
      BY <2>5, HandleDisconnectType DEF BeatSendFails, BeatExits, TypeOK, Scope
    <2>6. CASE BeatUnwinds(b)
      BY <2>6 DEF BeatUnwinds, BeatExits, TypeOK, Scope
    <2> QED
      BY <1>2, <2>1, <2>2, <2>3, <2>4, <2>5, <2>6 DEF BeatNext
  <1>3. CASE ReconnectNext
    <2>1. CASE ReconnectTaskStarts
      BY <2>1 DEF ReconnectTaskStarts, StartPass, TypeOK, Scope
    <2>2. CASE CloseReturns
      <3>1. running' \in BOOLEAN /\ reconnecting' \in BOOLEAN /\ redo' \in BOOLEAN
        BY <2>2, Zenon DEF CloseReturns, Abandon, TaskEnds, TypeOK
      <3> QED
        BY <2>2, <3>1 DEF CloseReturns, Abandon, TaskEnds, TypeOK, Scope
    <2>3. CASE ConnectFails
      <3>1. running' \in BOOLEAN /\ reconnecting' \in BOOLEAN /\ redo' \in BOOLEAN
        BY <2>3, Zenon DEF ConnectFails, Abandon, TaskEnds, TypeOK
      <3> QED
        BY <2>3, <3>1 DEF ConnectFails, Abandon, TaskEnds, TypeOK, Scope
    <2>4. CASE ConnectSucceeds
      BY <2>4, FreshIsUnused DEF ConnectSucceeds, MonitorRestart, TypeOK, Scope, WireState
    <2>5. CASE RestoreReturns
      BY <2>5 DEF RestoreReturns, StartPass, TaskEnds, TypeOK, Scope
    <2>6. CASE ReconnectUnwinds
      BY <2>6 DEF ReconnectUnwinds, TaskEnds, TypeOK, Scope
    <2> QED
      BY <1>3, <2>1, <2>2, <2>3, <2>4, <2>5, <2>6 DEF ReconnectNext
  <1>4. CASE SupervisorNext
    <2>1. CASE Open
      BY <2>1, FreshIsUnused DEF Open, TypeOK, Scope, WireState
    <2>2. CASE StartMonitor
      BY <2>2 DEF StartMonitor, TypeOK, Scope
    <2>3. CASE Stop
      <3>1. running' \in BOOLEAN
        BY <2>3, Zenon DEF Stop
      <3> QED
        BY <2>3, <3>1 DEF Stop, TypeOK, Scope
    <2>4. CASE ServeReturns
      BY <2>4 DEF ServeReturns, TypeOK, Scope
    <2>5. CASE MonitorReturns
      <3>1. monitored' \in BOOLEAN
        BY <2>5, Zenon DEF MonitorReturns
      <3> QED
        BY <2>5, <3>1 DEF MonitorReturns, TypeOK, Scope
    <2>6. CASE Close
      BY <2>6 DEF Close, TypeOK, Scope
    <2>7. CASE CancelOpening
      BY <2>7 DEF CancelOpening, TypeOK, Scope
    <2> QED
      BY <1>4, <2>1, <2>2, <2>3, <2>4, <2>5, <2>6, <2>7 DEF SupervisorNext
  <1>5. ASSUME NEW l \in Links, NEW how \in WireState, Fail(l, how) PROVE TypeOK'
    BY <1>5 DEF Fail, TypeOK, Scope
  <1>6. CASE GoesQuiet
    BY <1>6 DEF GoesQuiet, TypeOK, Scope
  <1>7. CASE UNCHANGED vars
    BY <1>7 DEF vars, TypeOK
  <1> QED
    BY <1>1, <1>2, <1>3, <1>4, <1>5, <1>6, <1>7 DEF Next

\* A new client is well typed.
LEMMA InitType == Init => TypeOK
  <1> SUFFICES ASSUME Init PROVE TypeOK
    OBVIOUS
  <1>1. /\ running \in BOOLEAN /\ served \in BOOLEAN /\ reconnecting \in BOOLEAN
        /\ redo \in BOOLEAN /\ monitored \in BOOLEAN /\ quiet \in BOOLEAN
    BY Zenon DEF Init
  <1> QED
    BY <1>1, ErrorsAssumption DEF Init, TypeOK, Scope, WireState

\* Every reachable state of the connection layer is well typed.
THEOREM TypeCorrect == Spec => []TypeOK
  BY InitType, TypeStep, PTL DEF Spec

----------------------------------------------------------------------------
(* The inductive step: one step per action, and under it the conjuncts     *)
(* about the flags and the stream, about the readers, about the beats.     *)

\* A step of a reader loop preserves the invariant.
LEMMA ReaderStep ==
    ASSUME IInv, TypeOK', NEW r \in Links, ReaderNext(r)
    PROVE  IInv'
  <1> USE DEF IInv, linkVars, protocolVars, readerVars, beatVars
  <1>1. CASE ReaderStart(r)
    <2>1. (FlagsAgree /\ StreamAgrees /\ ToldAgrees)'
      BY <1>1 DEF ReaderStart, ReadNext, ReaderExits, TypeOK, FlagsAgree, StreamAgrees, ToldAgrees
    <2>2. (ReadersAgree /\ OneReader /\ Watched)'
      BY <1>1 DEF ReaderStart, ReadNext, ReaderExits, TypeOK, ReadersAgree, OneReader, Watched, ReaderLive, FlagsAgree, StreamAgrees
    <2>3. (BeatsAgree /\ OneHeartbeatLoop)'
      BY <1>1 DEF ReaderStart, ReadNext, ReaderExits, TypeOK, BeatsAgree, OneHeartbeatLoop, BeatLive, FlagsAgree
    <2> QED
      BY <2>1, <2>2, <2>3
  <1>2. ASSUME NEW isReply \in BOOLEAN, ReaderReceives(r, isReply) PROVE IInv'
    <2>1. (FlagsAgree /\ StreamAgrees /\ ToldAgrees)'
      BY <1>2 DEF ReaderReceives, ReadNext, ReaderExits, ReaderAlive, TypeOK, FlagsAgree, StreamAgrees, ToldAgrees
    <2>2. (ReadersAgree /\ OneReader /\ Watched)'
      BY <1>2 DEF ReaderReceives, ReadNext, ReaderExits, ReaderAlive, TypeOK, ReadersAgree, OneReader, Watched, ReaderLive, FlagsAgree, StreamAgrees
    <2>3. (BeatsAgree /\ OneHeartbeatLoop)'
      BY <1>2 DEF ReaderReceives, ReadNext, ReaderExits, ReaderAlive, TypeOK, BeatsAgree, OneHeartbeatLoop, BeatLive, FlagsAgree
    <2> QED
      BY <2>1, <2>2, <2>3
  <1>3. CASE ReaderSeesEnd(r)
    <2>1. (FlagsAgree /\ StreamAgrees /\ ToldAgrees)'
      BY <1>3 DEF ReaderSeesEnd, ReaderExits, HandleDisconnect, TypeOK, FlagsAgree, StreamAgrees, ToldAgrees
    <2>2. (ReadersAgree /\ OneReader /\ Watched)'
      BY <1>3 DEF ReaderSeesEnd, ReaderExits, HandleDisconnect, TypeOK, ReadersAgree, OneReader, Watched, ReaderLive, FlagsAgree, StreamAgrees
    <2>3. (BeatsAgree /\ OneHeartbeatLoop)'
      BY <1>3 DEF ReaderSeesEnd, ReaderExits, HandleDisconnect, TypeOK, BeatsAgree, OneHeartbeatLoop, BeatLive, FlagsAgree
    <2> QED
      BY <2>1, <2>2, <2>3
  <1>4. CASE ReaderFails(r)
    <2>1. (FlagsAgree /\ StreamAgrees /\ ToldAgrees)'
      BY <1>4 DEF ReaderFails, ReaderExits, HandleDisconnect, ReaderAlive, TypeOK, FlagsAgree, StreamAgrees, ToldAgrees
    <2>2. (ReadersAgree /\ OneReader /\ Watched)'
      BY <1>4 DEF ReaderFails, ReaderExits, HandleDisconnect, ReaderAlive, TypeOK, ReadersAgree, OneReader, Watched, ReaderLive, FlagsAgree, StreamAgrees
    <2>3. (BeatsAgree /\ OneHeartbeatLoop)'
      BY <1>4 DEF ReaderFails, ReaderExits, HandleDisconnect, ReaderAlive, TypeOK, BeatsAgree, OneHeartbeatLoop, BeatLive, FlagsAgree
    <2> QED
      BY <2>1, <2>2, <2>3
  <1>5. CASE ReaderBackoffEnds(r)
    <2>1. (FlagsAgree /\ StreamAgrees /\ ToldAgrees)'
      BY <1>5 DEF ReaderBackoffEnds, ReadNext, ReaderExits, ReaderAlive, TypeOK, FlagsAgree, StreamAgrees, ToldAgrees
    <2>2. (ReadersAgree /\ OneReader /\ Watched)'
      BY <1>5 DEF ReaderBackoffEnds, ReadNext, ReaderExits, ReaderAlive, TypeOK, ReadersAgree, OneReader, Watched, ReaderLive, FlagsAgree, StreamAgrees
    <2>3. (BeatsAgree /\ OneHeartbeatLoop)'
      BY <1>5 DEF ReaderBackoffEnds, ReadNext, ReaderExits, ReaderAlive, TypeOK, BeatsAgree, OneHeartbeatLoop, BeatLive, FlagsAgree
    <2> QED
      BY <2>1, <2>2, <2>3
  <1>6. CASE ReaderUnwinds(r)
    <2>1. (FlagsAgree /\ StreamAgrees /\ ToldAgrees)'
      BY <1>6 DEF ReaderUnwinds, ReaderExits, ReaderAlive, TypeOK, FlagsAgree, StreamAgrees, ToldAgrees
    <2>2. (ReadersAgree /\ OneReader /\ Watched)'
      BY <1>6 DEF ReaderUnwinds, ReaderExits, ReaderAlive, TypeOK, ReadersAgree, OneReader, Watched, ReaderLive, FlagsAgree, StreamAgrees
    <2>3. (BeatsAgree /\ OneHeartbeatLoop)'
      BY <1>6 DEF ReaderUnwinds, ReaderExits, ReaderAlive, TypeOK, BeatsAgree, OneHeartbeatLoop, BeatLive, FlagsAgree
    <2> QED
      BY <2>1, <2>2, <2>3
  <1> QED
    BY <1>1, <1>2, <1>3, <1>4, <1>5, <1>6 DEF ReaderNext

\* A step of a heartbeat loop preserves the invariant.
LEMMA BeatStep ==
    ASSUME IInv, TypeOK', NEW b \in Links, BeatNext(b)
    PROVE  IInv'
  <1> USE DEF IInv, linkVars, protocolVars, readerVars, beatVars
  <1>1. CASE BeatStart(b)
    <2>1. (FlagsAgree /\ StreamAgrees /\ ToldAgrees)'
      BY <1>1 DEF BeatStart, TypeOK, FlagsAgree, StreamAgrees, ToldAgrees
    <2>2. (ReadersAgree /\ OneReader /\ Watched)'
      BY <1>1 DEF BeatStart, TypeOK, ReadersAgree, OneReader, Watched, ReaderLive, FlagsAgree, StreamAgrees
    <2>3. (BeatsAgree /\ OneHeartbeatLoop)'
      BY <1>1 DEF BeatStart, TypeOK, BeatsAgree, OneHeartbeatLoop, BeatLive, FlagsAgree
    <2> QED
      BY <2>1, <2>2, <2>3
  <1>2. CASE BeatTimesOut(b)
    <2>1. (FlagsAgree /\ StreamAgrees /\ ToldAgrees)'
      BY <1>2 DEF BeatTimesOut, BeatExits, HandleDisconnect, TypeOK, FlagsAgree, StreamAgrees, ToldAgrees
    <2>2. (ReadersAgree /\ OneReader /\ Watched)'
      BY <1>2 DEF BeatTimesOut, BeatExits, HandleDisconnect, TypeOK, ReadersAgree, OneReader, Watched, ReaderLive, FlagsAgree, StreamAgrees
    <2>3. (BeatsAgree /\ OneHeartbeatLoop)'
      BY <1>2 DEF BeatTimesOut, BeatExits, HandleDisconnect, TypeOK, BeatsAgree, OneHeartbeatLoop, BeatLive, FlagsAgree
    <2> QED
      BY <2>1, <2>2, <2>3
  <1>3. CASE BeatSends(b)
    <2>1. (FlagsAgree /\ StreamAgrees /\ ToldAgrees)'
      BY <1>3 DEF BeatSends, BeatExits, HandleDisconnect, TypeOK, FlagsAgree, StreamAgrees, ToldAgrees
    <2>2. (ReadersAgree /\ OneReader /\ Watched)'
      BY <1>3 DEF BeatSends, BeatExits, HandleDisconnect, TypeOK, ReadersAgree, OneReader, Watched, ReaderLive, FlagsAgree, StreamAgrees
    <2>3. (BeatsAgree /\ OneHeartbeatLoop)'
      BY <1>3 DEF BeatSends, BeatExits, HandleDisconnect, TypeOK, BeatsAgree, OneHeartbeatLoop, BeatLive, FlagsAgree
    <2> QED
      BY <2>1, <2>2, <2>3
  <1>4. CASE BeatSent(b)
    <2>1. (FlagsAgree /\ StreamAgrees /\ ToldAgrees)'
      BY <1>4 DEF BeatSent, TypeOK, FlagsAgree, StreamAgrees, ToldAgrees
    <2>2. (ReadersAgree /\ OneReader /\ Watched)'
      BY <1>4 DEF BeatSent, TypeOK, ReadersAgree, OneReader, Watched, ReaderLive, FlagsAgree, StreamAgrees
    <2>3. (BeatsAgree /\ OneHeartbeatLoop)'
      BY <1>4 DEF BeatSent, TypeOK, BeatsAgree, OneHeartbeatLoop, BeatLive, FlagsAgree
    <2> QED
      BY <2>1, <2>2, <2>3
  <1>5. CASE BeatSendFails(b)
    <2>1. (FlagsAgree /\ StreamAgrees /\ ToldAgrees)'
      BY <1>5 DEF BeatSendFails, BeatExits, HandleDisconnect, TypeOK, FlagsAgree, StreamAgrees, ToldAgrees
    <2>2. (ReadersAgree /\ OneReader /\ Watched)'
      BY <1>5 DEF BeatSendFails, BeatExits, HandleDisconnect, TypeOK, ReadersAgree, OneReader, Watched, ReaderLive, FlagsAgree, StreamAgrees
    <2>3. (BeatsAgree /\ OneHeartbeatLoop)'
      BY <1>5 DEF BeatSendFails, BeatExits, HandleDisconnect, TypeOK, BeatsAgree, OneHeartbeatLoop, BeatLive, FlagsAgree
    <2> QED
      BY <2>1, <2>2, <2>3
  <1>6. CASE BeatUnwinds(b)
    <2>1. (FlagsAgree /\ StreamAgrees /\ ToldAgrees)'
      BY <1>6 DEF BeatUnwinds, BeatExits, TypeOK, FlagsAgree, StreamAgrees, ToldAgrees
    <2>2. (ReadersAgree /\ OneReader /\ Watched)'
      BY <1>6 DEF BeatUnwinds, BeatExits, TypeOK, ReadersAgree, OneReader, Watched, ReaderLive, FlagsAgree, StreamAgrees
    <2>3. (BeatsAgree /\ OneHeartbeatLoop)'
      BY <1>6 DEF BeatUnwinds, BeatExits, TypeOK, BeatsAgree, OneHeartbeatLoop, BeatLive, FlagsAgree
    <2> QED
      BY <2>1, <2>2, <2>3
  <1> QED
    BY <1>1, <1>2, <1>3, <1>4, <1>5, <1>6 DEF BeatNext

\* A step of the reconnection task preserves the invariant.
LEMMA ReconnectStep ==
    ASSUME IInv, TypeOK', ReconnectNext
    PROVE  IInv'
  <1> USE DEF IInv, linkVars, protocolVars, readerVars, beatVars
  <1>1. CASE ReconnectTaskStarts
    <2>1. (FlagsAgree /\ StreamAgrees /\ ToldAgrees)'
      BY <1>1 DEF ReconnectTaskStarts, StartPass, Settled, TypeOK, FlagsAgree, StreamAgrees, ToldAgrees
    <2>2. (ReadersAgree /\ OneReader /\ Watched)'
      BY <1>1 DEF ReconnectTaskStarts, StartPass, Settled, TypeOK, ReadersAgree, OneReader, Watched, ReaderLive, FlagsAgree, StreamAgrees
    <2>3. (BeatsAgree /\ OneHeartbeatLoop)'
      BY <1>1 DEF ReconnectTaskStarts, StartPass, Settled, TypeOK, BeatsAgree, OneHeartbeatLoop, BeatLive, FlagsAgree
    <2> QED
      BY <2>1, <2>2, <2>3
  <1>2. CASE CloseReturns
    <2>1. (FlagsAgree /\ StreamAgrees /\ ToldAgrees)'
      <3>1. CASE Abandon
        <4>1. ~running' /\ ~reconnecting' /\ ~redo' /\ rt' = "idle"
          BY <3>1, Zenon DEF Abandon, TaskEnds
        <4>2. phase' \in {phase, "stopping"} /\ UNCHANGED <<stream, served, monitored>>
          BY <1>2, <3>1 DEF CloseReturns, Abandon
        <4>3. phase # "closed"
          BY <1>2 DEF CloseReturns, FlagsAgree
        <4> QED
          BY <4>1, <4>2, <4>3 DEF FlagsAgree, StreamAgrees, ToldAgrees
      <3>2. CASE rt' = "connecting" /\ UNCHANGED <<phase, running, reconnecting, redo>>
        BY <1>2, <3>2 DEF CloseReturns, FlagsAgree, StreamAgrees, ToldAgrees
      <3> QED
        BY <1>2, <3>1, <3>2 DEF CloseReturns
    <2>2. (ReadersAgree /\ OneReader /\ Watched)'
      BY <1>2 DEF CloseReturns, Abandon, TaskEnds, TypeOK, ReadersAgree, OneReader, Watched, ReaderLive, FlagsAgree, StreamAgrees
    <2>3. (BeatsAgree /\ OneHeartbeatLoop)'
      BY <1>2 DEF CloseReturns, Abandon, TaskEnds, TypeOK, BeatsAgree, OneHeartbeatLoop, BeatLive, FlagsAgree
    <2> QED
      BY <2>1, <2>2, <2>3
  <1>3. CASE ConnectFails
    <2>1. (FlagsAgree /\ StreamAgrees /\ ToldAgrees)'
      <3>1. CASE Abandon
        <4>1. ~running' /\ ~reconnecting' /\ ~redo' /\ rt' = "idle"
          BY <3>1, Zenon DEF Abandon, TaskEnds
        <4>2. phase' \in {phase, "stopping"} /\ UNCHANGED <<stream, served, monitored>>
          BY <1>3, <3>1 DEF ConnectFails, Abandon
        <4>3. phase # "closed"
          BY <1>3 DEF ConnectFails, FlagsAgree
        <4> QED
          BY <4>1, <4>2, <4>3 DEF FlagsAgree, StreamAgrees, ToldAgrees
      <3>2. CASE UNCHANGED <<phase, running, reconnecting, redo, rt>>
        BY <1>3, <3>2 DEF ConnectFails, FlagsAgree, StreamAgrees, ToldAgrees
      <3> QED
        BY <1>3, <3>1, <3>2 DEF ConnectFails
    <2>2. (ReadersAgree /\ OneReader /\ Watched)'
      BY <1>3 DEF ConnectFails, Abandon, TaskEnds, TypeOK, ReadersAgree, OneReader, Watched, ReaderLive, FlagsAgree, StreamAgrees
    <2>3. (BeatsAgree /\ OneHeartbeatLoop)'
      BY <1>3 DEF ConnectFails, Abandon, TaskEnds, TypeOK, BeatsAgree, OneHeartbeatLoop, BeatLive, FlagsAgree
    <2> QED
      BY <2>1, <2>2, <2>3
  <1>4. CASE ConnectSucceeds
    <2>1. (FlagsAgree /\ StreamAgrees /\ ToldAgrees)'
      BY <1>4, FreshIsUnused, NoneAssumption DEF ConnectSucceeds, MonitorRestart, Settled, TypeOK, FlagsAgree, StreamAgrees, ToldAgrees
    <2>2. (ReadersAgree /\ OneReader /\ Watched)'
      BY <1>4, FreshIsUnused, NoneAssumption, <2>1 DEF ConnectSucceeds, MonitorRestart, Settled, TypeOK, ReadersAgree, OneReader, Watched, ReaderLive, FlagsAgree, StreamAgrees, Unused
    <2>3. (BeatsAgree /\ OneHeartbeatLoop)'
      BY <1>4, FreshIsUnused, NoneAssumption DEF ConnectSucceeds, MonitorRestart, Settled, TypeOK, BeatsAgree, OneHeartbeatLoop, BeatLive, FlagsAgree, Unused
    <2> QED
      BY <2>1, <2>2, <2>3
  <1>5. CASE RestoreReturns
    <2>1. (FlagsAgree /\ StreamAgrees /\ ToldAgrees)'
      <3>1. CASE redo
        BY <1>5, <3>1 DEF RestoreReturns, StartPass, TaskEnds, Settled, TypeOK, FlagsAgree, StreamAgrees, ToldAgrees
      <3>2. CASE ~redo
        <4>1. ~reconnecting' /\ ~redo' /\ rt' = "idle" /\ told' = "up"
          BY <1>5, <3>2, Zenon DEF RestoreReturns, TaskEnds
        <4>2. UNCHANGED <<phase, stream, running, served, monitored>>
          BY <1>5, <3>2 DEF RestoreReturns
        <4>3. rt = "restoring"
          BY <1>5 DEF RestoreReturns
        <4> QED
          BY <4>1, <4>2, <4>3 DEF FlagsAgree, StreamAgrees, ToldAgrees
      <3> QED
        BY <3>1, <3>2
    <2>2. (ReadersAgree /\ OneReader /\ Watched)'
      <3>1. CASE redo
        BY <1>5, <3>1 DEF RestoreReturns, StartPass, TaskEnds, Settled, TypeOK, ReadersAgree, OneReader, Watched, ReaderLive, FlagsAgree, StreamAgrees
      <3>2. CASE ~redo
        <4>1. rt' = "idle" /\ UNCHANGED <<phase, stream, running, served, readerVars>>
          BY <1>5, <3>2 DEF RestoreReturns, TaskEnds
        <4>2. rt = "restoring"
          BY <1>5 DEF RestoreReturns
        <4> QED
          BY <3>2, <4>1, <4>2 DEF ReadersAgree, OneReader, Watched, ReaderLive
      <3> QED
        BY <3>1, <3>2
    <2>3. (BeatsAgree /\ OneHeartbeatLoop)'
      BY <1>5 DEF RestoreReturns, StartPass, TaskEnds, Settled, TypeOK, BeatsAgree, OneHeartbeatLoop, BeatLive, FlagsAgree
    <2> QED
      BY <2>1, <2>2, <2>3
  <1>6. CASE ReconnectUnwinds
    <2>1. (FlagsAgree /\ StreamAgrees /\ ToldAgrees)'
      BY <1>6 DEF ReconnectUnwinds, TaskEnds, TypeOK, FlagsAgree, StreamAgrees, ToldAgrees
    <2>2. (ReadersAgree /\ OneReader /\ Watched)'
      BY <1>6 DEF ReconnectUnwinds, TaskEnds, TypeOK, ReadersAgree, OneReader, Watched, ReaderLive, FlagsAgree, StreamAgrees
    <2>3. (BeatsAgree /\ OneHeartbeatLoop)'
      BY <1>6 DEF ReconnectUnwinds, TaskEnds, TypeOK, BeatsAgree, OneHeartbeatLoop, BeatLive, FlagsAgree
    <2> QED
      BY <2>1, <2>2, <2>3
  <1> QED
    BY <1>1, <1>2, <1>3, <1>4, <1>5, <1>6 DEF ReconnectNext

\* Opening, closing and the return of the two serve() calls preserve the
\* invariant.
LEMMA SupervisorStep ==
    ASSUME IInv, TypeOK', SupervisorNext
    PROVE  IInv'
  <1> USE DEF IInv, linkVars, protocolVars, readerVars, beatVars
  <1>1. CASE Open
    <2>1. (FlagsAgree /\ StreamAgrees /\ ToldAgrees)'
      BY <1>1, FreshIsUnused, NoneAssumption DEF Open, TypeOK, FlagsAgree, StreamAgrees, ToldAgrees
    <2>2. (ReadersAgree /\ OneReader /\ Watched)'
      BY <1>1, FreshIsUnused, NoneAssumption, <2>1 DEF Open, TypeOK, ReadersAgree, OneReader, Watched, ReaderLive, FlagsAgree, StreamAgrees, Unused
    <2>3. (BeatsAgree /\ OneHeartbeatLoop)'
      BY <1>1, FreshIsUnused, NoneAssumption DEF Open, TypeOK, BeatsAgree, OneHeartbeatLoop, BeatLive, FlagsAgree, Unused
    <2> QED
      BY <2>1, <2>2, <2>3
  <1>2. CASE StartMonitor
    <2>1. (FlagsAgree /\ StreamAgrees /\ ToldAgrees)'
      BY <1>2 DEF StartMonitor, Settled, TypeOK, FlagsAgree, StreamAgrees, ToldAgrees
    <2>2. (ReadersAgree /\ OneReader /\ Watched)'
      BY <1>2 DEF StartMonitor, Settled, TypeOK, ReadersAgree, OneReader, Watched, ReaderLive, FlagsAgree, StreamAgrees
    <2>3. (BeatsAgree /\ OneHeartbeatLoop)'
      <3>1. \A k \in Links : ~BeatLive(k)
        BY <1>2 DEF StartMonitor, FlagsAgree, BeatsAgree
      <3>2. beatCancelled = {}
        BY <1>2 DEF StartMonitor, Settled
      <3>3. monitored'
        BY <1>2, Zenon DEF StartMonitor
      <3>4. PICK k : beat' = [beat EXCEPT ![k] = "spawned"]
        BY <1>2 DEF StartMonitor
      <3>5. \A c \in Links : beat'[c] # "done" => c = k /\ beat'[c] = "spawned"
        BY <3>1, <3>4 DEF TypeOK, BeatLive
      <3>6. beatCancelled' = {}
        BY <1>2, <3>2 DEF StartMonitor
      <3> QED
        BY <3>3, <3>5, <3>6 DEF BeatsAgree, OneHeartbeatLoop, BeatLive
    <2> QED
      BY <2>1, <2>2, <2>3
  <1>3. CASE Stop
    <2>1. (FlagsAgree /\ StreamAgrees /\ ToldAgrees)'
      BY <1>3 DEF Stop, TypeOK, FlagsAgree, StreamAgrees, ToldAgrees
    <2>2. (ReadersAgree /\ OneReader /\ Watched)'
      BY <1>3 DEF Stop, TypeOK, ReadersAgree, OneReader, Watched, ReaderLive, FlagsAgree, StreamAgrees
    <2>3. (BeatsAgree /\ OneHeartbeatLoop)'
      BY <1>3 DEF Stop, TypeOK, BeatsAgree, OneHeartbeatLoop, BeatLive, FlagsAgree
    <2> QED
      BY <2>1, <2>2, <2>3
  <1>4. CASE ServeReturns
    <2>1. (FlagsAgree /\ StreamAgrees /\ ToldAgrees)'
      BY <1>4 DEF ServeReturns, TypeOK, FlagsAgree, StreamAgrees, ToldAgrees
    <2>2. (ReadersAgree /\ OneReader /\ Watched)'
      BY <1>4 DEF ServeReturns, TypeOK, ReadersAgree, OneReader, Watched, ReaderLive, FlagsAgree, StreamAgrees
    <2>3. (BeatsAgree /\ OneHeartbeatLoop)'
      BY <1>4 DEF ServeReturns, TypeOK, BeatsAgree, OneHeartbeatLoop, BeatLive, FlagsAgree
    <2> QED
      BY <2>1, <2>2, <2>3
  <1>5. CASE MonitorReturns
    <2>1. (FlagsAgree /\ StreamAgrees /\ ToldAgrees)'
      BY <1>5 DEF MonitorReturns, TypeOK, FlagsAgree, StreamAgrees, ToldAgrees
    <2>2. (ReadersAgree /\ OneReader /\ Watched)'
      BY <1>5 DEF MonitorReturns, TypeOK, ReadersAgree, OneReader, Watched, ReaderLive, FlagsAgree, StreamAgrees
    <2>3. (BeatsAgree /\ OneHeartbeatLoop)'
      BY <1>5 DEF MonitorReturns, TypeOK, BeatsAgree, OneHeartbeatLoop, BeatLive, FlagsAgree
    <2> QED
      BY <2>1, <2>2, <2>3
  <1>6. CASE Close
    <2>1. (FlagsAgree /\ StreamAgrees /\ ToldAgrees)'
      BY <1>6 DEF Close, TypeOK, FlagsAgree, StreamAgrees, ToldAgrees
    <2>2. (ReadersAgree /\ OneReader /\ Watched)'
      BY <1>6 DEF Close, TypeOK, ReadersAgree, OneReader, Watched, ReaderLive, FlagsAgree, StreamAgrees
    <2>3. (BeatsAgree /\ OneHeartbeatLoop)'
      BY <1>6 DEF Close, TypeOK, BeatsAgree, OneHeartbeatLoop, BeatLive, FlagsAgree
    <2> QED
      BY <2>1, <2>2, <2>3
  <1>7. CASE CancelOpening
    <2>1. (FlagsAgree /\ StreamAgrees /\ ToldAgrees)'
      BY <1>7 DEF CancelOpening, TypeOK, FlagsAgree, StreamAgrees, ToldAgrees
    <2>2. (ReadersAgree /\ OneReader /\ Watched)'
      BY <1>7 DEF CancelOpening, TypeOK, ReadersAgree, OneReader, Watched, ReaderLive
    <2>3. (BeatsAgree /\ OneHeartbeatLoop)'
      BY <1>7 DEF CancelOpening, TypeOK, BeatsAgree, OneHeartbeatLoop, BeatLive
    <2> QED
      BY <2>1, <2>2, <2>3
  <1> QED
    BY <1>1, <1>2, <1>3, <1>4, <1>5, <1>6, <1>7 DEF SupervisorNext

\* What the network and the clock do preserves the invariant.
LEMMA EnvironmentStep ==
    ASSUME IInv, TypeOK',
           GoesQuiet \/ \E l \in Links, how \in WireState : Fail(l, how)
    PROVE  IInv'
  <1> USE DEF IInv, linkVars, protocolVars, readerVars, beatVars
  <1>1. UNCHANGED <<phase, stream, protocolVars, readerVars,
                    beat, beatOn, beatCancelled, beatScope, monitored>>
    BY DEF GoesQuiet, Fail
  <1>2. (FlagsAgree /\ StreamAgrees /\ ToldAgrees)'
    BY <1>1 DEF FlagsAgree, StreamAgrees, ToldAgrees
  <1>3. (ReadersAgree /\ OneReader /\ Watched)'
    BY <1>1 DEF ReadersAgree, OneReader, Watched, ReaderLive
  <1>4. (BeatsAgree /\ OneHeartbeatLoop)'
    BY <1>1 DEF BeatsAgree, OneHeartbeatLoop, BeatLive
  <1> QED
    BY <1>2, <1>3, <1>4

\* Inductive: the invariant holds of every reachable state.
THEOREM Inductive == Spec => []IInv
  <1>1. Init => IInv
    <2> SUFFICES ASSUME Init PROVE IInv
      OBVIOUS
    <2>1. TypeOK
      BY InitType
    <2>2. FlagsAgree /\ StreamAgrees /\ ToldAgrees
      BY DEF Init, FlagsAgree, StreamAgrees, ToldAgrees
    <2>3. ReadersAgree /\ OneReader /\ Watched
      BY DEF Init, ReadersAgree, OneReader, Watched, ReaderLive
    <2>4. BeatsAgree /\ OneHeartbeatLoop
      BY DEF Init, BeatsAgree, OneHeartbeatLoop, BeatLive
    <2> QED
      BY <2>1, <2>2, <2>3, <2>4 DEF IInv
  <1>2. IInv /\ [Next]_vars => IInv'
    <2> SUFFICES ASSUME IInv, [Next]_vars PROVE IInv'
      OBVIOUS
    <2>1. TypeOK'
      BY TypeStep DEF IInv
    <2>2. CASE UNCHANGED vars
      BY <2>2 DEF vars, linkVars, protocolVars, readerVars, beatVars, IInv, TypeOK,
         FlagsAgree, StreamAgrees, ReadersAgree, OneReader, Watched, ReaderLive,
         BeatsAgree, OneHeartbeatLoop, BeatLive, ToldAgrees
    <2> QED
      BY <2>1, <2>2, ReaderStep, BeatStep, ReconnectStep, SupervisorStep, EnvironmentStep
         DEF Next
  <1> QED
    BY <1>1, <1>2, PTL DEF Spec

----------------------------------------------------------------------------
(* What the invariant is for.                                              *)

\* No drop is ever lost: a running client that is neither reconnecting nor
\* being closed has a stream and a reader watching it (handle_disconnect, _reconnect_task).
THEOREM NeverStrandedHolds == Spec => []NeverStranded
  <1>1. IInv => NeverStranded
    BY DEF IInv, FlagsAgree, StreamAgrees, ReadersAgree, Watched, NeverStranded, Watches,
       ReaderLive
  <1> QED
    BY <1>1, Inductive, PTL

\* At most one reader loop is alive at any time.
THEOREM OneReaderHolds == Spec => []OneReader
  <1>1. IInv => OneReader
    BY DEF IInv
  <1> QED
    BY <1>1, Inductive, PTL

\* At most one heartbeat loop is alive and not on its way out.
THEOREM OneHeartbeatLoopHolds == Spec => []OneHeartbeatLoop
  <1>1. IInv => OneHeartbeatLoop
    BY DEF IInv
  <1> QED
    BY <1>1, Inductive, PTL

\* A closed client keeps no stream, no task and no flag of its last use.
THEOREM ClosedIsCleanHolds == Spec => []ClosedIsClean
  <1>1. IInv => ClosedIsClean
    BY DEF IInv, TypeOK, FlagsAgree, StreamAgrees, ReadersAgree, BeatsAgree, ClosedIsClean,
       ReaderLive, BeatLive
  <1> QED
    BY <1>1, Inductive, PTL

----------------------------------------------------------------------------
(* The connection layer implements LinkContract.                           *)

\* A step that leaves alone what the listener is told is a stutter.
LEMMA Stutters ==
    ASSUME UNCHANGED <<phase, running, told>>
    PROVE  UNCHANGED ListenerLink
  BY DEF ListenerLink

\* A report is one loss to the listener, or nothing.
LEMMA ReportIsLost ==
    ASSUME IInv, HandleDisconnect, UNCHANGED <<phase, running>>
    PROVE  [Contract!Next]_ListenerLink
  <1>1. CASE running /\ ~reconnecting /\ served
    <2>1. ListenerLink \in {"up", "down", "restoring"} /\ ListenerLink' = "down"
      BY <1>1 DEF HandleDisconnect, ListenerLink, IInv, FlagsAgree, TypeOK
    <2> QED
      BY <2>1 DEF Contract!Next, Contract!Lost, Contract!LostAgain
  <1>2. CASE ~(running /\ ~reconnecting /\ served)
    <2>1. UNCHANGED told
      BY <1>2 DEF HandleDisconnect
    <2> QED
      BY <2>1, Stutters
  <1> QED
    BY <1>1, <1>2

\* Giving up ends a link the listener was told is down.
LEMMA AbandonIsGiveUp ==
    ASSUME IInv, Abandon, rt \in {"closing", "connecting"}
    PROVE  [Contract!Next]_ListenerLink
  <1>1. phase # "closed" /\ phase' # "closed"
    BY DEF Abandon, IInv, FlagsAgree
  <1>2. ~running'
    BY Zenon DEF Abandon
  <1>3. ListenerLink' = "over" /\ ListenerLink \in {"down", "over"}
    BY <1>1, <1>2 DEF ListenerLink, IInv, ToldAgrees
  <1> QED
    BY <1>3 DEF Contract!Next, Contract!GiveUp

\* Every step of the connection layer is a step the contract allows.
LEMMA ContractStep == IInv /\ [Next]_vars => [Contract!Next]_ListenerLink
  <1> SUFFICES ASSUME IInv, [Next]_vars PROVE [Contract!Next]_ListenerLink
    OBVIOUS
  <1> USE DEF linkVars, protocolVars, readerVars, beatVars
  <1>1. ASSUME NEW r \in Links, ReaderNext(r) PROVE [Contract!Next]_ListenerLink
    <2>1. UNCHANGED <<phase, running>>
      BY <1>1 DEF ReaderNext, ReaderStart, ReaderReceives, ReaderSeesEnd, ReaderFails,
         ReaderBackoffEnds, ReaderUnwinds
    <2>2. UNCHANGED told \/ HandleDisconnect
      BY <1>1 DEF ReaderNext, ReaderStart, ReaderReceives, ReaderSeesEnd, ReaderFails,
         ReaderBackoffEnds, ReaderUnwinds
    <2> QED
      BY <2>1, <2>2, ReportIsLost, Stutters
  <1>2. ASSUME NEW b \in Links, BeatNext(b) PROVE [Contract!Next]_ListenerLink
    <2>1. UNCHANGED <<phase, running>>
      BY <1>2 DEF BeatNext, BeatStart, BeatTimesOut, BeatSends, BeatSent, BeatSendFails,
         BeatUnwinds
    <2>2. UNCHANGED told \/ HandleDisconnect
      BY <1>2 DEF BeatNext, BeatStart, BeatTimesOut, BeatSends, BeatSent, BeatSendFails,
         BeatUnwinds
    <2> QED
      BY <2>1, <2>2, ReportIsLost, Stutters
  <1>3. CASE ReconnectNext
    <2>1. CASE ReconnectTaskStarts
      BY <2>1, Stutters DEF ReconnectTaskStarts, StartPass
    <2>2. CASE CloseReturns
      <3>1. CASE Abandon
        BY <2>2, <3>1, AbandonIsGiveUp DEF CloseReturns
      <3>2. CASE UNCHANGED <<phase, running>>
        BY <2>2, <3>2, Stutters DEF CloseReturns
      <3> QED
        BY <2>2, <3>1, <3>2 DEF CloseReturns
    <2>3. CASE ConnectFails
      <3>1. CASE Abandon
        BY <2>3, <3>1, AbandonIsGiveUp DEF ConnectFails
      <3>2. CASE UNCHANGED <<phase, running>>
        BY <2>3, <3>2, Stutters DEF ConnectFails
      <3> QED
        BY <2>3, <3>1, <3>2 DEF ConnectFails
    <2>4. CASE ConnectSucceeds
      <3>1. /\ rt = "connecting" /\ told' = "restoring" /\ UNCHANGED <<phase, running>>
        BY <2>4 DEF ConnectSucceeds
      <3>2. \/ ListenerLink = "down" /\ ListenerLink' = "restoring"
            \/ UNCHANGED ListenerLink
        BY <3>1 DEF ListenerLink, IInv, FlagsAgree, ToldAgrees
      <3> QED
        BY <3>2 DEF Contract!Next, Contract!BeginRestore
    <2>5. CASE RestoreReturns
      <3>1. /\ rt = "restoring" /\ told' \in {"up", "down"} /\ UNCHANGED <<phase, running>>
        BY <2>5 DEF RestoreReturns, StartPass
      <3>2. \/ ListenerLink = "restoring" /\ ListenerLink' \in {"up", "down"}
            \/ UNCHANGED ListenerLink
        BY <3>1 DEF ListenerLink, IInv, FlagsAgree, ToldAgrees
      <3> QED
        BY <3>2 DEF Contract!Next, Contract!Restored, Contract!LostAgain
    <2>6. CASE ReconnectUnwinds
      BY <2>6, Stutters DEF ReconnectUnwinds
    <2> QED
      BY <1>3, <2>1, <2>2, <2>3, <2>4, <2>5, <2>6 DEF ReconnectNext
  <1>4. CASE SupervisorNext
    <2>1. CASE Open
      <3>1. phase = "closed" /\ phase' = "opened" /\ running' /\ told' = "up"
        BY <2>1, Zenon DEF Open
      <3>2. ListenerLink = "closed" /\ ListenerLink' = "up"
        BY <3>1 DEF ListenerLink
      <3> QED
        BY <3>2 DEF Contract!Next, Contract!Open
    <2>2. CASE StartMonitor
      <3>1. phase # "closed" /\ phase' # "closed" /\ UNCHANGED <<running, told>>
        BY <2>2 DEF StartMonitor
      <3> QED
        BY <3>1 DEF ListenerLink
    <2>3. CASE Stop
      <3>1. phase # "closed" /\ phase' # "closed"
        BY <2>3 DEF Stop
      <3>2. ~running'
        BY <2>3, Zenon DEF Stop
      <3>3. ListenerLink \in {"over", "up", "down", "restoring"} /\ ListenerLink' = "over"
        BY <3>1, <3>2 DEF ListenerLink, IInv, TypeOK
      <3> QED
        BY <3>3 DEF Contract!Next, Contract!GiveUp
    <2>4. CASE ServeReturns
      <3>1. phase # "closed" /\ phase' # "closed"
        BY <2>4 DEF ServeReturns, IInv, FlagsAgree
      <3>2. ~running'
        BY <2>4, Zenon DEF ServeReturns
      <3>3. ListenerLink \in {"over", "up", "down", "restoring"} /\ ListenerLink' = "over"
        BY <3>1, <3>2 DEF ListenerLink, IInv, TypeOK
      <3> QED
        BY <3>3 DEF Contract!Next, Contract!GiveUp
    <2>5. CASE MonitorReturns
      BY <2>5, Stutters DEF MonitorReturns
    <2>6. CASE Close
      <3>1. ListenerLink = "over" /\ ListenerLink' = "closed"
        BY <2>6 DEF Close, ListenerLink, IInv, FlagsAgree
      <3> QED
        BY <3>1 DEF Contract!Next, Contract!Close
    <2>7. CASE CancelOpening
      <3>1. phase # "closed" /\ phase' # "closed" /\ UNCHANGED <<running, told>>
        BY <2>7 DEF CancelOpening
      <3> QED
        BY <3>1 DEF ListenerLink
    <2> QED
      BY <1>4, <2>1, <2>2, <2>3, <2>4, <2>5, <2>6, <2>7 DEF SupervisorNext
  <1>5. ASSUME NEW l \in Links, NEW how \in WireState, Fail(l, how)
        PROVE  [Contract!Next]_ListenerLink
    BY <1>5, Stutters DEF Fail
  <1>6. CASE GoesQuiet
    BY <1>6, Stutters DEF GoesQuiet
  <1>7. CASE UNCHANGED vars
    BY <1>7, Stutters DEF vars
  <1> QED
    BY <1>1, <1>2, <1>3, <1>4, <1>5, <1>6, <1>7 DEF Next

\* The connection layer keeps the contract with its listeners: a restoration
\* follows a loss, is concluded before the link counts as up, and a drop
\* meanwhile is told before the next one (the safety part).
THEOREM ImplementsContract == Spec => ListenerContractSafety
  <1>1. Init => Contract!Init
    BY DEF Init, Contract!Init, ListenerLink
  <1> QED
    BY <1>1, ContractStep, Inductive, PTL DEF Spec, ListenerContractSafety, Contract!Spec
=============================================================================
