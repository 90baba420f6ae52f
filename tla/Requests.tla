------------------------------ MODULE Requests ------------------------------
(***************************************************************************)
(* Request correlation in Protocol: send_request, request, send_event, the *)
(* dispatch of what the reader reads, and the waking of pending requests   *)
(* when the protocol stops.                                                *)
(*                                                                         *)
(* The connection layer underneath is LinkContract, which Connection       *)
(* implements: this module adds to its steps what they do to the stream    *)
(* and to the requests in flight.                                          *)
(***************************************************************************)
EXTENDS Naturals, FiniteSets, SequencesExt

CONSTANTS
    Callers,   \* tasks that use the protocol, one call at a time each
    MaxIds,    \* bound on the client message ids handed out
    MaxAnswers \* bound on the messages under way from the server

ASSUME BoundsAssumption == MaxIds \in Nat \ {0} /\ MaxAnswers \in Nat \ {0}

VARIABLES
    link,      \* LinkContract's state; running is link \in Running
    failed,    \* _fail_pending has run since the protocol stopped running
    stream,    \* transport._stream: none, live, or dead (failed, not closed)
    inbox,     \* ids the server has received on the current stream
    answers,   \* messages under way from the server on the current stream
    nextId,    \* the id generator's counter
    stage,     \* where each caller is suspended
    id,        \* the id of its call, 0 for send_event
    pending,   \* protocol._pending: per id, absent or its outcome
    lock,      \* callers at the write lock in order; the first one holds it
    res        \* how the last call of each idle caller ended

linkVars == <<link, failed, stream, inbox, answers>>
callVars == <<nextId, stage, id, pending, lock, res>>
vars == <<linkVars, callVars>>

Link == INSTANCE LinkContract

Ids     == 1..MaxIds
Running == {"up", "down", "restoring"}
Message == [of : Ids, kind : {"reply", "odd", "error"}]

Absent  == [tag |-> "absent", of |-> 0]    \* no such key
Open    == [tag |-> "open", of |-> 0]      \* event not set, outcome None
Refused == [tag |-> "closed", of |-> 0]    \* CTraderConnectionClosedError

Slot == [tag : {"absent", "open", "closed", "reply", "odd", "error"}, of : 0..MaxIds]
Result == [tag : {"none", "closed", "foreign", "timeout", "cancelled", "sent", "reply", "api"},
           of : 0..MaxIds, id : 0..MaxIds]

Unended == [tag |-> "none", of |-> 0, id |-> 0]

TypeOK ==
    /\ link \in {"closed", "up", "down", "restoring", "over"}
    /\ failed \in BOOLEAN
    /\ stream \in {"none", "live", "dead"}
    /\ inbox \in SUBSET Ids
    /\ answers \in SUBSET Message
    /\ nextId \in 1..(MaxIds + 1)
    /\ stage \in [Callers -> {"idle", "locking", "sending", "adrift", "waiting", "expiring"}]
    /\ id \in [Callers -> 0..MaxIds]
    /\ pending \in [Ids -> Slot]
    /\ lock \in Seq(Callers)
    /\ res \in [Callers -> Result]

Init ==
    /\ Link!Init /\ failed = TRUE
    /\ stream = "none" /\ inbox = {} /\ answers = {}
    /\ nextId = 1
    /\ stage = [c \in Callers |-> "idle"]
    /\ id = [c \in Callers |-> 0]
    /\ pending = [i \in Ids |-> Absent]
    /\ lock = <<>>
    /\ res = [c \in Callers |-> Unended]

----------------------------------------------------------------------------
(* The link underneath.                                                    *)

\* _fail_pending that skips the requests still being written.
FailWaiting ==
    pending' = [i \in Ids |->
        IF \E c \in Callers : id[c] = i /\ stage[c] = "waiting" THEN Refused ELSE pending[i]]

FailPending ==
    pending' = [i \in Ids |-> IF pending[i] = Absent THEN Absent ELSE Refused]

\* transport.close(): the writes under way on the stream are cast adrift.
CloseStream ==
    /\ stream' = "none" /\ inbox' = {} /\ answers' = {}
    /\ stage' = [c \in Callers |-> IF stage[c] = "sending" THEN "adrift" ELSE stage[c]]

NewStream == stream' = "live" /\ inbox' = {} /\ answers' = {}

OpenLink ==
    /\ Link!Open
    /\ NewStream
    /\ failed' = FALSE
    /\ UNCHANGED callVars

\* The network loses the stream, and what was under way on it.
Fail ==
    /\ stream = "live"
    /\ stream' = "dead" /\ inbox' = {} /\ answers' = {}
    /\ UNCHANGED <<link, failed, callVars>>

Drop ==
    /\ Link!Lost
    /\ UNCHANGED <<failed, stream, inbox, answers, callVars>>

\* The reconnection task closes the old stream ...
Replace ==
    /\ link = "down" /\ stream # "none"
    /\ CloseStream
    /\ UNCHANGED <<link, failed, nextId, id, pending, lock, res>>

\* ... and has a new one when it calls the listeners.
Reconnect ==
    /\ stream = "none"
    /\ Link!BeginRestore
    /\ NewStream
    /\ UNCHANGED <<failed, callVars>>

EndRestore ==
    /\ Link!Restored \/ Link!LostAgain
    /\ UNCHANGED <<failed, stream, inbox, answers, callVars>>

\* _abandon wakes every pending request as it stops the protocol.
Abandon ==
    /\ link = "down" /\ stream = "none"
    /\ Link!GiveUp
    /\ FailPending
    /\ failed' = TRUE
    /\ UNCHANGED <<stream, inbox, answers, nextId, stage, id, lock, res>>

\* protocol.stop() only stops the protocol ...
Stop ==
    /\ Link!GiveUp
    /\ UNCHANGED <<failed, stream, inbox, answers, callVars>>

\* ... and serve() wakes the requests as it returns.
ServeReturns ==
    /\ link = "over"
    /\ FailPending
    /\ failed' = TRUE
    /\ UNCHANGED <<link, stream, inbox, answers, nextId, stage, id, lock, res>>

CloseLink ==
    /\ failed
    /\ Link!Close
    /\ CloseStream
    /\ UNCHANGED <<failed, nextId, id, pending, lock, res>>

----------------------------------------------------------------------------
(* Protocol.send_request, request and send_event, as seen by a caller.     *)

\* ClientMessageIdGenerator: one counter for the life of the client.
NextId == nextId + 1

\* The slot is left behind when a call fails.
FinishLeaking(c, tag, of) ==
    /\ stage' = [stage EXCEPT ![c] = "idle"]
    /\ id' = [id EXCEPT ![c] = 0]
    /\ res' = [res EXCEPT ![c] = [tag |-> tag, of |-> of, id |-> id[c]]]
    /\ pending' = IF id[c] # 0 /\ tag \in {"reply", "api"}
                  THEN [pending EXCEPT ![id[c]] = Absent] ELSE pending

\* The call is over: the finally clause removes its slot.
Finish(c, tag, of) ==
    /\ stage' = [stage EXCEPT ![c] = "idle"]
    /\ id' = [id EXCEPT ![c] = 0]
    /\ res' = [res EXCEPT ![c] = [tag |-> tag, of |-> of, id |-> id[c]]]
    /\ pending' = IF id[c] = 0 THEN pending ELSE [pending EXCEPT ![id[c]] = Absent]

\* A call on a protocol that is not running is refused at once.  Otherwise
\* the slot is made and the caller queues for the write lock.
Call(c) ==
    /\ stage[c] = "idle"
    /\ link \in Running
    /\ nextId \in Ids
    /\ nextId' = NextId
    /\ id' = [id EXCEPT ![c] = nextId]
    /\ pending' = [pending EXCEPT ![nextId] = Open]
    /\ stage' = [stage EXCEPT ![c] = "locking"]
    /\ lock' = Append(lock, c)
    /\ res' = [res EXCEPT ![c] = Unended]
    /\ UNCHANGED linkVars

\* send_event: the same write, with no id and no slot.
CallEvent(c) ==
    /\ stage[c] = "idle"
    /\ link \in Running
    /\ stage' = [stage EXCEPT ![c] = "locking"]
    /\ lock' = Append(lock, c)
    /\ res' = [res EXCEPT ![c] = Unended]
    /\ UNCHANGED <<linkVars, nextId, id, pending>>

CallRefused(c) ==
    /\ stage[c] = "idle"
    /\ link \notin Running
    /\ Finish(c, "closed", 0)
    /\ UNCHANGED <<linkVars, nextId, lock>>

\* The lock is acquired: write to the stream, or fail without one.
BeginSend(c) ==
    /\ stage[c] = "locking" /\ Head(lock) = c
    /\ \/ /\ stream # "none"
          /\ stage' = [stage EXCEPT ![c] = "sending"]
          /\ UNCHANGED <<id, pending, lock, res>>
       \/ /\ stream = "none"
          /\ Finish(c, "closed", 0)
          /\ lock' = Tail(lock)
    /\ UNCHANGED <<linkVars, nextId>>

\* The write completes and the lock is released.  The server has received it
\* if the stream is still live.
SendDone(c) ==
    /\ stage[c] \in {"sending", "adrift"}
    /\ lock' = Tail(lock)
    /\ inbox' = IF stage[c] = "sending" /\ stream = "live" /\ id[c] # 0
                THEN inbox \cup {id[c]} ELSE inbox
    /\ \/ /\ id[c] # 0
          /\ stage' = [stage EXCEPT ![c] = "waiting"]
          /\ UNCHANGED <<id, pending, res>>
       \/ /\ id[c] = 0
          /\ Finish(c, "sent", 0)
    /\ UNCHANGED <<link, failed, stream, answers, nextId>>

\* The write fails, on a dead stream or one closed underneath it: the
\* stream's own exception passes through Transport.send and send_request.
SendFails(c) ==
    /\ \/ stage[c] = "sending" /\ stream = "dead"
       \/ stage[c] = "adrift"
    /\ lock' = Tail(lock)
    /\ Finish(c, "foreign", 0)
    /\ UNCHANGED <<linkVars, nextId>>

\* The timeout fires before an answer; the caller has yet to unwind.
TimeoutFires(c) ==
    /\ stage[c] = "waiting"
    /\ pending[id[c]] = Open
    /\ stage' = [stage EXCEPT ![c] = "expiring"]
    /\ UNCHANGED <<linkVars, nextId, id, pending, lock, res>>

TimedOut(c) ==
    /\ stage[c] = "expiring"
    /\ Finish(c, "timeout", 0)
    /\ UNCHANGED <<linkVars, nextId, lock>>

\* The event is set: report shutdown, raise the error, reject an answer of
\* the wrong type, or return the answer.
Resume(c) ==
    /\ stage[c] = "waiting"
    /\ pending[id[c]] # Open
    /\ LET outcome == pending[id[c]] IN
       \/ /\ link \notin Running \/ outcome.tag = "closed"
          /\ Finish(c, "closed", 0)
       \/ /\ link \in Running /\ outcome.tag \in {"error", "odd"}
          /\ Finish(c, "api", outcome.of)
       \/ /\ link \in Running /\ outcome.tag = "reply"
          /\ Finish(c, "reply", outcome.of)
    /\ UNCHANGED <<linkVars, nextId, lock>>

\* A cancelled caller does not give the lock up.
CancelHoldingLock(c) ==
    /\ stage[c] # "idle"
    /\ Finish(c, "cancelled", 0)
    /\ UNCHANGED <<linkVars, nextId, lock>>

\* The caller's own scope is cancelled: the lock or its place at the lock is
\* given up, and the slot removed.
Cancel(c) ==
    /\ stage[c] # "idle"
    /\ Finish(c, "cancelled", 0)
    /\ \/ \E k \in DOMAIN lock : lock[k] = c /\ lock' = RemoveAt(lock, k)
       \/ (\A k \in DOMAIN lock : lock[k] # c) /\ UNCHANGED lock
    /\ UNCHANGED <<linkVars, nextId>>

----------------------------------------------------------------------------
(* The server, and the reader that dispatches what it sends.               *)

\* The server answers in any order, and may send several messages that bear
\* the same id.
Answer(m) ==
    /\ m.of \in inbox /\ Cardinality(answers) < MaxAnswers
    /\ answers' = answers \cup {m}
    /\ UNCHANGED <<link, failed, stream, inbox, callVars>>

\* Any waiting request is given the message.
DispatchToAny(m) ==
    /\ m \in answers /\ link \in Running
    /\ answers' = answers \ {m}
    /\ \E c \in Callers :
         /\ stage[c] = "waiting"
         /\ pending' = [pending EXCEPT ![id[c]] = [tag |-> m.kind, of |-> m.of]]
    /\ UNCHANGED <<link, failed, stream, inbox, nextId, stage, id, lock, res>>

\* The message itself is stored in place of the outcome made from it.
DispatchRaw(m) ==
    /\ m \in answers /\ link \in Running
    /\ answers' = answers \ {m}
    /\ pending' = IF pending[m.of] = Absent THEN pending ELSE [pending EXCEPT ![m.of] = m]
    /\ UNCHANGED <<link, failed, stream, inbox, nextId, stage, id, lock, res>>

\* _dispatch_message: the answer becomes the outcome of its request, if that
\* is still pending, and an event if it is not.
Dispatch(m) ==
    /\ m \in answers /\ link \in Running
    /\ answers' = answers \ {m}
    /\ \/ /\ pending[m.of] # Absent
          /\ pending' = [pending EXCEPT ![m.of] = [tag |-> m.kind, of |-> m.of]]
       \/ /\ pending[m.of] = Absent
          /\ UNCHANGED pending
    /\ UNCHANGED <<link, failed, stream, inbox, nextId, stage, id, lock, res>>

----------------------------------------------------------------------------

LinkNext ==
    \/ OpenLink
    \/ Fail
    \/ Drop
    \/ Replace
    \/ Reconnect
    \/ EndRestore
    \/ Abandon
    \/ Stop
    \/ ServeReturns
    \/ CloseLink

CallNext(c) ==
    \/ Call(c)
    \/ CallEvent(c)
    \/ CallRefused(c)
    \/ BeginSend(c)
    \/ SendDone(c)
    \/ SendFails(c)
    \/ TimeoutFires(c)
    \/ TimedOut(c)
    \/ Resume(c)
    \/ Cancel(c)

Next ==
    \/ LinkNext
    \/ \E c \in Callers : CallNext(c)
    \/ \E m \in Message : Answer(m) \/ Dispatch(m)

Spec == Init /\ [][Next]_vars

\* A caller that can run is run, timers fire, and a write ends, with TCP's
\* own timeout if nothing else.  Nothing is asked of the server or the link.
Fairness ==
    \A c \in Callers :
        /\ WF_vars(BeginSend(c))
        /\ WF_vars(SendDone(c) \/ SendFails(c))
        /\ WF_vars(TimeoutFires(c) \/ Resume(c))
        /\ WF_vars(TimedOut(c))

FairSpec == Spec /\ Fairness

----------------------------------------------------------------------------
(* Properties.                                                             *)

Busy == {c \in Callers : stage[c] # "idle"}

\* send_request's slot lives exactly as long as its call: a slot that leaks
\* would swallow a late answer, a slot removed early would turn the answer
\* into an event, and no two calls share one.
SlotPerCall ==
    /\ \A i \in Ids : pending[i] # Absent <=> \E c \in Busy : id[c] = i
    /\ \A c, d \in Busy : (id[c] = id[d] /\ id[c] # 0) => c = d

\* A call that returns an answer, or raises the server's error, got the one
\* the server gave to that very call: timeouts, late and repeated answers and
\* reconnections never hand it somebody else's.
OwnAnswer ==
    \A c \in Callers : res[c].tag \in {"reply", "api"} => res[c].of = res[c].id

\* Once the protocol has stopped and woken its requests, no call is left
\* waiting for an event that nobody will set.
NobodyLeftWaiting ==
    (failed /\ link \notin Running) => \A i \in Ids : pending[i] # Open

\* The write lock is held or waited for by the calls that have yet to finish
\* writing and by nobody else, each of them once: a lock that outlived its
\* holder would silence the client.
LockMatchesWriters ==
    /\ \A c \in Callers :
         stage[c] \in {"locking", "sending", "adrift"} <=> \E k \in DOMAIN lock : lock[k] = c
    /\ \A j, k \in DOMAIN lock : lock[j] = lock[k] => j = k
    /\ \A k \in DOMAIN lock : stage[lock[k]] \in {"sending", "adrift"} => k = 1

\* Every call ends, whatever the server and the link do.
EveryCallEnds == \A c \in Callers : (stage[c] # "idle") ~> (stage[c] = "idle")

\* docs/api/exceptions.md: "Every exception the library raises derives from
\* CTraderError": no call ends with an exception of the stream underneath.
OnlyLibraryErrors == \A c \in Callers : res[c].tag # "foreign"
=============================================================================
