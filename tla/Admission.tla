----------------------------- MODULE Admission -----------------------------
(***************************************************************************)
(* The capacity boundary of main.py: _acquire_request_slot, _RequestSlot,  *)
(* and the two endpoints that hold a slot while a request runs.            *)
(*                                                                         *)
(* The slots are an asyncio.Semaphore, acquired under a timeout of         *)
(* load_shed_wait_seconds.  Releasing hands the slot to the first waiter   *)
(* by completing its future; the waiter runs later, its timeout may fire   *)
(* first, and until it has run no newcomer is let past it.                 *)
(***************************************************************************)
EXTENDS Integers, Sequences, FiniteSets

CONSTANTS
    Requests,
    Capacity         \* the clamped admission capacity

ASSUME CapacityAssumption == Capacity \in Nat \ {0}
ASSUME RequestsAssumption == IsFiniteSet(Requests)

VARIABLES
    endpoint,        \* "answer" or "stream", by request
    pc,              \* where each request is
    free,            \* semaphore._value
    waiters,         \* semaphore._waiters whose future is pending
    gauge            \* pi_rag_inflight_requests

vars == <<endpoint, pc, free, waiters, gauge>>

Places == {"new",        \* not arrived
           "waiting",    \* in semaphore.acquire()
           "woken",      \* its future is done, its task has not run yet
           "admitted",   \* holds a _RequestSlot
           "responding", \* answer_stream returned, events() not iterated yet
           "running",    \* inside the try whose finally releases
           "done", "shed",
           "lost"}       \* the client left before events() was iterated

(* The queue holds exactly the requests still waiting, each once.           *)
TypeOK ==
    /\ endpoint \in [Requests -> {"answer", "stream"}]
    /\ pc \in [Requests -> Places]
    /\ free \in 0..Capacity
    /\ waiters \in Seq(Requests)
    /\ \A r \in Requests : pc[r] = "waiting" <=> \E i \in DOMAIN waiters : waiters[i] = r
    /\ \A i, j \in DOMAIN waiters : waiters[i] = waiters[j] => i = j
    /\ gauge \in Int

Init ==
    /\ endpoint \in [Requests -> {"answer", "stream"}]
    /\ pc = [r \in Requests |-> "new"]
    /\ free = Capacity
    /\ waiters = <<>>
    /\ gauge = 0

(* deque.remove: the queue without its first r.                             *)
Without(s, r) ==
    LET i == CHOOSE j \in DOMAIN s : s[j] = r
    IN SubSeq(s, 1, i - 1) \o SubSeq(s, i + 1, Len(s))

-----------------------------------------------------------------------------
(* The semaphore, as the standard library has it since Python 3.12.2.       *)

(* Of `avail' slots nobody holds, the first n waiters of s receive one each. *)
Wake(n, avail, s, pcs) ==
    /\ free' = avail - n
    /\ waiters' = SubSeq(s, n + 1, Len(s))
    /\ pc' = [r \in Requests |->
                 IF \E i \in 1..n : s[i] = r THEN "woken" ELSE pcs[r]]

AsManyAs(k, s) == IF k < Len(s) THEN k ELSE Len(s)

(* release() wakes one waiter.                                              *)
Release(pcs) == Wake(AsManyAs(1, waiters), free + 1, waiters, pcs)

LeaveQueue_NoWake(avail, s, pcs) == Wake(0, avail, s, pcs)

(* A task that leaves acquire(), admitted or cancelled, wakes as many       *)
(* waiters as there are slots: newcomers had to queue behind it.            *)
LeaveQueue(avail, s, pcs) == Wake(AsManyAs(avail, s), avail, s, pcs)

(* locked(): a newcomer is not let past a waiter, nor past a woken one.     *)
Locked == free = 0 \/ \E r \in Requests : pc[r] \in {"waiting", "woken"}

-----------------------------------------------------------------------------
(* _acquire_request_slot *)

Acquire(r) ==
    /\ pc[r] = "new"
    /\ IF Locked
       THEN /\ waiters' = Append(waiters, r)
            /\ pc' = [pc EXCEPT ![r] = "waiting"]
            /\ UNCHANGED <<free, gauge>>
       ELSE /\ free' = free - 1
            /\ pc' = [pc EXCEPT ![r] = "admitted"]
            /\ gauge' = gauge + 1
            /\ UNCHANGED waiters
    /\ UNCHANGED endpoint

Resume(r) ==
    /\ pc[r] = "woken"
    /\ LeaveQueue(free, waiters, [pc EXCEPT ![r] = "admitted"])
    /\ gauge' = gauge + 1
    /\ UNCHANGED endpoint

ShedWaiting_Never(r) == FALSE /\ UNCHANGED vars

(* load_shed_wait_seconds has passed: 503 with Retry-After.                 *)
ShedWaiting(r) ==
    /\ pc[r] = "waiting"
    /\ LeaveQueue(free, Without(waiters, r), [pc EXCEPT ![r] = "shed"])
    /\ UNCHANGED <<endpoint, gauge>>

(* The timeout fires after the waiter was given a slot: it gives it back.   *)
ShedWoken(r) ==
    /\ pc[r] = "woken"
    /\ LeaveQueue(free + 1, waiters, [pc EXCEPT ![r] = "shed"])
    /\ UNCHANGED <<endpoint, gauge>>

-----------------------------------------------------------------------------
(* The endpoints *)

(* answer enters its try at once; answer_stream returns a response whose    *)
(* body is iterated by the server once the headers are sent.                *)
Begin(r) ==
    /\ pc[r] = "admitted"
    /\ pc' = [pc EXCEPT ![r] = IF endpoint[r] = "answer" THEN "running" ELSE "responding"]
    /\ UNCHANGED <<endpoint, free, waiters, gauge>>

StartBody(r) ==
    /\ pc[r] = "responding"
    /\ pc' = [pc EXCEPT ![r] = "running"]
    /\ UNCHANGED <<endpoint, free, waiters, gauge>>

(* The client is gone when the headers are sent: an async generator that    *)
(* was never started is dropped without running its finally clause.         *)
LoseBody(r) ==
    /\ pc[r] = "responding"
    /\ pc' = [pc EXCEPT ![r] = "lost"]
    /\ UNCHANGED <<endpoint, free, waiters, gauge>>

(* Answered, failed, timed out or disconnected: the finally clause releases *)
(* the slot, and only the first release of a slot counts.                   *)
Finish(r) ==
    /\ pc[r] = "running"
    /\ Release([pc EXCEPT ![r] = "done"])
    /\ gauge' = gauge - 1
    /\ UNCHANGED endpoint

Ended == (\A r \in Requests : pc[r] \in {"done", "shed", "lost"}) /\ UNCHANGED vars

Serve(r) == Resume(r) \/ ShedWaiting(r) \/ ShedWoken(r) \/ Begin(r)
            \/ StartBody(r) \/ LoseBody(r) \/ Finish(r)

Next == (\E r \in Requests : Acquire(r) \/ Serve(r)) \/ Ended

Spec == Init /\ [][Next]_vars

(* Timers fire, scheduled tasks run, and request_timeout_seconds ends every *)
(* running request; nothing obliges a client to call.                       *)
FairSpec == Spec /\ \A r \in Requests : WF_vars(Serve(r))

-----------------------------------------------------------------------------
(* Properties *)

Holding == {r \in Requests : pc[r] \in {"woken", "admitted", "responding", "running", "lost"}}

(* A slot is free or held by one request, through every order of release,   *)
(* wake-up and timeout: none is lost between a waiter woken and a waiter    *)
(* shed, none is counted twice, and the gauge counts those in use.          *)
SlotsConserved ==
    /\ free + Cardinality(Holding) = Capacity
    /\ gauge = Cardinality({r \in Holding : pc[r] # "woken"})

(* No waiter is left to its timeout while a slot is free, except behind a   *)
(* woken one whose task has still to run and will wake it.                  *)
NoIdleSlot ==
    free > 0 /\ waiters # <<>> => \E r \in Requests : pc[r] = "woken"

(* Slots are neither lost nor left unused. *)
SlotsSound == TypeOK /\ SlotsConserved /\ NoIdleSlot

(* A request that calls is answered or shed: the wait is bounded whatever   *)
(* the other requests do.                                                   *)
EveryCallEnds ==
    \A r \in Requests : pc[r] = "waiting" ~> pc[r] \in {"done", "shed", "lost"}
=============================================================================
