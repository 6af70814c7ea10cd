----------------------------- MODULE LLMDispatch ----------------------------
(***************************************************************************)
(* One provider slot of src/llm_dispatcher: a call passes the concurrency  *)
(* guard (a queue of bounded depth in front of a semaphore), the sliding-  *)
(* window rate limiter and the retry policy, and gives its slot back.      *)
(*                                                                         *)
(* Time is kept as ages: how long ago a request was admitted, in ticks, up *)
(* to the length of the limiter's window.  Both asyncio queues are FIFO;   *)
(* the model lets any waiter go first.                                     *)
(***************************************************************************)
EXTENDS Integers, FiniteSets, Sequences

CONSTANTS
  Calls,          (* calls of chat, chat_with_image, embed                   *)
  MaxConcurrent,
  MaxQueueDepth,
  QueueTimeout,   (* TRUE iff queue_timeout is set                           *)
  MaxRequests,    (* max_rpm                                                 *)
  Window,         (* rpm_window_seconds, in ticks                            *)
  MaxRetries,
  Cancellable     (* TRUE iff callers may cancel the calls they await        *)

ASSUME CallsAssumption == IsFiniteSet(Calls)
ASSUME LimitsAssumption ==
  /\ MaxConcurrent \in Nat /\ MaxQueueDepth \in Nat /\ MaxRetries \in Nat
  /\ MaxRequests \in Nat \ {0} /\ Window \in Nat \ {0}
  /\ QueueTimeout \in BOOLEAN /\ Cancellable \in BOOLEAN

VARIABLES
  stage,      (* where each call stands                                      *)
  waiting,    (* ConcurrencyGuard._waiting                                   *)
  free,       (* free permits of ConcurrencyGuard._semaphore                 *)
  stamps,     (* RateLimiter._timestamps, oldest first, as ages              *)
  nap,        (* ticks left of each call's sleep in the limiter              *)
  attempt     (* loop variable of RetryPolicy.execute                        *)

vars == <<stage, waiting, free, stamps, nap, attempt>>

(* Stages in which a call holds a slot; "asleep" holds the limiter's lock.  *)
Holding == {"limiter", "asleep", "request", "backoff"}
Counted == {"queued", "cancelled"}
Ended == {"served", "failed", "refused", "cancelled"}
Stages == {"idle", "queued"} \cup Holding \cup Ended

In(stages) == {c \in Calls : stage[c] \in stages}

Go(c, s) == stage' = [stage EXCEPT ![c] = s]
-----------------------------------------------------------------------------
Init ==
  /\ stage = [c \in Calls |-> "idle"]
  /\ waiting = 0
  /\ free = MaxConcurrent
  /\ stamps = <<>>
  /\ nap = [c \in Calls |-> 0]
  /\ attempt = [c \in Calls |-> 0]

(* Faulty variant: the depth is checked one too late.                       *)
EnterOneTooMany(c) ==
  /\ stage[c] = "idle"
  /\ IF waiting > MaxQueueDepth
     THEN Go(c, "refused") /\ UNCHANGED waiting
     ELSE Go(c, "queued") /\ waiting' = waiting + 1
  /\ UNCHANGED <<free, stamps, nap, attempt>>

(* _enter_queue: a full queue refuses at once.                              *)
Enter(c) ==
  /\ stage[c] = "idle"
  /\ IF waiting >= MaxQueueDepth
     THEN Go(c, "refused") /\ UNCHANGED waiting
     ELSE Go(c, "queued") /\ waiting' = waiting + 1
  /\ UNCHANGED <<free, stamps, nap, attempt>>

(* Faulty variant: a call that gets a permit stays counted.                 *)
AdmitStaysQueued(c) ==
  /\ stage[c] = "queued"
  /\ free > 0
  /\ free' = free - 1
  /\ Go(c, "limiter")
  /\ UNCHANGED <<waiting, stamps, nap, attempt>>

(* The semaphore hands out a permit, the call leaves the queue.             *)
Admit(c) ==
  /\ stage[c] = "queued"
  /\ free > 0
  /\ free' = free - 1
  /\ waiting' = waiting - 1
  /\ Go(c, "limiter")
  /\ UNCHANGED <<stamps, nap, attempt>>

(* wait_for(semaphore.acquire(), queue_timeout) times out.                  *)
GiveUpWaiting(c) ==
  /\ QueueTimeout
  /\ stage[c] = "queued"
  /\ waiting' = waiting - 1
  /\ Go(c, "refused")
  /\ UNCHANGED <<free, stamps, nap, attempt>>

(* The oldest stamps are popped until one is within the window.             *)
Fresh(ages) ==
  LET stale == {i \in DOMAIN ages : \A j \in 1..i : ages[j] >= Window}
  IN  SubSeq(ages, Cardinality(stale) + 1, Len(ages))

(* The call's first request; those that follow it are not recorded here.    *)
Pass(c) ==
  /\ stamps' = Append(Fresh(stamps), 0)
  /\ Go(c, "request")

(* wait_time, worked out before the sleep.                                  *)
FallAsleep(c) ==
  /\ stamps' = Fresh(stamps)
  /\ nap' = [nap EXCEPT ![c] = Window - Fresh(stamps)[1]]
  /\ Go(c, "asleep")

(* Faulty variant: the limiter sleeps without its lock.                     *)
LimitUnlocked(c) ==
  /\ stage[c] = "limiter"
  /\ IF Len(Fresh(stamps)) < MaxRequests
     THEN Pass(c) /\ UNCHANGED nap
     ELSE FallAsleep(c)
  /\ UNCHANGED <<waiting, free, attempt>>

(* RateLimiter.acquire gets its lock: stamps that left the window are       *)
(* dropped; with the window full it sleeps, holding the lock.               *)
Limit(c) ==
  /\ stage[c] = "limiter"
  /\ In({"asleep"}) = {}
  /\ IF Len(Fresh(stamps)) < MaxRequests
     THEN Pass(c) /\ UNCHANGED nap
     ELSE FallAsleep(c)
  /\ UNCHANGED <<waiting, free, attempt>>

(* The sleep is over.  The limit is not looked at again.                    *)
Wake(c) ==
  /\ stage[c] = "asleep"
  /\ nap[c] = 0
  /\ Pass(c)
  /\ UNCHANGED <<waiting, free, nap, attempt>>

(* The slot is given back: the finally of _dispatch.                        *)
Leave(c, end) == Go(c, end) /\ free' = free + 1

Answered(c) ==
  /\ stage[c] = "request"
  /\ Leave(c, "served")
  /\ UNCHANGED <<waiting, stamps, nap, attempt>>

(* Faulty variant: the last failure keeps the slot.                         *)
FaultKeepsSlot(c) ==
  /\ stage[c] = "request"
  /\ IF attempt[c] < MaxRetries
     THEN Go(c, "backoff") /\ attempt' = [attempt EXCEPT ![c] = @ + 1]
     ELSE Go(c, "failed") /\ UNCHANGED attempt
  /\ UNCHANGED <<waiting, free, stamps, nap>>

(* Faulty variant: a failed attempt is not counted.                         *)
FaultUncounted(c) ==
  /\ stage[c] = "request"
  /\ Go(c, "backoff")
  /\ UNCHANGED <<waiting, free, stamps, nap, attempt>>

(* The request raises or exceeds request_timeout.                           *)
Fault(c) ==
  /\ stage[c] = "request"
  /\ \/ /\ attempt[c] < MaxRetries
        /\ attempt' = [attempt EXCEPT ![c] = @ + 1]
        /\ Go(c, "backoff")
        /\ UNCHANGED free
     \/ /\ attempt[c] >= MaxRetries
        /\ Leave(c, "failed")
        /\ UNCHANGED attempt
  /\ UNCHANGED <<waiting, stamps, nap>>

(* The backoff is over and the request is sent again, past the limiter.     *)
Resend(c) ==
  /\ stage[c] = "backoff"
  /\ Go(c, "request")
  /\ UNCHANGED <<waiting, free, stamps, nap, attempt>>

(* CancelledError is no Exception: acquire() does not leave the queue, and  *)
(* the retry policy does not catch it; _dispatch's finally does its work.   *)
Cancel(c) ==
  /\ Cancellable
  /\ \/ stage[c] = "queued" /\ Go(c, "cancelled") /\ UNCHANGED free
     \/ stage[c] \in Holding /\ Leave(c, "cancelled")
  /\ UNCHANGED <<waiting, stamps, nap, attempt>>

(* A tick of the clock.                                                     *)
Older(ages) == [i \in DOMAIN ages |-> IF ages[i] < Window THEN ages[i] + 1 ELSE Window]
Tick ==
  /\ stamps' = Older(stamps)
  /\ nap' = [c \in Calls |-> IF nap[c] > 0 THEN nap[c] - 1 ELSE 0]
  /\ UNCHANGED <<stage, waiting, free, attempt>>

Step(c) ==
  \/ Admit(c)
  \/ Limit(c)
  \/ Wake(c)
  \/ Answered(c) \/ Fault(c)
  \/ Resend(c)

Next == Tick \/ \E c \in Calls : Step(c) \/ Enter(c) \/ GiveUpWaiting(c) \/ Cancel(c)

(* The clock goes on, and the event loop runs what can run; a request ends  *)
(* because request_timeout is set (120 seconds by default).  Nobody need    *)
(* call, time out in the queue, or cancel.                                  *)
Fairness == WF_vars(Tick) /\ \A c \in Calls : WF_vars(Step(c))

Spec == Init /\ [][Next]_vars /\ Fairness
-----------------------------------------------------------------------------
(* However calls are refused, fail, are retried or are cancelled, no slot   *)
(* is lost and none is used twice: at most max_concurrent requests are      *)
(* under way, and that many can always be again.                            *)
SlotsAddUp == free + Cardinality(In(Holding)) = MaxConcurrent

(* A call is refused on arrival only "if too many tasks are already         *)
(* queued".                                                                 *)
RefusedMeansFull ==
  [][\A c \in Calls : stage[c] = "idle" /\ stage'[c] = "refused"
       => Cardinality(In({"queued"})) >= MaxQueueDepth]_vars

(* It is, as long as no caller cancels a call: no refusal, time-out,        *)
(* failure or retry takes room in the queue.  A call that is cancelled in   *)
(* the queue takes its place for good.                                      *)
RefusedMeansFullUncancelled ==
  [][\A c \in Calls :
       stage[c] = "idle" /\ stage'[c] = "refused" /\ In({"cancelled"}) = {}
         => Cardinality(In({"queued"})) >= MaxQueueDepth]_vars

(* The queue in front of the semaphore never grows beyond its depth, not    *)
(* even when the counter has lost track of cancelled calls.                 *)
QueueBounded == Cardinality(In({"queued"})) <= MaxQueueDepth

(* The limiter admits at most max_requests calls in any window, though it   *)
(* does not look at the limit again after its sleep.                        *)
AdmissionsWithinRate == Len(Fresh(stamps)) <= MaxRequests

(* Every call that was made is decided: no deadlock between the queue, the  *)
(* limiter's lock and the retries, and no lost permit.                      *)
EveryCallEnds == \A c \in Calls : stage[c] # "idle" ~> stage[c] \in Ended
-----------------------------------------------------------------------------
(* The inductive invariant behind the guard's properties: the counter of    *)
(* the queue never falls below the calls in it, and counts none but those   *)
(* and the cancelled ones.                                                  *)
Queued == In({"queued"})

QueueCovered ==
  /\ Cardinality(Queued) <= waiting
  /\ waiting <= MaxQueueDepth
  /\ waiting <= Cardinality(In(Counted))

IInv ==
  /\ stage \in [Calls -> Stages]
  /\ waiting \in Nat
  /\ free \in Nat
  /\ SlotsAddUp
  /\ QueueCovered
=============================================================================
