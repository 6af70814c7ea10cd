---------------------------- MODULE AsyncRWLock -----------------------------
(***************************************************************************)
(* idea_agents/concurrency.py: the read-write lock of JsonIdeaStore, built *)
(* on an asyncio.Condition.  The condition's own lock is never held across *)
(* an await but the one in wait(), so each stretch between two waits is    *)
(* one step.  A task that is woken competes with the tasks that arrive: it *)
(* looks again, and may have to go back to sleep.                          *)
(***************************************************************************)
EXTENDS Naturals, FiniteSets

CONSTANTS
  Tasks,       (* the tasks of the event loop that use the store             *)
  CancelBound  (* bound: tasks cancelled while they wait for the lock        *)

ASSUME RWLockAssumption == IsFiniteSet(Tasks) /\ CancelBound \in Nat

VARIABLES
  readers,         (* _readers                                               *)
  writer,          (* _writer                                                *)
  waitingWriters,  (* _waiting_writers                                       *)
  stage,           (* what each task does                                    *)
  lost,            (* history: writers cancelled while they waited           *)
  cancels          (* tasks cancelled while they waited                      *)

lock == <<readers, writer, waitingWriters>>
vars == <<lock, stage, lost, cancels>>

Stages == {"idle", "reading", "writing",
           "asleep to read", "awake to read",
           "asleep to write", "awake to write"}

In(s) == {t \in Tasks : stage[t] \in s}
Reading == In({"reading"})
Writing == In({"writing"})
AsleepToRead == In({"asleep to read"})
AsleepToWrite == In({"asleep to write"})
WaitingToWrite == In({"asleep to write", "awake to write"})

TypeOK ==
  /\ readers \in 0..Cardinality(Tasks)
  /\ writer \in BOOLEAN
  /\ waitingWriters \in 0..(Cardinality(Tasks) + CancelBound)
  /\ stage \in [Tasks -> Stages]
  /\ lost \in 0..CancelBound /\ cancels \in 0..CancelBound

Init ==
  /\ readers = 0 /\ writer = FALSE /\ waitingWriters = 0
  /\ stage = [t \in Tasks |-> "idle"]
  /\ lost = 0 /\ cancels = 0
-----------------------------------------------------------------------------
Become(t, s) == stage' = [stage EXCEPT ![t] = s]

(* Condition.notify_all, by a task that lets the lock go.                   *)
Woken(s) == IF s = "asleep to read" THEN "awake to read"
            ELSE IF s = "asleep to write" THEN "awake to write" ELSE s
LeaveAndNotify(t) ==
  stage' = [u \in Tasks |-> IF u = t THEN "idle" ELSE Woken(stage[u])]

ReadersMustWait == writer \/ waitingWriters > 0
WritersMustWait == writer \/ readers > 0

(* Faulty variant: a reader that was woken does not look again.             *)
AcquireReadOnce(t) ==
  /\ stage[t] \in {"idle", "awake to read"}
  /\ IF ReadersMustWait /\ stage[t] = "idle"
     THEN Become(t, "asleep to read") /\ UNCHANGED readers
     ELSE Become(t, "reading") /\ readers' = readers + 1
  /\ UNCHANGED <<writer, waitingWriters, lost, cancels>>

(* Faulty variant: a reader waits for the writer only.                      *)
AcquireReadPassing(t) ==
  /\ stage[t] \in {"idle", "awake to read"}
  /\ IF writer
     THEN Become(t, "asleep to read") /\ UNCHANGED readers
     ELSE Become(t, "reading") /\ readers' = readers + 1
  /\ UNCHANGED <<writer, waitingWriters, lost, cancels>>

(* acquire_read, from the call or from its wait().                          *)
AcquireRead(t) ==
  /\ stage[t] \in {"idle", "awake to read"}
  /\ IF ReadersMustWait
     THEN Become(t, "asleep to read") /\ UNCHANGED readers
     ELSE Become(t, "reading") /\ readers' = readers + 1
  /\ UNCHANGED <<writer, waitingWriters, lost, cancels>>

(* Faulty variant: the reader that leaves first calls the others.           *)
ReleaseReadFirst(t) ==
  /\ stage[t] = "reading"
  /\ readers' = readers - 1
  /\ IF readers > 1 THEN LeaveAndNotify(t) ELSE Become(t, "idle")
  /\ UNCHANGED <<writer, waitingWriters, lost, cancels>>

(* release_read: only the last one notifies.                                *)
ReleaseRead(t) ==
  /\ stage[t] = "reading"
  /\ readers' = readers - 1
  /\ IF readers = 1 THEN LeaveAndNotify(t) ELSE Become(t, "idle")
  /\ UNCHANGED <<writer, waitingWriters, lost, cancels>>

(* acquire_write, from the call or from its wait(): a writer is counted as  *)
(* waiting from the call until it has the lock.                             *)
AcquireWrite(t) ==
  /\ stage[t] \in {"idle", "awake to write"}
  /\ LET counted == IF stage[t] = "idle" THEN waitingWriters + 1
                                         ELSE waitingWriters
     IN  IF WritersMustWait
         THEN /\ Become(t, "asleep to write") /\ UNCHANGED writer
              /\ waitingWriters' = counted
         ELSE /\ Become(t, "writing") /\ writer' = TRUE
              /\ waitingWriters' = counted - 1
  /\ UNCHANGED <<readers, lost, cancels>>

(* release_write.                                                           *)
ReleaseWrite(t) ==
  /\ stage[t] = "writing"
  /\ writer' = FALSE
  /\ LeaveAndNotify(t)
  /\ UNCHANGED <<readers, waitingWriters, lost, cancels>>

(* A task that waits is cancelled: wait() raises, and acquire_write does    *)
(* not take its count back.  (A holder that is cancelled releases in the    *)
(* finally of read_locked or write_locked, like any other.)                 *)
CancelWaiting(t) ==
  /\ cancels < CancelBound
  /\ stage[t] \notin {"idle", "reading", "writing"}
  /\ lost' = IF t \in WaitingToWrite THEN lost + 1 ELSE lost
  /\ Become(t, "idle")
  /\ cancels' = cancels + 1
  /\ UNCHANGED lock

Next ==
  \E t \in Tasks : \/ AcquireRead(t) \/ ReleaseRead(t)
                   \/ AcquireWrite(t) \/ ReleaseWrite(t)
                   \/ CancelWaiting(t)

(* The body under the lock comes to its end (JsonIdeaStore's are plain      *)
(* code), and the loop runs every task that was woken.  Nobody has to ask   *)
(* for the lock.                                                            *)
Spec ==
  /\ Init /\ [][Next]_vars
  /\ \A t \in Tasks :
       /\ WF_vars(ReleaseRead(t)) /\ WF_vars(ReleaseWrite(t))
       /\ WF_vars(stage[t] = "awake to read" /\ AcquireRead(t))
       /\ WF_vars(stage[t] = "awake to write" /\ AcquireWrite(t))
-----------------------------------------------------------------------------
(* Properties.                                                              *)

(* "Multiple concurrent readers OR a single exclusive writer", also when    *)
(* tasks that were woken compete with tasks that arrive.                    *)
Exclusion ==
  /\ Writing # {} => Reading = {}
  /\ \A t, u \in Writing : t = u

(* No call is lost: a writer sleeps only while somebody holds the lock, and *)
(* a reader only while somebody holds it or a writer is on its way - unless *)
(* a writer was cancelled while it waited.                                  *)
SleepersAreOwedACall ==
  /\ AsleepToWrite # {} => Reading \cup Writing # {}
  /\ AsleepToRead # {} =>
       Reading \cup Writing \cup WaitingToWrite # {} \/ lost > 0

(* "Writers are given priority to prevent starvation": however many readers *)
(* come, a waiting writer, or another one, gets the lock, cancelled writers *)
(* or not.                                                                  *)
WritersAreNotStarved ==
  WaitingToWrite # {} ~> (Writing # {} \/ WaitingToWrite = {})
=============================================================================
