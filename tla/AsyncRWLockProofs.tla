-------------------------- MODULE AsyncRWLockProofs -------------------------
(***************************************************************************)
(* Proofs about the read-write lock, for every finite set of tasks, with   *)
(* and without cancellation.                                               *)
(***************************************************************************)
EXTENDS AsyncRWLock, FiniteSetTheorems, TLAPS

Typed ==
  /\ stage \in [Tasks -> Stages]
  /\ writer \in BOOLEAN
  /\ lost \in Nat /\ cancels \in Nat /\ lost <= cancels /\ cancels <= CancelBound

(* The counters are what they count; a cancelled writer stays counted.      *)
CountersCount ==
  /\ readers = Cardinality(Reading)
  /\ waitingWriters = Cardinality(WaitingToWrite) + lost
  /\ writer <=> Writing # {}

IInv == Typed /\ CountersCount /\ Exclusion /\ SleepersAreOwedACall

-----------------------------------------------------------------------------
LEMMA Finite ==
  /\ IsFiniteSet(Reading) /\ IsFiniteSet(WaitingToWrite)
  /\ Cardinality(Reading) \in Nat /\ Cardinality(WaitingToWrite) \in Nat
  /\ Cardinality(Reading) <= Cardinality(Tasks)
  /\ Cardinality(WaitingToWrite) <= Cardinality(Tasks)
  /\ Cardinality(Tasks) \in Nat
  /\ Cardinality(Reading) = 0 <=> Reading = {}
  /\ Cardinality(WaitingToWrite) = 0 <=> WaitingToWrite = {}
  <1>1. Reading \in SUBSET Tasks /\ WaitingToWrite \in SUBSET Tasks
    BY DEF Reading, WaitingToWrite, In
  <1> QED
    BY <1>1, RWLockAssumption, FS_Subset, FS_CardinalityType, FS_EmptySet

(* One task gets in or out of a set of tasks: its size moves by one.        *)
LEMMA OneIn ==
  ASSUME NEW S, IsFiniteSet(S), NEW t
  PROVE  /\ t \notin S => Cardinality(S \cup {t}) = Cardinality(S) + 1
         /\ t \in S => Cardinality(S \ {t}) = Cardinality(S) - 1
         /\ t \in S => S \cup {t} = S
         /\ t \notin S => S \ {t} = S
  BY FS_AddElement, FS_RemoveElement

LEMMA WaitingCounts ==
  ASSUME NEW t
  PROVE  /\ Cardinality(WaitingToWrite \cup {t}) =
              IF t \in WaitingToWrite THEN Cardinality(WaitingToWrite)
                                      ELSE Cardinality(WaitingToWrite) + 1
         /\ Cardinality(WaitingToWrite \ {t}) =
              IF t \in WaitingToWrite THEN Cardinality(WaitingToWrite) - 1
                                      ELSE Cardinality(WaitingToWrite)
  <1>1. IsFiniteSet(WaitingToWrite)
    BY Finite
  <1> QED
    BY <1>1, OneIn

LEMMA Without ==
  ASSUME NEW S, NEW t, t \notin S
  PROVE  S \ {t} = S
  OBVIOUS

(* What the sets of tasks become when one task changes its stage.           *)
LEMMA BecomeMoves ==
  ASSUME stage \in [Tasks -> Stages], NEW t \in Tasks, NEW s \in Stages,
         Become(t, s)
  PROVE  /\ stage' \in [Tasks -> Stages]
         /\ Reading' = IF s = "reading" THEN Reading \cup {t} ELSE Reading \ {t}
         /\ Writing' = IF s = "writing" THEN Writing \cup {t} ELSE Writing \ {t}
         /\ WaitingToWrite' = IF s \in {"asleep to write", "awake to write"}
                              THEN WaitingToWrite \cup {t}
                              ELSE WaitingToWrite \ {t}
         /\ AsleepToRead' = IF s = "asleep to read"
                            THEN AsleepToRead \cup {t} ELSE AsleepToRead \ {t}
         /\ AsleepToWrite' = IF s = "asleep to write"
                             THEN AsleepToWrite \cup {t} ELSE AsleepToWrite \ {t}
  BY DEF Become, Reading, Writing, WaitingToWrite, AsleepToRead, AsleepToWrite, In

(* What they become when a task lets the lock go and wakes the others.      *)
LEMMA LeaveMoves ==
  ASSUME stage \in [Tasks -> Stages], NEW t \in Tasks, LeaveAndNotify(t)
  PROVE  /\ stage' \in [Tasks -> Stages]
         /\ Reading' = Reading \ {t}
         /\ Writing' = Writing \ {t}
         /\ WaitingToWrite' = WaitingToWrite \ {t}
         /\ AsleepToRead' = {}
         /\ AsleepToWrite' = {}
  <1>1. stage' \in [Tasks -> Stages]
    BY DEF LeaveAndNotify, Woken, Stages
  <1>2. \A u \in Tasks :
          stage'[u] = IF u = t THEN "idle" ELSE Woken(stage[u])
    BY DEF LeaveAndNotify
  <1> QED
    BY <1>1, <1>2 DEF Reading, Writing, WaitingToWrite, AsleepToRead,
       AsleepToWrite, In, Woken, Stages

LEMMA StageNames ==
  /\ "idle" \in Stages /\ "reading" \in Stages /\ "writing" \in Stages
  /\ "asleep to read" \in Stages /\ "asleep to write" \in Stages
  BY DEF Stages

LEMMA InitIInv == Init => IInv
  <1> SUFFICES ASSUME Init PROVE IInv
    OBVIOUS
  <1>1. /\ Reading = {} /\ Writing = {} /\ WaitingToWrite = {}
        /\ AsleepToRead = {} /\ AsleepToWrite = {}
    BY DEF Init, Reading, Writing, WaitingToWrite, AsleepToRead, AsleepToWrite, In
  <1>2. Typed
    <2>1. stage \in [Tasks -> Stages]
      BY DEF Init, Stages
    <2>2. lost \in Nat /\ cancels \in Nat /\ lost <= cancels /\ cancels <= CancelBound
      BY RWLockAssumption DEF Init
    <2> QED
      BY <2>1, <2>2 DEF Init, Typed
  <1>3. CountersCount
    BY <1>1, FS_EmptySet DEF Init, CountersCount
  <1> QED
    BY <1>1, <1>2, <1>3 DEF IInv, Exclusion, SleepersAreOwedACall

(* The stage a task is in decides which sets it belongs to.                 *)
LEMMA Membership ==
  ASSUME NEW t \in Tasks
  PROVE  /\ t \in Reading <=> stage[t] = "reading"
         /\ t \in Writing <=> stage[t] = "writing"
         /\ t \in WaitingToWrite <=>
              stage[t] \in {"asleep to write", "awake to write"}
         /\ t \in AsleepToRead <=> stage[t] = "asleep to read"
         /\ t \in AsleepToWrite <=> stage[t] = "asleep to write"
         /\ AsleepToWrite \subseteq WaitingToWrite
  BY DEF Reading, Writing, WaitingToWrite, AsleepToRead, AsleepToWrite, In

LEMMA AcquireReadKeeps ==
  ASSUME IInv, NEW t \in Tasks, AcquireRead(t)
  PROVE  IInv'
  <1> USE DEF IInv, Typed
  <1>1. /\ t \notin Reading /\ t \notin Writing /\ t \notin WaitingToWrite
        /\ t \notin AsleepToRead /\ t \notin AsleepToWrite
    BY Membership DEF AcquireRead
  <1>2. CASE ReadersMustWait
    <2>1. Become(t, "asleep to read") /\ UNCHANGED <<lock, lost, cancels>>
      BY <1>2 DEF AcquireRead, lock
    <2>2. /\ stage' \in [Tasks -> Stages]
          /\ Reading' = Reading /\ Writing' = Writing
          /\ WaitingToWrite' = WaitingToWrite
          /\ AsleepToWrite' = AsleepToWrite
      BY <1>1, <2>1, BecomeMoves, StageNames, Without
    <2>3. Reading \cup Writing \cup WaitingToWrite # {} \/ lost > 0
      BY <1>2, Finite DEF ReadersMustWait, CountersCount
    <2> QED
      BY <2>1, <2>2, <2>3 DEF lock, CountersCount, Exclusion, SleepersAreOwedACall
  <1>3. CASE ~ReadersMustWait
    <2>1. /\ Become(t, "reading") /\ readers' = readers + 1
          /\ UNCHANGED <<writer, waitingWriters, lost, cancels>>
      BY <1>3 DEF AcquireRead
    <2>2. /\ stage' \in [Tasks -> Stages]
          /\ Reading' = Reading \cup {t} /\ Writing' = Writing
          /\ WaitingToWrite' = WaitingToWrite
          /\ AsleepToWrite' = AsleepToWrite
      BY <1>1, <2>1, BecomeMoves, StageNames, Without
    <2>3. Cardinality(Reading') = Cardinality(Reading) + 1
      BY <1>1, <2>2, Finite, OneIn
    <2>4. Writing = {}
      BY <1>3 DEF ReadersMustWait, CountersCount
    <2> QED
      BY <2>1, <2>2, <2>3, <2>4 DEF CountersCount, Exclusion, SleepersAreOwedACall
  <1> QED
    BY <1>2, <1>3

LEMMA ReleaseReadKeeps ==
  ASSUME IInv, NEW t \in Tasks, ReleaseRead(t)
  PROVE  IInv'
  <1> USE DEF IInv, Typed
  <1>1. /\ t \in Reading /\ t \notin Writing /\ t \notin WaitingToWrite
        /\ t \notin AsleepToRead /\ t \notin AsleepToWrite
    BY Membership DEF ReleaseRead
  <1>2. /\ readers' = readers - 1
        /\ UNCHANGED <<writer, waitingWriters, lost, cancels>>
    BY DEF ReleaseRead
  <1>3. Writing = {}
    BY <1>1 DEF Exclusion
  <1>4. Cardinality(Reading \ {t}) = Cardinality(Reading) - 1
    BY <1>1, Finite, OneIn
  <1>5. CASE readers = 1
    <2>1. LeaveAndNotify(t)
      BY <1>5 DEF ReleaseRead
    <2>2. /\ stage' \in [Tasks -> Stages]
          /\ Reading' = Reading \ {t} /\ Writing' = {}
          /\ WaitingToWrite' = WaitingToWrite
          /\ AsleepToRead' = {} /\ AsleepToWrite' = {}
      BY <1>1, <1>3, <2>1, LeaveMoves, Without
    <2> QED
      BY <1>2, <1>3, <1>4, <2>2 DEF CountersCount, Exclusion, SleepersAreOwedACall
  <1>6. CASE readers # 1
    <2>1. Become(t, "idle")
      BY <1>6 DEF ReleaseRead
    <2>2. /\ stage' \in [Tasks -> Stages]
          /\ Reading' = Reading \ {t} /\ Writing' = {}
          /\ WaitingToWrite' = WaitingToWrite
          /\ AsleepToRead' = AsleepToRead /\ AsleepToWrite' = AsleepToWrite
      <3>1. /\ stage' \in [Tasks -> Stages]
            /\ Reading' = Reading \ {t} /\ Writing' = Writing \ {t}
            /\ WaitingToWrite' = WaitingToWrite \ {t}
            /\ AsleepToRead' = AsleepToRead \ {t}
            /\ AsleepToWrite' = AsleepToWrite \ {t}
        BY <2>1, BecomeMoves, StageNames
      <3> QED
        BY <1>1, <1>3, <3>1, Without
    <2>3. Reading' # {}
      <3>1. Cardinality(Reading \ {t}) # 0
        BY <1>4, <1>6, Finite DEF CountersCount
      <3> QED
        BY <2>2, <3>1, FS_EmptySet
    <2> QED
      BY <1>2, <1>3, <1>4, <2>2, <2>3
         DEF CountersCount, Exclusion, SleepersAreOwedACall
  <1> QED
    BY <1>5, <1>6

LEMMA AcquireWriteKeeps ==
  ASSUME IInv, NEW t \in Tasks, AcquireWrite(t)
  PROVE  IInv'
  <1> USE DEF IInv, Typed
  <1>1. /\ t \notin Reading /\ t \notin Writing
        /\ t \notin AsleepToRead /\ t \notin AsleepToWrite
        /\ t \in WaitingToWrite <=> stage[t] # "idle"
    BY Membership DEF AcquireWrite
  <1>2. UNCHANGED <<readers, lost, cancels>>
    BY DEF AcquireWrite
  <1> DEFINE counted == IF stage[t] = "idle" THEN waitingWriters + 1
                                             ELSE waitingWriters
  <1>3. counted = Cardinality(WaitingToWrite \cup {t}) + lost
    <2>1. waitingWriters = Cardinality(WaitingToWrite) + lost
      BY DEF CountersCount
    <2>2. Cardinality(WaitingToWrite) \in Nat /\ lost \in Nat
      BY Finite
    <2>3. CASE stage[t] = "idle"
      <3>1. Cardinality(WaitingToWrite \cup {t}) = Cardinality(WaitingToWrite) + 1
        BY <1>1, <2>3, WaitingCounts
      <3> QED
        BY <2>1, <2>2, <2>3, <3>1
    <2>4. CASE stage[t] # "idle"
      <3>1. Cardinality(WaitingToWrite \cup {t}) = Cardinality(WaitingToWrite)
        BY <1>1, <2>4, WaitingCounts
      <3> QED
        BY <2>1, <2>4, <3>1
    <2> QED
      BY <2>3, <2>4
  <1>4. CASE WritersMustWait
    <2>1. Become(t, "asleep to write") /\ writer' = writer
          /\ waitingWriters' = counted
      BY <1>4 DEF AcquireWrite
    <2>2. /\ stage' \in [Tasks -> Stages]
          /\ Reading' = Reading /\ Writing' = Writing
          /\ WaitingToWrite' = WaitingToWrite \cup {t}
          /\ AsleepToRead' = AsleepToRead
      BY <1>1, <2>1, BecomeMoves, StageNames, Without
    <2>3. Reading \cup Writing # {}
      BY <1>4, Finite DEF WritersMustWait, CountersCount
    <2> QED
      BY <1>2, <1>3, <2>1, <2>2, <2>3
         DEF CountersCount, Exclusion, SleepersAreOwedACall
  <1>5. CASE ~WritersMustWait
    <2>1. Become(t, "writing") /\ writer' = TRUE
          /\ waitingWriters' = counted - 1
      BY <1>5 DEF AcquireWrite
    <2>2. Reading = {} /\ Writing = {}
      BY <1>5, Finite DEF WritersMustWait, CountersCount
    <2>3. /\ stage' \in [Tasks -> Stages]
          /\ Reading' = {} /\ Writing' = {t}
          /\ WaitingToWrite' = WaitingToWrite \ {t}
      BY <1>1, <2>1, <2>2, BecomeMoves, StageNames, Without
    <2>4. Cardinality(WaitingToWrite \ {t})
            = Cardinality(WaitingToWrite \cup {t}) - 1
      BY Finite, WaitingCounts
    <2>5. readers' = 0 /\ Cardinality(Reading') = 0
      BY <1>2, <2>2, <2>3, FS_EmptySet DEF CountersCount
    <2>6. waitingWriters' = Cardinality(WaitingToWrite') + lost'
      <3>1. Cardinality(WaitingToWrite \cup {t}) \in Nat
        <4>1. IsFiniteSet(WaitingToWrite \cup {t})
          BY Finite, FS_AddElement
        <4> QED
          BY <4>1, FS_CardinalityType
      <3> QED
        BY <1>2, <1>3, <2>1, <2>3, <2>4, <3>1
    <2>7. CountersCount'
      BY <2>1, <2>3, <2>5, <2>6 DEF CountersCount
    <2> QED
      BY <1>2, <2>1, <2>3, <2>7 DEF Exclusion, SleepersAreOwedACall
  <1> QED
    BY <1>4, <1>5

LEMMA ReleaseWriteKeeps ==
  ASSUME IInv, NEW t \in Tasks, ReleaseWrite(t)
  PROVE  IInv'
  <1> USE DEF IInv, Typed
  <1>1. t \in Writing /\ t \notin Reading /\ t \notin WaitingToWrite
    BY Membership DEF ReleaseWrite
  <1>2. /\ writer' = FALSE /\ LeaveAndNotify(t)
        /\ UNCHANGED <<readers, waitingWriters, lost, cancels>>
    BY DEF ReleaseWrite
  <1>3. /\ stage' \in [Tasks -> Stages]
        /\ Reading' = Reading /\ Writing' = Writing \ {t}
        /\ WaitingToWrite' = WaitingToWrite
        /\ AsleepToRead' = {} /\ AsleepToWrite' = {}
    BY <1>1, <1>2, LeaveMoves, Without
  <1>4. Writing' = {}
    BY <1>1, <1>3 DEF Exclusion, Writing, In
  <1> QED
    BY <1>2, <1>3, <1>4 DEF CountersCount, Exclusion, SleepersAreOwedACall

LEMMA CancelWaitingKeeps ==
  ASSUME IInv, NEW t \in Tasks, CancelWaiting(t)
  PROVE  IInv'
  <1> USE DEF IInv, Typed
  <1>1. t \notin Reading /\ t \notin Writing
    BY Membership DEF CancelWaiting
  <1>2. /\ lost' = IF t \in WaitingToWrite THEN lost + 1 ELSE lost
        /\ cancels' = cancels + 1 /\ cancels < CancelBound
        /\ Become(t, "idle") /\ UNCHANGED lock
    BY DEF CancelWaiting
  <1>3. /\ stage' \in [Tasks -> Stages]
        /\ Reading' = Reading /\ Writing' = Writing
        /\ WaitingToWrite' = WaitingToWrite \ {t}
        /\ AsleepToRead' = AsleepToRead \ {t}
        /\ AsleepToWrite' = AsleepToWrite \ {t}
    <2>1. /\ stage' \in [Tasks -> Stages]
          /\ Reading' = Reading \ {t} /\ Writing' = Writing \ {t}
          /\ WaitingToWrite' = WaitingToWrite \ {t}
          /\ AsleepToRead' = AsleepToRead \ {t}
          /\ AsleepToWrite' = AsleepToWrite \ {t}
      BY <1>2, BecomeMoves, StageNames
    <2> QED
      BY <1>1, <2>1, Without
  <1>4. Cardinality(WaitingToWrite') + lost' = Cardinality(WaitingToWrite) + lost
    <2>1. Cardinality(WaitingToWrite) \in Nat /\ lost \in Nat
      BY Finite
    <2>2. CASE t \in WaitingToWrite
      <3>1. /\ lost' = lost + 1
            /\ Cardinality(WaitingToWrite') = Cardinality(WaitingToWrite) - 1
        BY <1>2, <1>3, <2>2, WaitingCounts
      <3> QED
        BY <2>1, <3>1
    <2>3. CASE t \notin WaitingToWrite
      BY <1>2, <1>3, <2>3, WaitingCounts
    <2> QED
      BY <2>2, <2>3
  <1>5. Typed'
    <2>1. /\ lost' \in Nat /\ cancels' \in Nat
          /\ lost' <= cancels' /\ cancels' <= CancelBound
      <3>1. lost' = lost + 1 \/ lost' = lost
        BY <1>2
      <3> QED
        BY <1>2, <3>1, RWLockAssumption
    <2> QED
      BY <1>2, <1>3, <2>1 DEF lock
  <1>6. SleepersAreOwedACall'
    BY <1>2, <1>3 DEF SleepersAreOwedACall
  <1> QED
    BY <1>2, <1>3, <1>4, <1>5, <1>6 DEF lock, CountersCount, Exclusion

(* The counters, the exclusion and the calls owed to sleepers hold each     *)
(* other up: this is the inductive invariant of the lock.                   *)
THEOREM Inductive == Spec => []IInv
  <1>1. IInv /\ [Next]_vars => IInv'
    <2> SUFFICES ASSUME IInv, [Next]_vars PROVE IInv'
      OBVIOUS
    <2>1. CASE Next
      BY <2>1, AcquireReadKeeps, ReleaseReadKeeps, AcquireWriteKeeps,
         ReleaseWriteKeeps, CancelWaitingKeeps DEF Next
    <2>2. CASE UNCHANGED vars
      BY <2>2 DEF vars, lock, IInv, Typed, CountersCount, Exclusion,
         SleepersAreOwedACall, Reading, Writing, WaitingToWrite, AsleepToRead,
         AsleepToWrite, In
    <2> QED
      BY <2>1, <2>2
  <1> QED
    BY <1>1, InitIInv, PTL DEF Spec

(* TypeOK: no counter goes below zero or above the number of tasks, but     *)
(* for the writers that were cancelled.                                     *)
THEOREM TypeCorrect == Spec => []TypeOK
  <1>1. IInv => TypeOK
    BY Finite, RWLockAssumption DEF IInv, Typed, CountersCount, TypeOK
  <1> QED
    BY <1>1, Inductive, PTL

(* Readers together, or one writer alone, for any number of tasks.          *)
THEOREM ReadersOrOneWriter == Spec => []Exclusion
  <1>1. IInv => Exclusion
    BY DEF IInv
  <1> QED
    BY <1>1, Inductive, PTL

(* No wake-up is lost, for any number of tasks.                             *)
THEOREM NoLostCall == Spec => []SleepersAreOwedACall
  <1>1. IInv => SleepersAreOwedACall
    BY DEF IInv
  <1> QED
    BY <1>1, Inductive, PTL
=============================================================================
