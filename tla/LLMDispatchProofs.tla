-------------------------- MODULE LLMDispatchProofs -------------------------
(***************************************************************************)
(* Proofs about the concurrency guard and the rate limiter of LLMDispatch, *)
(* for every number of calls, every limit, with and without cancellation.  *)
(***************************************************************************)
EXTENDS LLMDispatch, FiniteSetTheorems, SequenceTheorems, TLAPS

(* When one call moves to another stage, a class of stages gains it, loses  *)
(* it, or keeps its size.                                                   *)
LEMMA OneMoves ==
  ASSUME stage \in [Calls -> Stages], NEW c \in Calls, NEW s \in Stages, Go(c, s),
         NEW S \in SUBSET Stages
  PROVE  /\ Cardinality(In(S)) \in Nat
         /\ Cardinality(In(S)') \in Nat
         /\ stage' \in [Calls -> Stages]
         /\ (stage[c] \in S <=> s \in S) => Cardinality(In(S)') = Cardinality(In(S))
         /\ stage[c] \notin S /\ s \in S => Cardinality(In(S)') = Cardinality(In(S)) + 1
         /\ stage[c] \in S /\ s \notin S => Cardinality(In(S)') = Cardinality(In(S)) - 1
  <1>1. stage' = [stage EXCEPT ![c] = s]
    BY DEF Go
  <1>2. IsFiniteSet(In(S)) /\ IsFiniteSet(In(S)')
    BY CallsAssumption, FS_Subset DEF In
  <1>3. Cardinality(In(S)) \in Nat /\ Cardinality(In(S)') \in Nat
    BY <1>2, FS_CardinalityType
  <1>4. (stage[c] \in S <=> s \in S) => In(S)' = In(S)
    BY <1>1 DEF In
  <1>5. ASSUME stage[c] \notin S, s \in S
        PROVE  Cardinality(In(S)') = Cardinality(In(S)) + 1
    <2>1. In(S)' = In(S) \cup {c} /\ c \notin In(S)
      BY <1>1, <1>5 DEF In
    <2> QED
      BY <2>1, <1>2, FS_AddElement
  <1>6. ASSUME stage[c] \in S, s \notin S
        PROVE  Cardinality(In(S)') = Cardinality(In(S)) - 1
    <2>1. In(S)' = In(S) \ {c} /\ c \in In(S)
      BY <1>1, <1>6 DEF In
    <2> QED
      BY <2>1, <1>2, FS_RemoveElement
  <1> QED
    BY <1>1, <1>3, <1>4, <1>5, <1>6

(* The queue and the slots are classes of stages.                           *)
LEMMA StageFacts ==
  /\ {"queued"} \subseteq Stages
  /\ Holding \subseteq Stages
  /\ Ended \subseteq Stages
  /\ Counted \subseteq Stages /\ "queued" \in Counted
  /\ Counted \cap Holding = {}
  /\ "queued" \notin Holding \cup Ended
  /\ Holding \cap Ended = {}
  BY DEF Stages, Holding, Ended, Counted

LEMMA InitIInv == Init => IInv
  <1> SUFFICES ASSUME Init PROVE IInv
    OBVIOUS
  <1>1. In(Holding) = {} /\ Queued = {} /\ In(Counted) = {}
    BY DEF Init, In, Queued, Holding, Counted
  <1>2. Cardinality(In(Holding)) = 0 /\ Cardinality(Queued) = 0 /\ Cardinality(In(Counted)) = 0
    BY <1>1, FS_EmptySet
  <1> QED
    BY <1>2, LimitsAssumption DEF Init, IInv, SlotsAddUp, QueueCovered, Stages

LEMMA StepIInv == IInv /\ [Next]_vars => IInv'
  <1> SUFFICES ASSUME IInv, [Next]_vars
               PROVE  IInv'
    OBVIOUS
  <1> DEFINE Q == Cardinality(Queued)
             H == Cardinality(In(Holding))
             C == Cardinality(In(Counted))
  <1>0. MaxQueueDepth \in Nat /\ MaxConcurrent \in Nat
    BY LimitsAssumption
  <1>1. CASE UNCHANGED <<stage, waiting, free>>
    BY <1>1 DEF IInv, SlotsAddUp, QueueCovered, Queued, In
  <1>2. ASSUME NEW c \in Calls, NEW s \in Stages, Go(c, s)
        PROVE  /\ Q \in Nat /\ Q' \in Nat /\ H \in Nat /\ H' \in Nat
               /\ stage' \in [Calls -> Stages]
               /\ stage[c] = "queued" /\ s # "queued" => Q' = Q - 1
               /\ stage[c] # "queued" /\ s = "queued" => Q' = Q + 1
               /\ stage[c] # "queued" /\ s # "queued" => Q' = Q
               /\ stage[c] \in Holding /\ s \in Holding => H' = H
               /\ stage[c] \in Holding /\ s \notin Holding => H' = H - 1
               /\ stage[c] \notin Holding /\ s \in Holding => H' = H + 1
               /\ stage[c] \notin Holding /\ s \notin Holding => H' = H
               /\ C \in Nat /\ C' \in Nat
               /\ (stage[c] \in Counted <=> s \in Counted) => C' = C
               /\ stage[c] \in Counted /\ s \notin Counted => C' = C - 1
               /\ stage[c] \notin Counted /\ s \in Counted => C' = C + 1
    <2>1. stage \in [Calls -> Stages]
      BY DEF IInv
    <2>2. /\ Q \in Nat /\ Q' \in Nat
          /\ stage' \in [Calls -> Stages]
          /\ stage[c] = "queued" /\ s # "queued" => Q' = Q - 1
          /\ stage[c] # "queued" /\ s = "queued" => Q' = Q + 1
          /\ stage[c] # "queued" /\ s # "queued" => Q' = Q
      BY <1>2, <2>1, OneMoves, StageFacts DEF Queued
    <2>3. /\ H \in Nat /\ H' \in Nat
          /\ stage[c] \in Holding /\ s \in Holding => H' = H
          /\ stage[c] \in Holding /\ s \notin Holding => H' = H - 1
          /\ stage[c] \notin Holding /\ s \in Holding => H' = H + 1
          /\ stage[c] \notin Holding /\ s \notin Holding => H' = H
      BY <1>2, <2>1, OneMoves, StageFacts
    <2>4. /\ C \in Nat /\ C' \in Nat
          /\ (stage[c] \in Counted <=> s \in Counted) => C' = C
          /\ stage[c] \in Counted /\ s \notin Counted => C' = C - 1
          /\ stage[c] \notin Counted /\ s \in Counted => C' = C + 1
      BY <1>2, <2>1, OneMoves, StageFacts
    <2> QED
      BY <2>2, <2>3, <2>4
  <1> DEFINE Kept ==
        /\ waiting \in Nat /\ free \in Nat
        /\ free + H = MaxConcurrent
        /\ Q <= waiting /\ waiting <= MaxQueueDepth
        /\ waiting <= C
  <1>3. stage \in [Calls -> Stages] /\ Kept
    BY DEF IInv, SlotsAddUp, QueueCovered
  <1>4. stage' \in [Calls -> Stages] /\ Kept' => IInv'
    BY LimitsAssumption DEF IInv, SlotsAddUp, QueueCovered
  <1>5. ASSUME NEW c \in Calls, NEW s \in Stages, Go(c, s),
               stage[c] \in Holding, s \in Holding, UNCHANGED <<waiting, free>>
        PROVE  IInv'
    <2>1. /\ stage[c] # "queued" /\ s # "queued"
          /\ stage[c] \notin Counted /\ s \notin Counted
      BY <1>5, StageFacts
    <2> HIDE DEF Q, H, C
    <2> QED
      BY <1>2, <1>3, <1>4, <1>5, <2>1
  <1>6. ASSUME NEW c \in Calls, NEW s \in Ended, Leave(c, s),
               stage[c] \in Holding, UNCHANGED waiting
        PROVE  IInv'
    <2>1. /\ stage[c] # "queued" /\ s # "queued" /\ s \notin Holding /\ s \in Stages
          /\ stage[c] \notin Counted
      BY <1>6, StageFacts
    <2>2. Go(c, s) /\ free' = free + 1
      BY <1>6 DEF Leave
    <2> HIDE DEF Q, H, C
    <2> QED
      BY <1>0, <1>2, <1>3, <1>4, <1>6, <2>1, <2>2
  <1>7. ASSUME NEW c \in Calls, Enter(c)
        PROVE  IInv'
    <2>1. stage[c] \notin Holding /\ stage[c] # "queued" /\ stage[c] \notin Counted
      BY <1>7, StageFacts DEF Enter, Holding, Counted
    <2>2. CASE waiting >= MaxQueueDepth
      <3>1. Go(c, "refused") /\ UNCHANGED <<waiting, free>>
        BY <1>7, <2>2 DEF Enter
      <3>2. "refused" \in Stages /\ "refused" \notin Holding \cup Counted
        BY DEF Stages, Ended, Holding, Counted
      <3> HIDE DEF Q, H, C
      <3> QED
        BY <1>2, <1>3, <1>4, <2>1, <3>1, <3>2
    <2>3. CASE ~(waiting >= MaxQueueDepth)
      <3>1. Go(c, "queued") /\ waiting' = waiting + 1 /\ UNCHANGED free
        BY <1>7, <2>3 DEF Enter
      <3>2. "queued" \in Stages /\ "queued" \notin Holding
        BY StageFacts
      <3>3. "queued" \in Counted
        BY StageFacts
      <3> HIDE DEF Q, H, C
      <3> QED
        BY <1>0, <1>2, <1>3, <1>4, <2>1, <2>3, <3>1, <3>2, <3>3
    <2> QED
      BY <2>2, <2>3
  <1>8. ASSUME NEW c \in Calls, Admit(c)
        PROVE  IInv'
    <2>1. /\ stage[c] = "queued" /\ stage[c] \notin Holding
          /\ stage[c] \in Counted /\ "limiter" \notin Counted
          /\ Go(c, "limiter") /\ "limiter" \in Stages /\ "limiter" \in Holding
          /\ free > 0 /\ free' = free - 1 /\ waiting' = waiting - 1
      BY <1>8, StageFacts DEF Admit, Stages, Holding, Counted
    <2> HIDE DEF Q, H, C
    <2> QED
      BY <1>0, <1>2, <1>3, <1>4, <2>1
  <1>9. ASSUME NEW c \in Calls, GiveUpWaiting(c)
        PROVE  IInv'
    <2>1. /\ stage[c] = "queued" /\ stage[c] \notin Holding
          /\ stage[c] \in Counted /\ "refused" \notin Counted
          /\ Go(c, "refused") /\ "refused" \in Stages /\ "refused" \notin Holding
          /\ waiting' = waiting - 1 /\ free' = free
      BY <1>9, StageFacts DEF GiveUpWaiting, Stages, Holding, Ended, Counted
    <2> HIDE DEF Q, H, C
    <2> QED
      BY <1>0, <1>2, <1>3, <1>4, <2>1
  <1>10. ASSUME NEW c \in Calls, Limit(c)
         PROVE  IInv'
    BY <1>5, <1>10 DEF Limit, Pass, FallAsleep, Holding, Stages
  <1>11. ASSUME NEW c \in Calls, Wake(c)
         PROVE  IInv'
    BY <1>5, <1>11 DEF Wake, Pass, Holding, Stages
  <1>12. ASSUME NEW c \in Calls, Resend(c)
         PROVE  IInv'
    BY <1>5, <1>12 DEF Resend, Holding, Stages
  <1>13. ASSUME NEW c \in Calls, Answered(c)
         PROVE  IInv'
    BY <1>6, <1>13 DEF Answered, Holding, Ended
  <1>14. ASSUME NEW c \in Calls, Fault(c)
         PROVE  IInv'
    BY <1>5, <1>6, <1>14 DEF Fault, Holding, Ended, Stages
  <1>15. ASSUME NEW c \in Calls, Cancel(c)
         PROVE  IInv'
    <2>1. CASE stage[c] \in Holding /\ Leave(c, "cancelled")
      BY <1>6, <1>15, <2>1 DEF Cancel, Ended
    <2>2. CASE stage[c] = "queued" /\ Go(c, "cancelled") /\ UNCHANGED free
      <3>1. /\ Cancellable /\ waiting' = waiting
            /\ "cancelled" \in Stages /\ "cancelled" \notin Holding /\ stage[c] \notin Holding
            /\ stage[c] \in Counted /\ "cancelled" \in Counted
        BY <1>15, <2>2, StageFacts DEF Cancel, Stages, Ended, Holding, Counted
      <3> HIDE DEF Q, H, C
      <3> QED
        BY <1>0, <1>2, <1>3, <1>4, <2>2, <3>1
    <2> QED
      BY <1>15, <2>1, <2>2 DEF Cancel
  <1>16. CASE Tick
    BY <1>1, <1>16 DEF Tick
  <1>17. CASE UNCHANGED vars
    BY <1>1, <1>17 DEF vars
  <1> QED
    BY <1>7, <1>8, <1>9, <1>10, <1>11, <1>12, <1>13, <1>14, <1>15, <1>16, <1>17 DEF Next, Step
-----------------------------------------------------------------------------
(* The invariant of the concurrency guard is inductive.                     *)
THEOREM Inductive == Spec => []IInv
  BY InitIInv, StepIInv, PTL DEF Spec

(* No slot is ever lost or used twice, whatever fails or is cancelled.      *)
THEOREM NoSlotLost == Spec => []SlotsAddUp
  <1>1. IInv => SlotsAddUp
    BY DEF IInv
  <1> QED
    BY <1>1, Inductive, PTL

(* The queue keeps to its depth although cancelled calls stay counted.      *)
THEOREM QueueKeepsDepth == Spec => []QueueBounded
  <1>1. IInv => QueueBounded
    <2> SUFFICES ASSUME IInv PROVE QueueBounded
      OBVIOUS
    <2>1. Cardinality(Queued) \in Nat
      BY CallsAssumption, FS_Subset, FS_CardinalityType DEF Queued, In
    <2> QED
      BY <2>1, LimitsAssumption DEF IInv, QueueCovered, QueueBounded, Queued
  <1> QED
    BY <1>1, Inductive, PTL

(* RefusedMeansFullUncancelled: as long as no call has been cancelled, one  *)
(* is refused on arrival only when the calls that wait fill the queue.      *)
THEOREM RefusalsAreJust == Spec => RefusedMeansFullUncancelled
  <1> DEFINE Just == \A c \in Calls :
                       stage[c] = "idle" /\ stage'[c] = "refused" /\ In({"cancelled"}) = {}
                         => Cardinality(In({"queued"})) >= MaxQueueDepth
  <1>1. IInv /\ [Next]_vars => [Just]_vars
    <2> SUFFICES ASSUME IInv, Next, NEW c \in Calls,
                        stage[c] = "idle", stage'[c] = "refused",
                        In({"cancelled"}) = {}
                 PROVE  Cardinality(In({"queued"})) >= MaxQueueDepth
      BY DEF Just
    <2>1. waiting \in Nat /\ waiting <= Cardinality(In(Counted))
      BY DEF IInv, QueueCovered
    <2>2. Cardinality(In(Counted)) \in Nat
      BY CallsAssumption, FS_Subset, FS_CardinalityType DEF In
    <2>3. PICK d \in Calls : Step(d) \/ Enter(d) \/ GiveUpWaiting(d) \/ Cancel(d)
      BY DEF Next, Tick
    <2>4. \A x \in Calls : x # d => stage'[x] = stage[x]
      BY <2>3 DEF IInv, Step, Enter, GiveUpWaiting, Cancel, Admit, Limit, Wake, Answered, Fault,
                  Resend, Pass, FallAsleep, Leave, Go
    <2>5. d = c
      BY <2>4
    <2>6. Enter(c)
      BY <2>3, <2>5 DEF Step, GiveUpWaiting, Cancel, Admit, Limit, Wake, Answered, Fault, Resend,
                        Holding
    <2>7. waiting >= MaxQueueDepth
      BY <2>6 DEF Enter, Go, IInv
    <2>8. In(Counted) = In({"queued"})
      BY DEF In, Counted
    <2> QED
      BY <2>1, <2>2, <2>7, <2>8, LimitsAssumption
  <1> QED
    BY <1>1, Inductive, PTL DEF Spec, RefusedMeansFullUncancelled
-----------------------------------------------------------------------------
(* The limiter.  Nobody else gets its lock while a call sleeps, so the      *)
(* window is then as full as it was, and the sleep is at least as long as   *)
(* its oldest stamp stays in it.                                            *)
Ages == 0..Window
Sleeper(c) ==
  /\ Len(stamps) = MaxRequests
  /\ stamps[1] + nap[c] >= Window
  /\ \A d \in Calls : stage[d] = "asleep" => d = c
LimiterInv ==
  /\ stage \in [Calls -> Stages]
  /\ stamps \in Seq(Ages) /\ Len(stamps) <= MaxRequests
  /\ nap \in [Calls -> Ages]
  /\ \A c \in Calls : stage[c] = "asleep" => Sleeper(c)

(* What is dropped from the window: at least its oldest stamp once that has *)
(* left it.                                                                 *)
LEMMA FreshDrops ==
  ASSUME NEW ages \in Seq(Ages)
  PROVE  /\ Fresh(ages) \in Seq(Ages) /\ Len(Fresh(ages)) <= Len(ages)
         /\ ages # <<>> /\ ages[1] >= Window => Len(Fresh(ages)) < Len(ages)
  <1> DEFINE stale == {i \in DOMAIN ages : \A j \in 1..i : ages[j] >= Window}
             k == Cardinality(stale)
  <1>1. Len(ages) \in Nat /\ DOMAIN ages = 1..Len(ages)
    BY LenProperties
  <1>2. IsFiniteSet(1..Len(ages)) /\ Cardinality(1..Len(ages)) = Len(ages)
    BY <1>1, FS_Interval
  <1>3. stale \subseteq 1..Len(ages)
    BY <1>1
  <1>4. IsFiniteSet(stale) /\ k \in Nat /\ k <= Len(ages)
    BY <1>2, <1>3, FS_Subset, FS_CardinalityType
  <1>5. Fresh(ages) = SubSeq(ages, k + 1, Len(ages))
    BY DEF Fresh
  <1>6. ages # <<>> /\ ages[1] >= Window => k > 0
    <2> SUFFICES ASSUME ages # <<>>, ages[1] >= Window PROVE k # 0
      BY <1>4
    <2>1. 1 \in DOMAIN ages /\ \A j \in 1..1 : ages[j] >= Window
      BY <1>1
    <2>2. 1 \in stale
      BY <2>1
    <2> QED
      BY <1>4, <2>2, FS_EmptySet
  <1> HIDE DEF k, stale
  <1> DEFINE rest == SubSeq(ages, k + 1, Len(ages))
  <1>7. rest \in Seq(Ages) /\ Len(rest) = Len(ages) - k
    <2>1. k + 1 \in Int /\ Len(ages) \in Int
      BY <1>1, <1>4
    <2>2. \A i \in (k + 1)..Len(ages) : ages[i] \in Ages
      BY <1>1, <1>4, ElementOfSeq
    <2>3. /\ rest \in Seq(Ages)
          /\ Len(rest) = IF k + 1 <= Len(ages) THEN Len(ages) - (k + 1) + 1 ELSE 0
      BY <2>1, <2>2, SubSeqProperties, Zenon
    <2>4. \A a, b \in Nat :
            b <= a => (IF b + 1 <= a THEN a - (b + 1) + 1 ELSE 0) = a - b
      OBVIOUS
    <2>5. Len(rest) = Len(ages) - k
      BY <1>1, <1>4, <2>3, <2>4, Zenon
    <2> QED
      BY <2>3, <2>5
  <1>8. Fresh(ages) = rest
    BY <1>5
  <1> HIDE DEF rest
  <1> QED
    BY <1>1, <1>4, <1>6, <1>7, <1>8

LEMMA InitLimiterInv == Init => LimiterInv
  BY LimitsAssumption DEF Init, LimiterInv, Ages, Stages

(* The window and the sleeper, step by step.                                *)
LEMMA NextLimiterInv == LimiterInv /\ [Next]_vars => LimiterInv'
  <1> SUFFICES ASSUME LimiterInv, [Next]_vars PROVE LimiterInv'
    OBVIOUS
  <1>1. /\ MaxRequests \in Nat /\ MaxRequests > 0 /\ Window \in Nat /\ Window > 0
        /\ 0 \in Ages
    BY LimitsAssumption DEF Ages
  <1>2. /\ stage \in [Calls -> Stages] /\ stamps \in Seq(Ages)
        /\ Len(stamps) \in Nat /\ Len(stamps) <= MaxRequests
        /\ nap \in [Calls -> Ages]
    BY LenProperties DEF LimiterInv
  <1>3. /\ Fresh(stamps) \in Seq(Ages) /\ Len(Fresh(stamps)) \in Nat
        /\ Len(Fresh(stamps)) <= Len(stamps)
        /\ stamps # <<>> /\ stamps[1] >= Window => Len(Fresh(stamps)) < Len(stamps)
    BY <1>2, FreshDrops, LenProperties
  <1>4. ASSUME NEW c \in Calls, Pass(c), Len(Fresh(stamps)) < MaxRequests,
               \A d \in Calls : stage[d] = "asleep" => d = c, nap' = nap
        PROVE  LimiterInv'
    <2>1. stage' \in [Calls -> Stages] /\ \A d \in Calls : stage'[d] # "asleep"
      BY <1>2, <1>4 DEF Pass, Go, Stages, Holding
    <2>2. stamps' = Append(Fresh(stamps), 0)
      BY <1>4 DEF Pass
    <2>3. stamps' \in Seq(Ages) /\ Len(stamps') = Len(Fresh(stamps)) + 1
      BY <1>1, <1>3, <2>2, AppendProperties
    <2> QED
      BY <1>1, <1>2, <1>3, <1>4, <2>1, <2>3 DEF LimiterInv
  <1>5. ASSUME NEW c \in Calls, Limit(c) PROVE LimiterInv'
    <2>1. \A d \in Calls : stage[d] # "asleep"
      BY <1>5 DEF Limit, In
    <2>2. CASE Len(Fresh(stamps)) < MaxRequests
      BY <1>4, <1>5, <2>1, <2>2 DEF Limit
    <2>3. CASE ~(Len(Fresh(stamps)) < MaxRequests)
      <3>1. /\ stamps' = Fresh(stamps)
            /\ nap' = [nap EXCEPT ![c] = Window - Fresh(stamps)[1]]
            /\ stage' = [stage EXCEPT ![c] = "asleep"]
        BY <1>5, <2>3 DEF Limit, FallAsleep, Go
      <3>2. Len(Fresh(stamps)) = MaxRequests
        BY <1>1, <1>2, <1>3, <2>3
      <3>3. Fresh(stamps)[1] \in Ages
        BY <1>1, <1>3, <3>2, ElementOfSeq
      <3>4. Window - Fresh(stamps)[1] \in Ages
        BY <1>1, <3>3 DEF Ages
      <3>5. stage' \in [Calls -> Stages] /\ nap' \in [Calls -> Ages]
        BY <1>2, <3>1, <3>4 DEF Stages, Holding
      <3>6. \A d \in Calls : stage'[d] = "asleep" <=> d = c
        BY <1>2, <2>1, <3>1
      <3>7. stamps'[1] + nap'[c] >= Window
        BY <1>1, <1>2, <3>1, <3>3 DEF Ages
      <3>8. stamps' \in Seq(Ages) /\ Len(stamps') = MaxRequests
        BY <1>3, <3>1, <3>2
      <3> QED
        BY <1>1, <3>5, <3>6, <3>7, <3>8 DEF LimiterInv, Sleeper
    <2> QED
      BY <2>2, <2>3
  <1>6. ASSUME NEW c \in Calls, Wake(c) PROVE LimiterInv'
    <2>1. stage[c] = "asleep" /\ nap[c] = 0 /\ Pass(c) /\ nap' = nap
      BY <1>6 DEF Wake
    <2>2. Sleeper(c)
      BY <2>1 DEF LimiterInv
    <2>3. stamps # <<>> /\ stamps[1] \in Ages
      BY <1>1, <1>2, <2>2, ElementOfSeq DEF Sleeper
    <2>4. stamps[1] >= Window
      BY <1>1, <2>1, <2>2, <2>3 DEF Sleeper, Ages
    <2>5. Len(Fresh(stamps)) < MaxRequests
      BY <1>1, <1>2, <1>3, <2>3, <2>4
    <2> QED
      BY <1>4, <2>1, <2>2, <2>5 DEF Sleeper
  <1>7. CASE Tick
    <2>1. stamps' = Older(stamps) /\ stage' = stage
          /\ nap' = [c \in Calls |-> IF nap[c] > 0 THEN nap[c] - 1 ELSE 0]
      BY <1>7 DEF Tick
    <2>2. nap' \in [Calls -> Ages]
      BY <1>1, <1>2, <2>1 DEF Ages
    <2>3. DOMAIN stamps = 1..Len(stamps) /\ \A i \in 1..Len(stamps) : stamps[i] \in Ages
      BY <1>2, ElementOfSeq, LenProperties
    <2>4. stamps' = [i \in 1..Len(stamps) |-> IF stamps[i] < Window THEN stamps[i] + 1 ELSE Window]
      BY <2>1, <2>3 DEF Older
    <2>5. stamps' \in [1..Len(stamps) -> Ages]
      BY <1>1, <2>3, <2>4 DEF Ages
    <2>6. stamps' \in Seq(Ages) /\ Len(stamps') = Len(stamps)
      BY <1>2, <2>5, SeqDef, LenProperties
    <2>7. ASSUME NEW c \in Calls, stage'[c] = "asleep" PROVE Sleeper(c)'
      <3>1. Sleeper(c) /\ 1 \in 1..Len(stamps)
        BY <1>1, <1>2, <2>1, <2>7 DEF LimiterInv, Sleeper
      <3>2. stamps'[1] + nap'[c] >= Window
        BY <1>1, <1>2, <2>1, <2>3, <2>4, <3>1 DEF Sleeper, Ages
      <3> QED
        BY <2>1, <2>6, <3>1, <3>2 DEF Sleeper
    <2> QED
      BY <1>2, <2>1, <2>2, <2>6, <2>7 DEF LimiterInv
  <1>8. ASSUME NEW c \in Calls, NEW s \in Stages \ {"asleep"}, Go(c, s),
               UNCHANGED <<stamps, nap>>
        PROVE  LimiterInv'
    <2>1. stage' \in [Calls -> Stages]
          /\ \A d \in Calls : stage'[d] = "asleep" => stage[d] = "asleep"
      BY <1>2, <1>8 DEF Go
    <2> QED
      BY <1>8, <2>1 DEF LimiterInv, Sleeper
  <1>9. ASSUME NEW c \in Calls,
               \/ Admit(c) \/ Answered(c) \/ Fault(c) \/ Resend(c)
               \/ Enter(c) \/ GiveUpWaiting(c) \/ Cancel(c)
        PROVE  LimiterInv'
    <2>1. UNCHANGED <<stamps, nap>>
      BY <1>9 DEF Admit, Answered, Fault, Resend, Enter, GiveUpWaiting, Cancel
    <2>2. \E s \in {"limiter", "request", "backoff", "queued"} \cup Ended : Go(c, s)
      BY <1>9 DEF Admit, Answered, Fault, Resend, Enter, GiveUpWaiting, Cancel, Leave, Ended
    <2> QED
      BY <1>8, <2>1, <2>2 DEF Stages, Holding, Ended
  <1>10. CASE UNCHANGED vars
    BY <1>10 DEF vars, LimiterInv, Sleeper
  <1> QED
    BY <1>5, <1>6, <1>7, <1>9, <1>10 DEF Next, Step

(* The limiter admits at most max_requests calls in any window, although it *)
(* does not look at the limit again after its sleep.                        *)
THEOREM RateIsKept == Spec => []AdmissionsWithinRate
  <1>1. LimiterInv => AdmissionsWithinRate
    <2> SUFFICES ASSUME LimiterInv PROVE AdmissionsWithinRate
      OBVIOUS
    <2>1. Len(Fresh(stamps)) <= Len(stamps) /\ Len(Fresh(stamps)) \in Nat
          /\ Len(stamps) \in Nat /\ Len(stamps) <= MaxRequests
      BY FreshDrops, LenProperties DEF LimiterInv
    <2> QED
      BY <2>1, LimitsAssumption DEF AdmissionsWithinRate
  <1> QED
    BY <1>1, InitLimiterInv, NextLimiterInv, PTL DEF Spec
=============================================================================
