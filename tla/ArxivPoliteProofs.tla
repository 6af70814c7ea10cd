------------------------- MODULE ArxivPoliteProofs --------------------------
(***************************************************************************)
(* Proofs about the downloads from arXiv that share a process, for every   *)
(* set of nodes, every interval and every schedule of backoffs that are no *)
(* shorter than it.                                                        *)
(***************************************************************************)
EXTENDS ArxivPolite, TLAPS

Stages == {"idle", "lock"} \cup Holding

Typed ==
  /\ at \in [Nodes -> Stages]
  /\ left \in [Nodes -> Nat] /\ host \in [Nodes -> 1..2]
  /\ attempt \in [Nodes -> Nat] /\ sleep \in [Nodes -> Nat]
  /\ since \in [Nodes -> 0..MinInterval]
  /\ gap \in 0..Horizon /\ refused \in BOOLEAN /\ stops \in Nat
  /\ \A n \in Nodes : at[n] = "sent" => attempt[n] > 0

(* One node at a time has the lock, through its sleeps and its requests.    *)
OneHolder ==
  \A m, n \in Nodes : at[m] \in Holding /\ at[n] \in Holding => m = n

(* The class knows when the last request was made.                          *)
RequestsRemembered ==
  \A n \in Nodes : since[n] = IF gap < MinInterval THEN gap ELSE MinInterval

(* Who sleeps under the lock wakes when the interval is over.               *)
SleepsLongEnough ==
  \A n \in Nodes : at[n] = "asleep" => sleep[n] + gap >= MinInterval

IInv == Typed /\ OneHolder /\ RequestsRemembered /\ SleepsLongEnough
-----------------------------------------------------------------------------
(* What is assumed of the constants, number by number.                      *)
LEMMA ConstantFacts ==
  /\ Papers \in Nat /\ MinInterval \in Nat /\ Horizon \in Nat /\ StopBound \in Nat
  /\ MinInterval <= Horizon /\ Len(Backoffs) \in Nat
  /\ \A i \in 1..Len(Backoffs) : Backoffs[i] \in Nat /\ Backoffs[i] >= MinInterval
  <1>1. DOMAIN Backoffs = 1..Len(Backoffs) /\ Len(Backoffs) \in Nat
    BY PoliteAssumption
  <1>2. \A i \in 1..Len(Backoffs) : Backoffs[i] \in Nat
    BY PoliteAssumption, <1>1
  <1> QED
    BY PoliteAssumption, <1>1, <1>2

LEMMA InitEstablishes == Init => IInv
  <1> SUFFICES ASSUME Init PROVE IInv
    OBVIOUS
  <1>0. gap = Horizon /\ Horizon \in Nat /\ ~(gap < MinInterval)
    BY ConstantFacts DEF Init
  <1> USE ConstantFacts DEF Init
  <1>1. Typed
    <2>1. at \in [Nodes -> Stages]
      BY DEF Stages
    <2>2. left \in [Nodes -> Nat] /\ host \in [Nodes -> 1..2]
      OBVIOUS
    <2>3. attempt \in [Nodes -> Nat] /\ sleep \in [Nodes -> Nat]
      OBVIOUS
    <2>4. since \in [Nodes -> 0..MinInterval]
      OBVIOUS
    <2>5. gap \in 0..Horizon
      BY <1>0
    <2>7. refused \in BOOLEAN /\ stops \in Nat
      OBVIOUS
    <2>6. \A n \in Nodes : at[n] # "sent"
      OBVIOUS
    <2> QED
      BY <2>1, <2>2, <2>3, <2>4, <2>5, <2>6, <2>7 DEF Typed
  <1>2. OneHolder /\ SleepsLongEnough
    BY DEF OneHolder, Holding, SleepsLongEnough
  <1>3. RequestsRemembered
    BY <1>0 DEF RequestsRemembered
  <1> QED
    BY <1>1, <1>2, <1>3 DEF IInv

(* The invariant is kept by the steps that leave the clock alone.           *)
LEMMA NodeKeeps ==
  ASSUME IInv, InProcess, NEW n \in Nodes, Begin(n) \/ Step(n) \/ Stop(n)
  PROVE  IInv'
  <1> USE ConstantFacts DEF IInv, Go
  <1>1. CASE Begin(n)
    BY <1>1 DEF Begin, Typed, Stages, Holding, OneHolder, RequestsRemembered, SleepsLongEnough
  <1>2. CASE Acquire(n)
    <2>1. Typed'
      BY <1>2 DEF Acquire, Typed, Stages, Holding
    <2>2. OneHolder'
      BY <1>2 DEF Acquire, Typed, Holding, Mates, OneHolder
    <2>3. RequestsRemembered'
      BY <1>2 DEF Acquire, RequestsRemembered
    <2>4. SleepsLongEnough'
      BY <1>2 DEF Acquire, Typed, RequestsRemembered, SleepsLongEnough
    <2> QED
      BY <2>1, <2>2, <2>3, <2>4
  <1>3. CASE Send(n)
    <2>1. Typed'
      BY <1>3 DEF Send, Typed, Stages, Holding, Mates
    <2>2. OneHolder'
      BY <1>3 DEF Send, Typed, Holding, OneHolder
    <2>3. RequestsRemembered'
      BY <1>3 DEF Send, Typed, Mates, RequestsRemembered
    <2>4. SleepsLongEnough'
      BY <1>3 DEF Send, Typed, Holding, OneHolder, SleepsLongEnough
    <2> QED
      BY <2>1, <2>2, <2>3, <2>4
  <1>4. CASE Answered(n)
    BY <1>4 DEF Answered, Typed, Stages, Holding, OneHolder, RequestsRemembered, SleepsLongEnough
  <1>5. CASE Refused(n)
    <2>1. attempt[n] <= Len(Backoffs) =>
            Backoffs[attempt[n]] \in Nat /\ Backoffs[attempt[n]] >= MinInterval
      BY <1>5 DEF Refused, Typed
    <2>2. Typed'
      <3>1. at' \in [Nodes -> Stages]
        BY <1>5 DEF Refused, Typed, Stages, Holding
      <3>4. host' \in [Nodes -> 1..2]
        <4>1. host' = host \/ host' = [host EXCEPT ![n] = 2]
          BY <1>5 DEF Refused
        <4>2. host \in [Nodes -> 1..2]
          BY DEF Typed
        <4> QED
          BY <4>1, <4>2
      <3>2. sleep' \in [Nodes -> Nat]
        BY <1>5, <2>1 DEF Refused, Typed
      <3>3. \A m \in Nodes : at'[m] = "sent" => attempt'[m] > 0
        BY <1>5 DEF Refused, Typed
      <3> QED
        BY <1>5, <3>1, <3>2, <3>3, <3>4 DEF Refused, Typed
    <2>3. OneHolder'
      BY <1>5 DEF Refused, Typed, Stages, Holding, OneHolder
    <2>4. RequestsRemembered'
      BY <1>5 DEF Refused, RequestsRemembered
    <2>5. SleepsLongEnough'
      <3> SUFFICES ASSUME NEW m \in Nodes, at'[m] = "asleep"
                   PROVE  sleep'[m] + gap' >= MinInterval
        BY DEF SleepsLongEnough
      <3>1. CASE m = n
        BY <1>5, <2>1, <3>1 DEF Refused, Typed
      <3>2. CASE m # n
        BY <1>5, <3>2 DEF Refused, Typed, SleepsLongEnough
      <3> QED
        BY <3>1, <3>2
    <2> QED
      BY <2>2, <2>3, <2>4, <2>5
  <1>6. CASE Stop(n)
    BY <1>6 DEF Stop, Typed, Stages, Holding, OneHolder, RequestsRemembered, SleepsLongEnough
  <1> QED
    BY <1>1, <1>2, <1>3, <1>4, <1>5, <1>6 DEF Step

LEMMA NextKeeps ==
  ASSUME IInv, InProcess, [Next]_vars
  PROVE  IInv'
  <1>1. CASE \E n \in Nodes : Begin(n) \/ Step(n) \/ Stop(n)
    BY <1>1, NodeKeeps
  <1>2. CASE Tick
    <2> USE <1>2, ConstantFacts DEF IInv, Tick
    <2>1. Typed'
      BY DEF Typed
    <2>2. OneHolder'
      BY DEF OneHolder
    <2>3. RequestsRemembered'
      BY DEF Typed, RequestsRemembered
    <2>4. SleepsLongEnough'
      BY DEF Typed, SleepsLongEnough
    <2> QED
      BY <2>1, <2>2, <2>3, <2>4
  <1>3. CASE UNCHANGED vars
    BY <1>3 DEF vars, IInv, Typed, OneHolder, RequestsRemembered, SleepsLongEnough
  <1> QED
    BY <1>1, <1>2, <1>3 DEF Next

(* The inductive invariant, of nodes that share a process.                  *)
THEOREM Inductive ==
  ASSUME InProcess
  PROVE  Spec => []IInv
  <1>1. IInv /\ [Next]_vars => IInv'
    BY NextKeeps
  <1> QED
    BY InitEstablishes, <1>1, PTL DEF Spec

(* "serial requests": the lock is held from before the sleep until after    *)
(* the answer, so no two requests of the process are under way at once.     *)
THEOREM RequestsAreSerial ==
  ASSUME InProcess
  PROVE  Spec => []OneRequestAtATime
  <1>1. IInv => OneRequestAtATime
    BY DEF IInv, OneHolder, OneRequestAtATime, Holding
  <1> QED
    BY Inductive, <1>1, PTL

(* ">= 3s between requests": a sleep worked out once is long enough,        *)
(* because nobody else can make a request while it lasts.                   *)
THEOREM RequestsKeepTheirDistance ==
  ASSUME InProcess
  PROVE  Spec => GapKept
  <1>1. IInv /\ [Next]_vars => \A n \in Nodes : Sends(n) => gap >= MinInterval
    <2> SUFFICES ASSUME IInv, [Next]_vars, NEW n \in Nodes, Sends(n)
                 PROVE  gap >= MinInterval
      OBVIOUS
    <2> USE DEF Sends, Go
    <2>1. at[n] # at'[n]
      OBVIOUS
    <2>2. PICK m \in Nodes : Begin(m) \/ Step(m) \/ Stop(m)
      BY <2>1 DEF Next, Tick, vars
    <2>3. m = n
      BY <2>1, <2>2
      DEF IInv, Typed, Begin, Step, Acquire, Send, Answered, Refused, Stop
    <2>4. Send(n)
      BY <2>2, <2>3
      DEF IInv, Typed, Begin, Step, Acquire, Answered, Refused, Stop
    <2> QED
      BY <2>4, ConstantFacts DEF Send, IInv, Typed, SleepsLongEnough
  <1> QED
    BY Inductive, <1>1, PTL DEF Spec, GapKept
=============================================================================
