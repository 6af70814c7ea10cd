--------------------------- MODULE IdeaRoundsProofs --------------------------
(***************************************************************************)
(* Proofs about the state files of the three gates, for every target, every*)
(* number of rounds and tries, and any number of runs, crashes and failed  *)
(* saves.                                                                  *)
(***************************************************************************)
EXTENDS IdeaRounds, TLAPS

Files == {"accumulator", "round", "gate"}
Nodes == {"accumulate", "full", "evolve", "count", "sync", "experiment", "report"}

(* What each gate keeps.                                                    *)
State == [ accumulator |-> [count : Nat, previous : Nat],
           round |-> [number : Nat],
           gate |-> [tries : Nat] ]

Contents == State.accumulator \cup State.round \cup State.gate \cup {Lost}

Typed ==
  /\ files \in [Files -> Contents]
  /\ \A f \in Files : files[f] \in State[f] \cup {Lost}
  /\ hand.file \in Files /\ hand.state \in State[hand.file]
  /\ hand.next \in Nodes \cup {"idle"}
  /\ at \in Nodes \cup {"idle", "saving"}
  /\ {merged, ideas, rounds, spent, runs, mishaps} \subseteq Nat
  /\ settled \in BOOLEAN

Writing(f) == at = "saving" /\ hand.file = f

(* Which node is answered with which save.                                  *)
HandFits ==
  /\ Writing("accumulator") =>
       hand.next \in {"accumulate", "full", "evolve", "experiment"}
  /\ Writing("round") => hand.next = "sync"
  /\ Writing("gate") => hand.next \in {"experiment", "report"}
  /\ at \in {"full", "evolve"} => hand.file = "accumulator"
  /\ at = "sync" => hand.file = "round"

(* The place the pipeline is at, or will be once its save is done.          *)
Toward(s) == at = s \/ (at = "saving" /\ hand.next = s)

(* A crash or a failed save before the count is back at 0 keeps one paper   *)
(* more in the file; anything else leaves less than the target there.       *)
CountsBounded ==
  /\ Load("accumulator").count <= TargetCount + mishaps
  /\ at # "full" => Load("accumulator").count < TargetCount + mishaps
  /\ Toward("full") => hand.state.count \in TargetCount .. TargetCount + mishaps
  /\ Writing("accumulator") /\ hand.next # "full"
       => hand.state.count < TargetCount + mishaps
  /\ Toward("evolve") => merged \in TargetCount .. TargetCount + mishaps

(* Settled ideas are in the file, or on their way to it; and in the hand of *)
(* whoever evolves from them.                                               *)
SettledIdeas ==
  settled =>
    /\ ~Writing("accumulator") => Load("accumulator").previous = ideas
    /\ Writing("accumulator") \/ at \in {"full", "evolve"}
         => hand.state.previous = ideas

(* No round is counted that was not made, and a run that has counted one    *)
(* is past the rounds of the last paper.                                    *)
NumbersBounded ==
  /\ Load("round").number <= rounds
  /\ hand.file = "round" => hand.state.number <= rounds
  /\ spent <= rounds
  /\ Toward("experiment") \/ Toward("report") => rounds >= MaxRounds
  /\ Toward("sync") \/ Toward("experiment") \/ Toward("report") => rounds > spent

IInv == Typed /\ HandFits /\ CountsBounded /\ SettledIdeas /\ NumbersBounded
-----------------------------------------------------------------------------
(* What the gates find: a state of theirs, whatever was lost.               *)
LEMMA LoadTyped ==
  ASSUME Typed
  PROVE  /\ Load("accumulator") \in [count : Nat, previous : Nat]
         /\ Load("round") \in [number : Nat]
         /\ Load("gate") \in [tries : Nat]
  BY DEF Typed, Load, Fresh, State, Files

LEMMA InitIInv == Init => IInv
  <1> SUFFICES ASSUME Init PROVE IInv
    OBVIOUS
  <1>1. DOMAIN Fresh = Files
    BY DEF Fresh, Files
  <1>2. files = [f \in Files |-> Lost] /\ hand.file = "gate" /\ hand.state = [tries |-> 0]
        /\ hand.next = "idle"
    BY <1>1 DEF Init, Fresh
  <1>3. Typed
    <2>1. hand.state \in State["gate"]
      BY <1>2 DEF State
    <2>2. files \in [Files -> Contents]
      BY <1>2 DEF Contents
    <2> QED
      BY <1>2, <2>1, <2>2 DEF Init, Typed, Files, Nodes
  <1>4. Load("accumulator") = [count |-> 0, previous |-> 0] /\ Load("round") = [number |-> 0]
    BY <1>2 DEF Load, Fresh, Files
  <1> QED
    BY <1>2, <1>3, <1>4, RoundsAssumption
       DEF Init, IInv, HandFits, CountsBounded, SettledIdeas, NumbersBounded, Writing, Toward

(* A save: the file is truncated, or the node goes on without.              *)
LEMMA SaveDoes ==
  ASSUME Typed, NEW f \in Files, NEW state \in State[f], NEW next \in Nodes,
         Save(f, state, next)
  PROVE  /\ hand'.file = f /\ hand'.state = state /\ hand'.next = next
         /\ \A g \in Files \ {f} : files'[g] = files[g]
         /\ \/ /\ files'[f] = Lost /\ at' = "saving" /\ mishaps' = mishaps
               /\ settled' = (settled \/ at = "sync")
            \/ /\ files' = files /\ at' = next /\ mishaps' = mishaps + 1
               /\ settled' = (settled /\ f # "accumulator")
         /\ files' \in [Files -> Contents]
         /\ \A g \in Files : files'[g] \in State[g] \cup {Lost}
         /\ mishaps' \in Nat /\ settled' \in BOOLEAN
         /\ at' \in Nodes \cup {"saving"}
  <1>1. /\ files \in [Files -> Contents]
        /\ mishaps \in Nat /\ settled \in BOOLEAN
        /\ \A g \in Files : files[g] \in State[g] \cup {Lost}
    BY DEF Typed
  <1>2. hand' = [file |-> f, state |-> state, next |-> next]
    BY DEF Save
  <1>0. Lost \in Contents
    BY DEF Contents
  <1>3. CASE files' = [files EXCEPT ![f] = Lost] /\ at' = "saving"
             /\ settled' = (settled \/ at = "sync") /\ UNCHANGED mishaps
    BY <1>0, <1>1, <1>2, <1>3
  <1>4. CASE Mishap /\ at' = next /\ settled' = (settled /\ f # "accumulator")
             /\ UNCHANGED files
    BY <1>1, <1>2, <1>4 DEF Mishap
  <1> QED
    BY <1>3, <1>4 DEF Save
-----------------------------------------------------------------------------
(* Another mishap leaves room for one more paper.                           *)
LEMMA RangeGrows ==
  ASSUME NEW t \in Nat, NEW m \in Nat, NEW n \in Nat, n >= m
  PROVE  \A k \in t .. t + m : k \in t .. t + n
  OBVIOUS

(* A save keeps the invariant when the state it saves, and the node it goes *)
(* on to, fit: the one statement about the five actions that save.          *)
LEMMA SaveKeeps ==
  ASSUME IInv, at \in Nodes,
         NEW f \in Files, NEW state \in State[f], NEW next \in Nodes,
         Save(f, state, next),
         {merged', rounds', runs'} \subseteq Nat, rounds' >= rounds,
         UNCHANGED <<ideas, spent>>,
         \/ f = "accumulator" /\ next \in {"accumulate", "full", "evolve", "experiment"}
         \/ f = "round" /\ next = "sync"
         \/ f = "gate" /\ next \in {"experiment", "report"},
         next = "full" => state.count \in TargetCount .. TargetCount + mishaps,
         f = "accumulator" /\ next # "full" => state.count < TargetCount + mishaps,
         next = "evolve" => merged' \in TargetCount .. TargetCount + mishaps,
         f = "accumulator" /\ (settled \/ at = "sync") => state.previous = ideas,
         at \in {"full", "sync"} => f = "accumulator",
         f = "round" => state.number <= rounds',
         next \in {"experiment", "report"} => rounds' >= MaxRounds,
         next \in {"sync", "experiment", "report"} => rounds' > spent
  PROVE  IInv'
  <1> USE RoundsAssumption
  <1>1. Typed /\ HandFits /\ CountsBounded /\ SettledIdeas /\ NumbersBounded
    BY DEF IInv
  <1>2. /\ hand'.file = f /\ hand'.state = state /\ hand'.next = next
        /\ \A g \in Files \ {f} : files'[g] = files[g]
        /\ \/ /\ files'[f] = Lost /\ at' = "saving" /\ mishaps' = mishaps
              /\ settled' = (settled \/ at = "sync")
           \/ /\ files' = files /\ at' = next /\ mishaps' = mishaps + 1
              /\ settled' = (settled /\ f # "accumulator")
    BY <1>1, SaveDoes
  <1>3. Typed'
    BY <1>1, SaveDoes DEF Typed
  <1>4. HandFits'
    BY <1>2 DEF HandFits, Writing, Nodes
  <1>5. /\ Load("accumulator") \in [count : Nat, previous : Nat]
        /\ Load("round") \in [number : Nat]
        /\ mishaps \in Nat /\ rounds \in Nat /\ spent \in Nat
    BY <1>1, LoadTyped DEF Typed
  <1>6. \A g \in Files : Load(g)' = Load(g) \/ Load(g)' = Fresh[g]
    BY <1>2 DEF Load
  <1>7. CountsBounded'
    <2>1. Load("accumulator")'.count <= TargetCount + mishaps
      BY <1>1, <1>5, <1>6 DEF CountsBounded, Fresh, Files
    <2>2. at' # "full" => Load("accumulator")'.count < TargetCount + mishaps'
      <3>1. CASE at' = next /\ mishaps' = mishaps + 1 /\ files' = files
        BY <2>1, <3>1, <1>5, <1>6 DEF Fresh, Files
      <3>2. CASE files'[f] = Lost /\ at' = "saving" /\ mishaps' = mishaps
        <4>1. CASE f = "accumulator"
          BY <3>2, <4>1, <1>5 DEF Load, Fresh
        <4>2. CASE f # "accumulator"
          <5>1. Load("accumulator")' = Load("accumulator") /\ at # "full"
            BY <1>2, <4>2 DEF Load, Files
          <5> QED
            BY <1>1, <3>2, <5>1 DEF CountsBounded
        <4> QED
          BY <4>1, <4>2
      <3> QED
        BY <1>2, <3>1, <3>2
    <2>3. mishaps \in Nat /\ mishaps' \in Nat /\ mishaps' >= mishaps /\ TargetCount \in Nat
      BY <1>2, <1>5
    <2>4. \A n \in TargetCount .. TargetCount + mishaps :
            n \in TargetCount .. TargetCount + mishaps'
      BY <2>3, RangeGrows
    <2>5. Load("accumulator")'.count <= TargetCount + mishaps'
      BY <1>5, <1>6, <2>1, <2>3 DEF Fresh, Files
    <2>6. Toward("full")' => hand'.state.count \in TargetCount .. TargetCount + mishaps'
      BY <1>2, <2>4 DEF Toward, Nodes
    <2>7. Writing("accumulator")' /\ hand'.next # "full"
            => hand'.state.count < TargetCount + mishaps'
      BY <1>2, <1>5, <2>3 DEF Writing, Nodes, State
    <2>8. Toward("evolve")' => merged' \in TargetCount .. TargetCount + mishaps'
      BY <1>2, <2>4 DEF Toward, Nodes
    <2> QED
      BY <2>2, <2>5, <2>6, <2>7, <2>8 DEF CountsBounded
  <1>8. SettledIdeas'
    BY <1>1, <1>2 DEF SettledIdeas, Writing, Load, Files, Nodes
  <1>9. NumbersBounded'
    BY <1>1, <1>2, <1>5, <1>6 DEF NumbersBounded, Toward, Fresh, Files
  <1> QED
    BY <1>3, <1>4, <1>7, <1>8, <1>9 DEF IInv

(* The actions that save, each with what it saves and where it goes.        *)
LEMMA SavingSteps ==
  ASSUME IInv,
         \/ \E summaries \in {0, 1} : Accumulate(summaries)
         \/ Drain \/ CountRound \/ Sync
         \/ \E success \in BOOLEAN : Experiment(success)
  PROVE  IInv'
  <1> USE RoundsAssumption DEF Nodes, Files
  <1>1. Typed /\ HandFits /\ CountsBounded /\ SettledIdeas /\ NumbersBounded
    BY DEF IInv
  <1>2. /\ Load("accumulator") \in [count : Nat, previous : Nat]
        /\ Load("round") \in [number : Nat] /\ Load("gate") \in [tries : Nat]
        /\ {merged, ideas, rounds, spent, runs, mishaps} \subseteq Nat
    BY <1>1, LoadTyped DEF Typed
  <1>3. ASSUME NEW summaries \in {0, 1}, Accumulate(summaries) PROVE IInv'
    <2> DEFINE count == Load("accumulator").count + summaries
               state == [Load("accumulator") EXCEPT !.count = count]
               next == IF count < TargetCount THEN "accumulate" ELSE "full"
    <2>1. /\ state \in State["accumulator"] /\ state.count = count
          /\ state.previous = Load("accumulator").previous
      BY <1>2 DEF State
    <2>2. at = "accumulate" /\ Save("accumulator", state, next)
          /\ UNCHANGED <<merged, ideas, rounds, spent, runs>>
      BY <1>3 DEF Accumulate
    <2>3. settled => state.previous = ideas
      BY <1>1, <2>1, <2>2 DEF SettledIdeas, Writing
    <2>4. /\ next = "full" => count \in TargetCount .. TargetCount + mishaps
          /\ next # "full" => count < TargetCount + mishaps
          /\ next \in {"accumulate", "full"}
      BY <1>1, <1>2, <2>2 DEF CountsBounded
    <2> HIDE DEF count, state, next
    <2> QED
      BY <1>2, <2>1, <2>2, <2>3, <2>4, SaveKeeps
  <1>4. CASE Drain
    <2> DEFINE state == [hand.state EXCEPT !.count = 0]
    <2>1. at = "full" /\ hand.state \in State["accumulator"]
      BY <1>1, <1>4 DEF Drain, HandFits, Typed
    <2>2. /\ state \in State["accumulator"] /\ state.count = 0
          /\ state.previous = hand.state.previous
      BY <2>1 DEF State
    <2>3. /\ merged' = hand.state.count /\ Save("accumulator", state, "evolve")
          /\ UNCHANGED <<ideas, rounds, spent, runs>>
      BY <1>4 DEF Drain
    <2>4. settled => state.previous = ideas
      BY <1>1, <2>1, <2>2 DEF SettledIdeas
    <2>5. merged' \in TargetCount .. TargetCount + mishaps
      BY <1>1, <2>1, <2>3 DEF CountsBounded, Toward
    <2> HIDE DEF state
    <2> QED
      BY <1>2, <2>1, <2>2, <2>3, <2>4, <2>5, SaveKeeps
  <1>5. CASE CountRound
    <2> DEFINE state == [number |-> Load("round").number + 1]
    <2>1. at = "count" /\ rounds' = rounds + 1 /\ Save("round", state, "sync")
          /\ UNCHANGED <<merged, ideas, spent, runs>>
      BY <1>5 DEF CountRound
    <2>2. state \in State["round"] /\ state.number <= rounds' /\ rounds' > spent
      BY <1>1, <1>2, <2>1 DEF State, NumbersBounded
    <2> HIDE DEF state
    <2> QED
      BY <1>2, <2>1, <2>2, SaveKeeps
  <1>6. CASE Sync
    <2> DEFINE state == [count |-> 0, previous |-> ideas]
               next == IF hand.state.number >= MaxRounds THEN "experiment" ELSE "accumulate"
    <2>1. at = "sync" /\ Save("accumulator", state, next)
          /\ UNCHANGED <<merged, ideas, rounds, spent, runs>>
      BY <1>6 DEF Sync
    <2>2. hand.state \in [number : Nat] /\ hand.state.number <= rounds
      <3>1. hand.file = "round" /\ hand.state \in State["round"]
        BY <1>1, <2>1 DEF HandFits, Typed
      <3> QED
        BY <1>1, <3>1 DEF State, NumbersBounded
    <2>3. next = "experiment" => rounds >= MaxRounds /\ rounds > spent
      BY <1>1, <1>2, <2>1, <2>2 DEF NumbersBounded, Toward
    <2>4. state \in State["accumulator"] /\ state.count = 0 /\ state.previous = ideas
      BY <1>2 DEF State
    <2>5. next \in {"experiment", "accumulate"}
      OBVIOUS
    <2> HIDE DEF state, next
    <2> QED
      BY <1>2, <2>1, <2>3, <2>4, <2>5, SaveKeeps
  <1>7. ASSUME NEW success \in BOOLEAN, Experiment(success) PROVE IInv'
    <2> DEFINE tries == Load("gate").tries + 1
               again == ~success /\ tries < MaxRetries
               state == [tries |-> IF again THEN tries ELSE 0]
               next == IF again THEN "experiment" ELSE "report"
    <2>1. at = "experiment" /\ Save("gate", state, next)
          /\ UNCHANGED <<merged, ideas, rounds, spent, runs>>
      BY <1>7 DEF Experiment
    <2>2. state \in State["gate"] /\ next \in {"experiment", "report"}
      BY <1>2 DEF State
    <2>3. rounds >= MaxRounds /\ rounds > spent
      BY <1>1, <2>1 DEF NumbersBounded, Toward
    <2> HIDE DEF state, next
    <2> QED
      BY <1>2, <2>1, <2>2, <2>3, SaveKeeps
  <1> QED
    BY <1>3, <1>4, <1>5, <1>6, <1>7

(* The other steps: a save ends, a run begins, ends or dies, an agent       *)
(* evolves.                                                                 *)
LEMMA OtherSteps ==
  ASSUME IInv, Saved \/ Start \/ Crash \/ Evolve \/ Report
  PROVE  IInv'
  <1> USE RoundsAssumption DEF Nodes, Files
  <1>1. Typed /\ HandFits /\ CountsBounded /\ SettledIdeas /\ NumbersBounded
    BY DEF IInv
  <1>2. /\ Load("accumulator") \in [count : Nat, previous : Nat]
        /\ Load("round") \in [number : Nat]
        /\ {merged, ideas, rounds, spent, runs, mishaps} \subseteq Nat
    BY <1>1, LoadTyped DEF Typed
  <1>3. CASE Start
    <2>1. at = "idle" /\ at' = "accumulate" /\ runs' = runs + 1
          /\ UNCHANGED <<files, hand, merged, ideas, rounds, spent, settled, mishaps>>
      BY <1>3 DEF Start
    <2> QED
      BY <1>1, <1>2, <2>1 DEF IInv, Typed, HandFits, CountsBounded, SettledIdeas,
         NumbersBounded, Toward, Writing, Load
  <1>4. CASE Report
    <2>1. at = "report" /\ at' = "idle" /\ spent' = rounds
          /\ UNCHANGED <<files, hand, merged, ideas, rounds, settled, runs, mishaps>>
      BY <1>4 DEF Report
    <2> QED
      BY <1>1, <1>2, <2>1 DEF IInv, Typed, HandFits, CountsBounded, SettledIdeas,
         NumbersBounded, Toward, Writing, Load
  <1>5. CASE Evolve
    <2>1. /\ at = "evolve" /\ at' = "count" /\ settled' = FALSE
          /\ ideas' \in {0, rounds + 1}
          /\ UNCHANGED <<files, hand, merged, rounds, spent, runs, mishaps>>
      BY <1>5 DEF Evolve
    <2>2. ideas' \in Nat
      BY <1>2, <2>1
    <2>10. Typed'
      BY <1>1, <1>2, <2>1, <2>2 DEF Typed
    <2>11. HandFits'
      BY <1>1, <1>2, <2>1 DEF HandFits, Writing
    <2>12. CountsBounded'
      BY <1>1, <1>2, <2>1 DEF CountsBounded, Toward, Writing, Load
    <2>13. SettledIdeas'
      BY <1>1, <1>2, <2>1 DEF SettledIdeas, Writing, Load
    <2>14. NumbersBounded'
      BY <1>1, <1>2, <2>1 DEF NumbersBounded, Toward, Load
    <2> QED
      BY <2>10, <2>11, <2>12, <2>13, <2>14 DEF IInv
  <1>6. CASE Crash
    <2>1. /\ at' = "idle" /\ mishaps' = mishaps + 1
          /\ settled' = (settled /\ ~Writing("accumulator"))
          /\ UNCHANGED <<files, hand, merged, ideas, rounds, spent, runs>>
      BY <1>6 DEF Crash, Mishap, Writing
    <2>10. Typed'
      BY <1>1, <1>2, <2>1 DEF Typed
    <2>11. HandFits'
      BY <1>1, <1>2, <2>1 DEF HandFits, Writing
    <2>12. CountsBounded'
      BY <1>1, <1>2, <2>1 DEF CountsBounded, Toward, Writing, Load
    <2>13. SettledIdeas'
      BY <1>1, <1>2, <2>1 DEF SettledIdeas, Writing, Load
    <2>14. NumbersBounded'
      BY <1>1, <1>2, <2>1 DEF NumbersBounded, Toward, Load
    <2> QED
      BY <2>10, <2>11, <2>12, <2>13, <2>14 DEF IInv
  <1>7. CASE Saved
    <2>1. /\ at = "saving" /\ at' = hand.next
          /\ UNCHANGED <<hand, merged, ideas, rounds, spent, runs>>
      BY <1>7 DEF Saved
    <2>2. \/ /\ hand.file = "accumulator" /\ hand.state \in [count : Nat, previous : Nat]
             /\ at' \in {"accumulate", "full", "evolve", "experiment"}
          \/ hand.file = "round" /\ hand.state \in [number : Nat] /\ at' = "sync"
          \/ hand.file = "gate" /\ at' \in {"experiment", "report"}
      <3>1. hand.file \in Files /\ hand.state \in State[hand.file]
        BY <1>1 DEF Typed
      <3>2. hand.file = "accumulator" => hand.state \in [count : Nat, previous : Nat]
        BY <3>1 DEF State
      <3>3. hand.file = "round" => hand.state \in [number : Nat]
        BY <3>1 DEF State
      <3> QED
        BY <1>1, <2>1, <3>1, <3>2, <3>3 DEF HandFits, Writing
    <2>3. HandFits' /\ ~Writing("accumulator")'
      BY <2>1, <2>2 DEF HandFits, Writing
    <2>4. CASE Mishap /\ settled' = (settled /\ hand.file # "accumulator") /\ UNCHANGED files
      <3>1. mishaps' = mishaps + 1
        BY <2>4 DEF Mishap
      <3>2. Typed'
        BY <1>1, <1>2, <2>1, <2>2, <2>4, <3>1 DEF Typed
      <3>3. CountsBounded'
        BY <1>1, <1>2, <2>1, <2>2, <2>4, <3>1 DEF CountsBounded, Toward, Writing, Load
      <3>4. SettledIdeas'
        BY <1>1, <2>1, <2>2, <2>4 DEF SettledIdeas, Writing, Load
      <3>5. NumbersBounded'
        BY <1>1, <2>1, <2>2, <2>4 DEF NumbersBounded, Toward, Load
      <3> QED
        BY <2>3, <3>2, <3>3, <3>4, <3>5 DEF IInv
    <2>5. CASE files' = [files EXCEPT ![hand.file] = hand.state]
               /\ UNCHANGED <<settled, mishaps>>
      <3>1. Typed'
        BY <1>1, <1>2, <2>1, <2>2, <2>5 DEF Typed, Contents, State
      <3>2. /\ files'[hand.file] = hand.state
            /\ \A g \in Files \ {hand.file} : files'[g] = files[g]
        BY <1>1, <2>5 DEF Typed
      <3>3. hand.file = "accumulator" => Load("accumulator")' = hand.state
        BY <2>2, <3>2, LostAssumption DEF Load
      <3>4. /\ hand.file # "accumulator" => Load("accumulator")' = Load("accumulator")
            /\ hand.file # "round" => Load("round")' = Load("round")
        BY <3>2 DEF Load
      <3>5. hand.file = "round" => Load("round")' \in {hand.state, [number |-> 0]}
        BY <3>2 DEF Load, Fresh
      <3>6. CountsBounded'
        BY <1>1, <1>2, <2>1, <2>2, <2>5, <3>3, <3>4 DEF CountsBounded, Toward, Writing
      <3>7. SettledIdeas'
        BY <1>1, <2>1, <2>2, <2>5, <3>3, <3>4 DEF SettledIdeas, Writing
      <3>8. NumbersBounded'
        BY <1>1, <1>2, <2>1, <2>2, <3>4, <3>5 DEF NumbersBounded, Toward
      <3> QED
        BY <2>3, <3>1, <3>6, <3>7, <3>8 DEF IInv
    <2> QED
      BY <1>7, <2>4, <2>5 DEF Saved
  <1> QED
    BY <1>3, <1>4, <1>5, <1>6, <1>7
-----------------------------------------------------------------------------
(* The inductive invariant of the three state files: whatever is cut off or *)
(* lost, what the gates find there is a count and a round that were true.   *)
THEOREM Inductive == Spec => []IInv
  <1>1. IInv /\ [Next]_vars => IInv'
    <2> SUFFICES ASSUME IInv, [Next]_vars PROVE IInv'
      OBVIOUS
    <2>1. CASE Next
      BY <2>1, SavingSteps, OtherSteps DEF Next, Step
    <2>2. CASE UNCHANGED vars
      BY <2>2 DEF vars, IInv, Typed, HandFits, CountsBounded, SettledIdeas,
         NumbersBounded, Toward, Writing, Load
    <2> QED
      BY <2>1, <2>2
  <1> QED
    BY <1>1, InitIInv, PTL DEF Spec

(* Every evolution gets a full merge and the ideas of the round before it.  *)
THEOREM EvolutionsAreFed == Spec => []EvolvesFromWhatCameBefore
  <1>1. IInv => EvolvesFromWhatCameBefore
    BY DEF IInv, CountsBounded, SettledIdeas, Toward, Writing, EvolvesFromWhatCameBefore
  <1> QED
    BY <1>1, Inductive, PTL

(* RoundsAreMade: until a paper has come out the scoring starts after       *)
(* MaxRounds rounds that were really made, and every later paper has one of *)
(* its own at least.                                                        *)
THEOREM NoRoundIsSkipped == Spec => []RoundsAreMade
  <1>1. IInv => RoundsAreMade
    BY DEF IInv, Typed, NumbersBounded, Toward, RoundsAreMade
  <1> QED
    BY <1>1, Inductive, PTL
=============================================================================
