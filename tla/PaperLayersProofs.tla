-------------------------- MODULE PaperLayersProofs -------------------------
(***************************************************************************)
(* Proofs about the three layers, for every number of papers, every set of *)
(* papers without a title, and any number of crashes.                      *)
(***************************************************************************)
EXTENDS PaperLayers, SequenceTheorems, FiniteSetTheorems, TLAPS

AllStages == UNION {Stages[l] : l \in Layers}

Typed ==
  /\ TypeOK
  /\ at \in [Layers -> AllStages]
  /\ cur \in [Layers -> 0..N]

(* A layer past its feeder has a paper in hand.                             *)
Resting == {"down", "feeder", "teardown", "done"}
InHand == \A l \in Layers : at[l] \notin Resting => cur[l] \in Papers

(* At most one request is listened to: the one layer 1 waits for.           *)
HeardIsAwaited ==
  \A i \in 1..Len(jobs) : jobs[i].heard =>
    /\ at[1] = "waiting" /\ jobs[i].paper = cur[1]
    /\ \A j \in 1..Len(jobs) : jobs[j].heard => i = j

(* Layer 1 claims a paper it can still find, and moves a marked one.        *)
Marked(p) == idFile[p] = "written" \/ extracted[p] # "none"
FrontReady ==
  /\ at[1] = "claim" => cur[1] \in source
  /\ at[1] = "mark" => cur[1] \in source /\ cur[1] \notin quiet
  /\ at[1] = "move" => Marked(cur[1])

(* The paper layer 3 has in hand went through layers 1 and 2, and its rows  *)
(* are still to be written.                                                 *)
Choosing == {"load", "lookup", "persist", "persist_only"}
BackReady ==
  /\ at[3] \in Choosing =>
       idFile[cur[3]] # "absent" /\ titleFile[cur[3]] # "absent"
  /\ at[3] \in Choosing \ {"load"} => parsed[cur[3]] # "none"

ToWriteOnce ==
  at[3] \in Choosing
    /\ (idFile[cur[3]] = "written" \/ (at[1] = "mark" /\ cur[1] = cur[3]))
  => extracted[cur[3]] = "none"

IInv ==
  /\ Typed /\ InHand /\ HeardIsAwaited /\ FrontReady /\ BackReady /\ ToWriteOnce
  /\ NothingSkipsALayer /\ MovedMeansMarked
-----------------------------------------------------------------------------
(* What the prover has to know of the tables of stages.                     *)
LEMMA StagesAre ==
  /\ Layers = {1, 2, 3}
  /\ Stages[1] = {"down", "feeder", "dispatch", "parse", "waiting", "claim",
                  "mark", "move", "teardown", "done"}
  /\ Stages[2] = {"down", "feeder", "load", "title", "write", "written"}
  /\ Stages[3] = {"down", "feeder", "load", "lookup", "persist", "summary",
                  "persist_only"}
  /\ \A l \in Layers : Stages[l] \subseteq AllStages
  <1>1. Layers = {1, 2, 3}
    BY DEF Layers
  <1>2. \A l \in Layers : Stages[l] \subseteq AllStages
    BY DEF AllStages
  <1> QED
    BY <1>1, <1>2 DEF Stages

(* A layer moves: the others stay where they are.                           *)
LEMMA GoMoves ==
  ASSUME Typed, NEW l \in Layers, NEW s \in Stages[l], Go(l, s)
  PROVE  /\ at' \in [Layers -> AllStages]
         /\ \A k \in Layers : at'[k] \in Stages[k]
         /\ at'[l] = s
         /\ \A k \in Layers \ {l} : at'[k] = at[k]
  BY StagesAre DEF Typed, TypeOK, Go

LEMMA TakeMoves ==
  ASSUME Typed, NEW l \in Layers, NEW p \in 0..N, Take(l, p)
  PROVE  /\ cur' \in [Layers -> 0..N]
         /\ cur'[l] = p
         /\ \A k \in Layers \ {l} : cur'[k] = cur[k]
  BY DEF Typed, Take

LEMMA InitIInv == Init => IInv
  <1> SUFFICES ASSUME Init PROVE IInv
    OBVIOUS
  <1>1. Typed
    <2>1. /\ at = [l \in Layers |-> "down"] /\ cur = [l \in Layers |-> 0]
          /\ 0 \in 0..N /\ \A l \in Layers : "down" \in Stages[l]
      BY StagesAre, LayersAssumption DEF Init
    <2>2. at \in [Layers -> AllStages] /\ cur \in [Layers -> 0..N]
      BY <2>1, StagesAre
    <2>3. crashes \in [0..3 -> 0..CrashBound]
      BY LayersAssumption DEF Init
    <2> QED
      BY <2>1, <2>2, <2>3 DEF Init, Typed, TypeOK
  <1>2. InHand /\ FrontReady /\ BackReady /\ ToWriteOnce
    BY StagesAre DEF Init, InHand, Resting, FrontReady, BackReady, ToWriteOnce,
       Choosing
  <1>3. HeardIsAwaited
    BY DEF Init, HeardIsAwaited
  <1> QED
    BY <1>1, <1>2, <1>3 DEF Init, IInv, NothingSkipsALayer, MovedMeansMarked
-----------------------------------------------------------------------------
(* Types.                                                                   *)
LEMMA HandTyped ==
  ASSUME Typed, InHand, NEW l \in Layers, at[l] \notin Resting
  PROVE  cur[l] \in Papers
  BY DEF InHand

(* The requests at the daemon, and what becomes of them when nobody listens.*)
Requests == [paper : Papers, heard : BOOLEAN]
LEMMA UnhearFacts ==
  ASSUME NEW js \in Seq(Requests)
  PROVE  /\ Unhear(js) \in Seq(Requests)
         /\ Len(Unhear(js)) = Len(js)
         /\ \A i \in 1..Len(js) : ~Unhear(js)[i].heard
  <1>1. \A i \in 1..Len(js) : js[i] \in Requests
    OBVIOUS
  <1>2. \A i \in 1..Len(js) : Unhear(js)[i] = [js[i] EXCEPT !.heard = FALSE]
    BY DEF Unhear
  <1>3. \A i \in 1..Len(js) : Unhear(js)[i] \in Requests /\ ~Unhear(js)[i].heard
    BY <1>1, <1>2 DEF Requests
  <1>4. Unhear(js) \in [1..Len(js) -> Requests] /\ Len(js) \in Nat
    BY <1>3 DEF Unhear
  <1> QED
    BY <1>3, <1>4, SeqDef, LenProperties

LEMMA RestUnchanged ==
  ASSUME Typed, UNCHANGED <<queue, jobs, up, folders, tables, failed, crashes>>,
         at' \in [Layers -> AllStages], \A k \in Layers : at'[k] \in Stages[k],
         cur' \in [Layers -> 0..N]
  PROVE  Typed'
  BY DEF Typed, TypeOK, folders, tables

LEMMA FrontTyped ==
  ASSUME Typed, InHand, Layer1 \/ ParseTimeout
  PROVE  Typed'
  <1> USE StagesAre DEF Turn, folders, tables
  <1>1. CASE Feed
    <2>1. CASE Cursor < N
      <3>1. Cursor \in 0..N /\ Cursor + 1 \in 0..N
        BY <2>1, LayersAssumption DEF Cursor, Typed, TypeOK
      <3>2. Go(1, "dispatch") /\ Take(1, Cursor + 1)
        BY <1>1, <2>1 DEF Feed
      <3>3. queue' = [cursor |-> Cursor, readable |-> FALSE]
        BY <1>1, <2>1 DEF Feed
      <3>4. queue' \in [cursor : 0..N, readable : BOOLEAN]
        BY <3>1, <3>3
      <3> QED
        BY <1>1, <3>1, <3>2, <3>4, GoMoves, TakeMoves DEF Feed, Typed, TypeOK
    <2>2. CASE ~(Cursor < N)
      BY <1>1, <2>2, GoMoves DEF Feed, Typed, TypeOK
    <2> QED
      BY <2>1, <2>2
  <1>2. CASE Dispatch
    <2>1. queue' \in [cursor : 0..N, readable : BOOLEAN]
      BY <1>2 DEF Dispatch, Typed
    <2> QED
      BY <1>2, <2>1, GoMoves DEF Dispatch, Typed, TypeOK
  <1>3. CASE Request
    <2>1. cur[1] \in Papers
      BY <1>3, HandTyped DEF Request, Resting
    <2>2. CASE up
      <3>1. jobs' = Append(jobs, [paper |-> cur[1], heard |-> TRUE])
        BY <1>3, <2>2 DEF Request
      <3>2. jobs' \in Seq([paper : Papers, heard : BOOLEAN])
        <4>1. [paper |-> cur[1], heard |-> TRUE] \in Requests
          BY <2>1 DEF Requests
        <4> QED
          BY <3>1, <4>1 DEF Typed, TypeOK, Requests
      <3> QED
        BY <1>3, <2>2, <3>2, GoMoves DEF Request, Typed, TypeOK
    <2>3. CASE ~up
      BY <1>3, <2>1, <2>3, GoMoves DEF Request, Typed, TypeOK
    <2> QED
      BY <2>2, <2>3
  <1>4. CASE Claim
    <2>1. cur[1] \in Papers
      BY <1>4, HandTyped DEF Claim, Resting
    <2>2. /\ at' \in [Layers -> AllStages]
          /\ \A k \in Layers : at'[k] \in Stages[k]
      BY <1>4, GoMoves DEF Claim
    <2>3. /\ idFile' \in [Papers -> {"absent", "empty", "written"}]
          /\ quiet' \subseteq Papers /\ failed' \subseteq Papers
      BY <1>4, <2>1 DEF Claim, Touch, Typed, TypeOK
    <2> QED
      BY <1>4, <2>2, <2>3 DEF Claim, Typed, TypeOK
  <1>5. CASE Mark
    <2>1. /\ idFile' \in [Papers -> {"absent", "empty", "written"}]
          /\ quiet' \subseteq Papers
      BY <1>5 DEF Mark, Touch, Typed, TypeOK
    <2> QED
      BY <1>5, <2>1, GoMoves DEF Mark, Typed, TypeOK
  <1>6. CASE Move
    <2>1. source' \subseteq Papers
      BY <1>6 DEF Move, Typed, TypeOK
    <2> QED
      BY <1>6, <2>1, GoMoves DEF Move, Typed, TypeOK
  <1>7. CASE Teardown
    <2>1. up' \in BOOLEAN
      BY <1>7 DEF Teardown
    <2> QED
      BY <1>7, <2>1, GoMoves DEF Teardown, Typed, TypeOK
  <1>8. CASE ParseTimeout
    <2>1. cur[1] \in Papers
      BY <1>8, HandTyped DEF ParseTimeout, Resting
    <2>2. jobs' \in Seq([paper : Papers, heard : BOOLEAN])
      BY <1>8, UnhearFacts DEF ParseTimeout, Typed, TypeOK, Requests
    <2> QED
      BY <1>8, <2>1, <2>2, GoMoves DEF ParseTimeout, Typed, TypeOK
  <1> QED
    BY <1>1, <1>2, <1>3, <1>4, <1>5, <1>6, <1>7, <1>8 DEF Layer1

LEMMA BackTyped ==
  ASSUME Typed, InHand, Layer2 \/ Layer3
  PROVE  Typed'
  <1> USE StagesAre DEF Turn, folders, tables
  <1>1. ASSUME NEW l \in {2, 3}, Pick(l) PROVE Typed'
    <2>1. PICK p \in Eligible(l) : Take(l, p)
      BY <1>1 DEF Pick
    <2>2. p \in 0..N
      BY <2>1, LayersAssumption DEF Eligible, Papers, Typed, TypeOK
    <2>3. /\ at' \in [Layers -> AllStages]
          /\ \A k \in Layers : at'[k] \in Stages[k]
      BY <1>1, GoMoves DEF Pick
    <2>4. cur' \in [Layers -> 0..N]
      BY <2>1, <2>2, TakeMoves
    <2> QED
      BY <1>1, <2>3, <2>4, RestUnchanged DEF Pick
  <1>2. ASSUME NEW l \in {2, 3}, Load(l) PROVE Typed'
    <2>1. PICK s \in Stages[l] : Go(l, s)
      BY <1>2 DEF Load
    <2> QED
      BY <1>2, <2>1, GoMoves DEF Load, Typed, TypeOK
  <1>3. CASE Titled
    BY <1>3, GoMoves DEF Titled, Typed, TypeOK
  <1>4. CASE NoTitle
    BY <1>4, GoMoves DEF NoTitle, Typed, TypeOK
  <1>5. CASE PersistTitle
    <2>1. PICK s \in Stages[2] : Go(2, s)
      BY <1>5 DEF PersistTitle
    <2>2. /\ titleFile' \in [Papers -> {"absent", "empty", "written"}]
          /\ quiet' \subseteq Papers /\ UNCHANGED <<cur, crashes>>
      BY <1>5 DEF PersistTitle, Touch, Typed, TypeOK
    <2> QED
      BY <1>5, <2>1, <2>2, GoMoves DEF PersistTitle, Typed, TypeOK
  <1>6. CASE Lookup
    <2>1. PICK s \in Stages[3] : Go(3, s)
      BY <1>6 DEF Lookup
    <2> QED
      BY <1>6, <2>1, GoMoves DEF Lookup, Typed, TypeOK
  <1>7. ASSUME NEW outcome \in {"none", "partial", "full"}, PersistAs(outcome)
        PROVE  Typed'
    <2>1. PICK s \in Stages[3] : Go(3, s)
      BY <1>7 DEF PersistAs
    <2>2. /\ extracted' \in [Papers -> {"none", "partial", "full"}]
          /\ quiet' \subseteq Papers
      BY <1>7 DEF PersistAs, Touch, Typed, TypeOK
    <2> QED
      BY <1>7, <2>1, <2>2, GoMoves DEF PersistAs, Typed, TypeOK
  <1>8. CASE PersistSummary
    <2>1. cur[3] \in Papers
      BY <1>8, HandTyped DEF PersistSummary, Resting
    <2> QED
      BY <1>8, <2>1, GoMoves DEF PersistSummary, Typed, TypeOK
  <1> QED
    BY <1>1, <1>2, <1>3, <1>4, <1>5, <1>6, <1>7, <1>8
       DEF Layer2, Layer3, PersistParse, PersistFails

(* A crash is counted, and only while the bound allows it.                  *)
LEMMA CrashTyped ==
  ASSUME Typed, CrashesLeft, NEW i \in 0..3,
         crashes' = [crashes EXCEPT ![i] = @ + 1]
  PROVE  crashes' \in [0..3 -> 0..CrashBound]
  <1>1. crashes \in [0..3 -> 0..CrashBound] /\ CrashBound \in Nat
    BY LayersAssumption DEF Typed, TypeOK
  <1>2. crashes[i] + 1 \in 0..CrashBound
    BY <1>1 DEF CrashesLeft
  <1> QED
    BY <1>1, <1>2

LEMMA OthersTyped ==
  ASSUME Typed, InHand,
         \/ DaemonParses \/ DaemonCrashes
         \/ \E l \in Layers : Start(l) \/ Crash(l)
         \/ \E p \in Papers : Age(p)
  PROVE  Typed'
  <1> USE StagesAre DEF folders, tables
  <1>1. CASE DaemonParses
    <2>1. /\ jobs # <<>> /\ jobs \in Seq(Requests)
          /\ jobs' = Tail(jobs)
      BY <1>1 DEF DaemonParses, Typed, TypeOK, Requests
    <2>2. jobs' \in Seq(Requests) /\ Head(jobs) \in Requests
      BY <2>1
    <2>3. Head(jobs).paper \in Papers
      BY <2>2 DEF Requests
    <2>4. /\ parsed' \in [Papers -> {"none", "torn", "done"}]
          /\ quiet' \subseteq Papers /\ failed' \subseteq Papers
      BY <1>1, <2>3 DEF DaemonParses, Touch, Typed, TypeOK
    <2>5. \/ \E s \in Stages[1] : Go(1, s)
          \/ UNCHANGED at
      BY <1>1 DEF DaemonParses
    <2>6. /\ at' \in [Layers -> AllStages]
          /\ \A k \in Layers : at'[k] \in Stages[k]
      BY <2>5, GoMoves DEF Typed, TypeOK
    <2> QED
      BY <1>1, <2>2, <2>4, <2>6 DEF DaemonParses, Typed, TypeOK, Requests
  <1>2. CASE DaemonCrashes
    <2>1. jobs \in Seq(Requests)
      BY DEF Typed, TypeOK, Requests
    <2>2. /\ parsed' \in [Papers -> {"none", "torn", "done"}]
          /\ quiet' \subseteq Papers
      BY <1>2, <2>1 DEF DaemonCrashes, Touch, Typed, TypeOK
    <2>3. /\ at' \in [Layers -> AllStages]
          /\ \A k \in Layers : at'[k] \in Stages[k]
      BY <1>2, GoMoves DEF DaemonCrashes, Typed, TypeOK
    <2>4. failed' \subseteq Papers
      BY <1>2, HandTyped DEF DaemonCrashes, Resting, Typed, TypeOK
    <2>5. crashes' \in [0..3 -> 0..CrashBound]
      <3>1. CrashesLeft /\ crashes' = [crashes EXCEPT ![0] = @ + 1] /\ 0 \in 0..3
        BY <1>2 DEF DaemonCrashes
      <3> QED
        BY <3>1, CrashTyped
    <2>6. jobs' \in Seq([paper : Papers, heard : BOOLEAN]) /\ up' \in BOOLEAN
      <3>1. jobs' = <<>> /\ up' = FALSE
        BY <1>2 DEF DaemonCrashes
      <3>2. jobs' \in Seq([paper : Papers, heard : BOOLEAN])
        BY <3>1, EmptySeq
      <3>3. up' \in BOOLEAN
        BY <3>1
      <3> QED
        BY <3>2, <3>3
    <2> QED
      BY <1>2, <2>2, <2>3, <2>4, <2>5, <2>6 DEF DaemonCrashes, Typed, TypeOK
  <1>3. ASSUME NEW l \in Layers, Start(l) PROVE Typed'
    <2>1. 0 \in 0..N /\ up' \in BOOLEAN
      BY <1>3, LayersAssumption DEF Start
    <2> QED
      BY <1>3, <2>1, GoMoves, TakeMoves DEF Start, Typed, TypeOK
  <1>4. ASSUME NEW l \in Layers, Crash(l) PROVE Typed'
    <2>1. 0 \in 0..N
      BY LayersAssumption
    <2>2. crashes' \in [0..3 -> 0..CrashBound]
      <3>1. CrashesLeft /\ crashes' = [crashes EXCEPT ![l] = @ + 1] /\ l \in 0..3
        BY <1>4 DEF Crash, Layers
      <3> QED
        BY <3>1, CrashTyped
    <2>3. jobs' \in Seq([paper : Papers, heard : BOOLEAN])
      BY <1>4, UnhearFacts DEF Crash, Typed, TypeOK, Requests
    <2>4. /\ at' \in [Layers -> AllStages]
          /\ \A k \in Layers : at'[k] \in Stages[k]
      BY <1>4, GoMoves DEF Crash
    <2>5. cur' \in [Layers -> 0..N]
      BY <1>4, <2>1, TakeMoves DEF Crash
    <2> QED
      BY <1>4, <2>2, <2>3, <2>4, <2>5 DEF Crash, Typed, TypeOK
  <1>5. ASSUME NEW p \in Papers, Age(p) PROVE Typed'
    <2>1. quiet' \subseteq Papers
      BY <1>5 DEF Age, Typed, TypeOK
    <2> QED
      BY <1>5, <2>1 DEF Age, Typed, TypeOK
  <1> QED
    BY <1>1, <1>2, <1>3, <1>4, <1>5
-----------------------------------------------------------------------------
(* What a step leaves alone.                                                *)
LEMMA BackFrame ==
  ASSUME Typed, Layer2 \/ Layer3
  PROVE  /\ at'[1] = at[1] /\ cur'[1] = cur[1]
         /\ UNCHANGED <<jobs, source, parsed, idFile>>
  <1> USE StagesAre DEF folders, tables, Turn, Go, Take
  <1>1. ASSUME NEW l \in {2, 3}, Pick(l) \/ Load(l)
        PROVE  /\ at'[1] = at[1] /\ cur'[1] = cur[1]
               /\ UNCHANGED <<jobs, source, parsed, idFile>>
    BY <1>1 DEF Pick, Load, Typed
  <1>2. CASE Titled \/ NoTitle \/ PersistTitle
    BY <1>2 DEF Titled, NoTitle, PersistTitle, Typed
  <1>3. CASE Lookup \/ PersistParse \/ PersistFails \/ PersistSummary
    BY <1>3 DEF Lookup, PersistParse, PersistFails, PersistAs, PersistSummary, Typed
  <1> QED
    BY <1>1, <1>2, <1>3 DEF Layer2, Layer3

LEMMA FrontFrame ==
  ASSUME Typed, Layer1 \/ ParseTimeout \/ DaemonParses \/ DaemonCrashes
  PROVE  /\ \A l \in {2, 3} : at'[l] = at[l] /\ cur'[l] = cur[l]
         /\ UNCHANGED <<extracted, titleFile>>
  <1> USE StagesAre DEF folders, tables, Turn, Go, Take
  <1>1. CASE Feed \/ Dispatch \/ Request
    BY <1>1 DEF Feed, Dispatch, Request, Typed
  <1>2. CASE Claim \/ Mark \/ Move \/ Teardown
    BY <1>2 DEF Claim, Mark, Move, Teardown, Typed
  <1>3. CASE ParseTimeout
    BY <1>3 DEF ParseTimeout, Typed
  <1>4. CASE DaemonParses
    BY <1>4 DEF DaemonParses, Typed
  <1>5. CASE DaemonCrashes
    BY <1>5 DEF DaemonCrashes, Typed
  <1> QED
    BY <1>1, <1>2, <1>3, <1>4, <1>5 DEF Layer1

(* A layer that starts or dies is idle and leaves every file and row alone. *)
LEMMA LifeFrame ==
  ASSUME Typed, NEW l \in Layers, Start(l) \/ Crash(l)
  PROVE  /\ at'[l] \in {"down", "feeder"}
         /\ \A k \in Layers \ {l} : at'[k] = at[k] /\ cur'[k] = cur[k]
         /\ UNCHANGED <<folders, tables>>
         /\ (jobs' = jobs /\ (l = 1 => at[1] = "down"))
              \/ jobs' = (IF l = 1 THEN Unhear(jobs) ELSE jobs)
  <1>1. CASE Start(l)
    BY <1>1 DEF Start, Go, Take, Typed, folders, tables
  <1>2. CASE Crash(l)
    BY <1>2 DEF Crash, Go, Take, Typed, folders, tables
  <1> QED
    BY <1>1, <1>2

-----------------------------------------------------------------------------
(* Whoever is past a feeder has a paper.                                    *)
LEMMA InHandKeeps ==
  ASSUME IInv, Next
  PROVE  InHand'
  <1> USE StagesAre DEF InHand, Resting
  <1>1. Typed /\ InHand
    BY DEF IInv
  <1>2. CASE Feed
    <2>1. /\ at' = [at EXCEPT ![1] = "teardown"] /\ UNCHANGED cur
          \/ /\ Cursor < N /\ at' = [at EXCEPT ![1] = "dispatch"]
             /\ cur' = [cur EXCEPT ![1] = Cursor + 1]
      BY <1>2 DEF Feed, Go, Take
    <2>2. Cursor < N => Cursor + 1 \in Papers
      BY <1>1, LayersAssumption DEF Cursor, Papers, Typed, TypeOK
    <2> QED
      BY <1>1, <2>1, <2>2 DEF Typed
  <1>3. CASE \/ Dispatch \/ Request \/ Claim \/ Mark \/ Move \/ Teardown
             \/ ParseTimeout
    BY <1>1, <1>3 DEF Dispatch, Request, Claim, Mark, Move, Teardown,
       ParseTimeout, Turn, Go, Typed
  <1>4. CASE DaemonParses
    <2>1. CASE Head(jobs).heard
      <3>1. Head(jobs) = jobs[1] /\ 1 \in 1..Len(jobs)
        BY <1>1, <1>4 DEF DaemonParses, Typed, TypeOK
      <3>2. at[1] = "waiting"
        BY <2>1, <3>1 DEF IInv, HeardIsAwaited
      <3> QED
        BY <1>1, <1>4, <2>1, <3>2 DEF DaemonParses, Go, Typed
    <2>2. CASE ~Head(jobs).heard
      BY <1>1, <1>4, <2>2 DEF DaemonParses
    <2> QED
      BY <2>1, <2>2
  <1>5. CASE DaemonCrashes
    BY <1>1, <1>5 DEF DaemonCrashes, Go, Typed
  <1>6. ASSUME NEW l \in Layers, Start(l) \/ Crash(l) PROVE InHand'
    BY <1>1, <1>6, LifeFrame
  <1>7. ASSUME NEW p \in Papers, Age(p) PROVE InHand'
    BY <1>1, <1>7 DEF Age
  <1>8. ASSUME NEW l \in {2, 3}, Pick(l) PROVE InHand'
    <2>1. PICK p \in Eligible(l) : Take(l, p)
      BY <1>8 DEF Pick
    <2>2. p \in Papers
      BY <1>1, <2>1 DEF Eligible, Typed, TypeOK
    <2> QED
      BY <1>1, <1>8, <2>1, <2>2 DEF Pick, Go, Take, Typed
  <1>9. ASSUME NEW l \in {2, 3}, Load(l) PROVE InHand'
    BY <1>1, <1>9 DEF Load, Turn, Go, Typed
  <1>10. CASE \/ Titled \/ NoTitle \/ PersistTitle \/ Lookup \/ PersistParse
              \/ PersistFails \/ PersistSummary
    BY <1>1, <1>10 DEF Titled, NoTitle, PersistTitle, Lookup, PersistParse,
       PersistFails, PersistAs, PersistSummary, Turn, Go, Typed
  <1> QED
    BY <1>2, <1>3, <1>4, <1>5, <1>6, <1>7, <1>8, <1>9, <1>10
       DEF Next, Layer1, Layer2, Layer3
-----------------------------------------------------------------------------
(* One request is listened to, and only while layer 1 waits for it.         *)
LEMMA TailOf ==
  ASSUME NEW js \in Seq(Requests), js # <<>>
  PROVE  /\ Head(js) = js[1] /\ 1 \in 1..Len(js) /\ Head(js) \in Requests
         /\ \A i \in 1..Len(Tail(js)) :
              i + 1 \in 1..Len(js) /\ Tail(js)[i] = js[i + 1]
  OBVIOUS

LEMMA HeardKeeps ==
  ASSUME IInv, Next
  PROVE  HeardIsAwaited'
  <1> USE StagesAre
  <1>1. /\ Typed /\ HeardIsAwaited /\ jobs \in Seq(Requests)
        /\ Len(jobs) \in Nat
    BY DEF IInv, Typed, TypeOK, Requests
  <1>2. at[1] # "waiting" => \A i \in 1..Len(jobs) : ~jobs[i].heard
    BY <1>1 DEF HeardIsAwaited
  <1>3. CASE Layer2 \/ Layer3
    BY <1>1, <1>3, BackFrame DEF HeardIsAwaited
  <1>4. ASSUME NEW p \in Papers, Age(p) PROVE HeardIsAwaited'
    BY <1>1, <1>4 DEF Age, HeardIsAwaited
  <1>5. CASE Feed \/ Dispatch \/ Claim \/ Mark \/ Move \/ Teardown
    <2>1. at[1] # "waiting" /\ jobs' = jobs
      BY <1>5 DEF Feed, Dispatch, Claim, Mark, Move, Teardown, Turn
    <2> QED
      BY <1>2, <2>1 DEF HeardIsAwaited
  <1>6. CASE Request
    <2>1. \A i \in 1..Len(jobs) : ~jobs[i].heard
      BY <1>2, <1>6 DEF Request, Turn
    <2>2. CASE up
      <3>1. cur[1] \in Papers /\ at'[1] = "waiting" /\ cur' = cur
        BY <1>1, <1>6, <2>2, HandTyped DEF Request, Turn, Go, Typed, Resting, IInv
      <3>2. [paper |-> cur[1], heard |-> TRUE] \in Requests
        BY <3>1 DEF Requests
      <3>3. /\ jobs' = Append(jobs, [paper |-> cur[1], heard |-> TRUE])
            /\ Len(jobs') = Len(jobs) + 1
            /\ \A i \in 1..Len(jobs) : jobs'[i] = jobs[i]
            /\ jobs'[Len(jobs) + 1] = [paper |-> cur[1], heard |-> TRUE]
        BY <1>1, <1>6, <2>2, <3>2, AppendProperties DEF Request
      <3>4. \A i \in 1..Len(jobs') : jobs'[i].heard => i = Len(jobs) + 1
        BY <1>1, <2>1, <3>3
      <3> QED
        BY <1>1, <3>1, <3>3, <3>4 DEF HeardIsAwaited
    <2>3. CASE ~up
      BY <1>6, <2>1, <2>3 DEF Request, HeardIsAwaited
    <2> QED
      BY <2>2, <2>3
  <1>7. CASE ParseTimeout
    BY <1>1, <1>7, UnhearFacts DEF ParseTimeout, HeardIsAwaited
  <1>8. CASE DaemonCrashes
    <2>1. jobs' = <<>>
      BY <1>8 DEF DaemonCrashes
    <2> QED
      BY <2>1 DEF HeardIsAwaited
  <1>9. CASE DaemonParses
    <2>1. /\ jobs # <<>> /\ jobs' = Tail(jobs) /\ cur' = cur
      BY <1>9 DEF DaemonParses
    <2>2. /\ Head(jobs) = jobs[1] /\ 1 \in 1..Len(jobs)
          /\ \A i \in 1..Len(jobs') :
               i + 1 \in 1..Len(jobs) /\ jobs'[i] = jobs[i + 1]
      BY <1>1, <2>1, TailOf
    <2>3. CASE Head(jobs).heard
      <3>1. \A i \in 1..Len(jobs') : ~jobs'[i].heard
        BY <1>1, <2>2, <2>3 DEF HeardIsAwaited
      <3> QED
        BY <3>1 DEF HeardIsAwaited
    <2>4. CASE ~Head(jobs).heard
      <3>1. at' = at
        BY <1>9, <2>4 DEF DaemonParses
      <3> QED
        BY <1>1, <2>1, <2>2, <3>1 DEF HeardIsAwaited
    <2> QED
      BY <2>3, <2>4
  <1>10. ASSUME NEW l \in Layers, Start(l) \/ Crash(l) PROVE HeardIsAwaited'
    <2>1. CASE l = 1
      <3>1. CASE Start(l)
        BY <1>2, <2>1, <3>1 DEF Start, HeardIsAwaited
      <3>2. CASE Crash(l)
        BY <1>1, <2>1, <3>2, UnhearFacts DEF Crash, HeardIsAwaited
      <3> QED
        BY <1>10, <3>1, <3>2
    <2>2. CASE l # 1
      BY <1>1, <1>10, <2>2, LifeFrame DEF HeardIsAwaited
    <2> QED
      BY <2>1, <2>2
  <1> QED
    BY <1>3, <1>4, <1>5, <1>6, <1>7, <1>8, <1>9, <1>10 DEF Next, Layer1

(* What a paper has been given it keeps, but for a marker that is rewritten.*)
LEMMA FilesGrow ==
  ASSUME IInv, Next
  PROVE  \A p \in Papers :
           /\ parsed[p] # "none" => parsed'[p] # "none"
           /\ idFile[p] # "absent" => idFile'[p] # "absent"
           /\ titleFile[p] # "absent" => titleFile'[p] # "absent"
           /\ extracted[p] # "none" => extracted'[p] # "none"
  <1> USE DEF Typed, TypeOK, folders, tables
  <1>1. Typed
    BY DEF IInv
  <1>2. CASE Layer1 \/ ParseTimeout
    BY <1>1, <1>2 DEF Layer1, Feed, Dispatch, Request, Claim, Mark, Move, Teardown,
       ParseTimeout
  <1>3. CASE DaemonParses \/ DaemonCrashes
    <2>1. jobs # <<>> => Head(jobs).paper \in Papers
      BY <1>1, TailOf DEF Requests
    <2> QED
      BY <1>1, <1>3, <2>1 DEF DaemonParses, DaemonCrashes
  <1>4. CASE Layer2
    BY <1>1, <1>4 DEF Layer2, Pick, Load, Titled, NoTitle, PersistTitle
  <1>5. CASE Layer3
    BY <1>1, <1>5 DEF Layer3, Pick, Load, Lookup, PersistParse, PersistFails,
       PersistAs, PersistSummary
  <1>6. CASE \/ \E l \in Layers : Start(l) \/ Crash(l)
             \/ \E p \in Papers : Age(p)
    BY <1>6 DEF Start, Crash, Age
  <1> QED
    BY <1>2, <1>3, <1>4, <1>5, <1>6 DEF Next

-----------------------------------------------------------------------------
(* Layer 1: what it claims is still there, what it moves is marked.         *)
LEMMA FrontReadyKeeps ==
  ASSUME IInv, Next
  PROVE  FrontReady'
  <1> USE StagesAre DEF FrontReady, Marked, folders, tables
  <1>1. Typed /\ FrontReady /\ InHand /\ (at[1] \notin Resting => cur[1] \in Papers)
    BY DEF IInv, InHand
  <1>2. CASE Feed \/ Dispatch \/ Request \/ Teardown \/ ParseTimeout \/ Move
    <2>1. at'[1] \notin {"claim", "mark", "move"}
      BY <1>1, <1>2 DEF Feed, Dispatch, Request, Teardown, ParseTimeout, Move, Go,
         Typed
    <2> QED
      BY <2>1
  <1>3. CASE Claim
    <2>1. at[1] = "claim" /\ cur' = cur /\ source' = source
      BY <1>3 DEF Claim, Turn
    <2>2. CASE extracted[cur[1]] # "none" /\ Go(1, "move")
      BY <1>1, <1>3, <2>1, <2>2 DEF Claim, Go, Typed
    <2>3. CASE Touch(cur[1]) /\ Go(1, "mark")
      BY <1>1, <2>1, <2>3 DEF Touch, Go, Typed
    <2>4. CASE Go(1, "feeder")
      BY <1>1, <2>4 DEF Go, Typed
    <2> QED
      BY <1>3, <2>2, <2>3, <2>4 DEF Claim
  <1>4. CASE Mark
    <2>1. /\ at'[1] = "move" /\ cur' = cur /\ cur[1] \in Papers
          /\ idFile' = [idFile EXCEPT ![cur[1]] = "written"]
      BY <1>1, <1>4 DEF Mark, Turn, Go, Typed, Resting
    <2> QED
      BY <1>1, <2>1 DEF Typed, TypeOK
  <1>5. CASE DaemonParses
    <2>1. /\ jobs # <<>> /\ cur' = cur /\ source' = source /\ idFile' = idFile
          /\ extracted' = extracted /\ quiet' \subseteq quiet
      BY <1>5 DEF DaemonParses, Touch
    <2>2. CASE Head(jobs).heard
      <3>1. Head(jobs).paper = cur[1]
        BY <2>1, <2>2, TailOf DEF IInv, HeardIsAwaited, Typed, TypeOK, Requests
      <3>2. \/ at'[1] = "feeder"
            \/ at'[1] = "claim" /\ Head(jobs).paper \in source
        BY <1>1, <1>5, <2>2 DEF DaemonParses, Go, Typed
      <3> QED
        BY <2>1, <3>1, <3>2
    <2>3. CASE ~Head(jobs).heard
      <3>1. at' = at
        BY <1>5, <2>3 DEF DaemonParses
      <3> QED
        BY <1>1, <2>1, <3>1
    <2> QED
      BY <2>2, <2>3
  <1>6. CASE DaemonCrashes
    <2>1. /\ cur' = cur /\ source' = source /\ idFile' = idFile
          /\ extracted' = extracted /\ quiet' \subseteq quiet
          /\ at'[1] = at[1] \/ at'[1] = "feeder"
      BY <1>1, <1>6 DEF DaemonCrashes, Touch, Go, Typed
    <2> QED
      BY <1>1, <2>1
  <1>7. CASE Layer2 \/ Layer3
    <2>1. /\ at'[1] = at[1] /\ cur'[1] = cur[1]
          /\ UNCHANGED <<source, idFile>>
      BY <1>1, <1>7, BackFrame
    <2>2. quiet' \subseteq quiet
      BY <1>7 DEF Layer2, Layer3, Pick, Load, Titled, NoTitle, PersistTitle, Lookup,
         PersistParse, PersistFails, PersistAs, PersistSummary, Touch
    <2>3. at[1] = "move" /\ extracted[cur[1]] # "none" => extracted'[cur[1]] # "none"
      BY <1>1, FilesGrow DEF Resting
    <2> QED
      BY <1>1, <2>1, <2>2, <2>3
  <1>8. ASSUME NEW l \in Layers, Start(l) \/ Crash(l) PROVE FrontReady'
    <2>1. /\ UNCHANGED <<source, idFile, quiet, extracted>>
          /\ at'[1] \in {"down", "feeder"} \/ (at'[1] = at[1] /\ cur'[1] = cur[1])
      BY <1>1, <1>8, LifeFrame
    <2> QED
      BY <1>1, <2>1
  <1>9. ASSUME NEW p \in Papers, Age(p) PROVE FrontReady'
    BY <1>1, <1>9 DEF Age
  <1> QED
    BY <1>2, <1>3, <1>4, <1>5, <1>6, <1>7, <1>8, <1>9 DEF Next, Layer1

(* Layer 3: what it has in hand is marked, titled and, once loaded, parsed. *)
LEMMA BackReadyKeeps ==
  ASSUME IInv, Next
  PROVE  BackReady'
  <1> USE StagesAre DEF BackReady, Choosing, folders, tables
  <1>1. Typed /\ BackReady /\ (at[3] \notin Resting => cur[3] \in Papers)
    BY DEF IInv, InHand
  <1> DEFINE Stays == at'[3] = at[3] /\ cur'[3] = cur[3]
  <1>2. ASSUME Stays PROVE BackReady'
    BY <1>1, <1>2, FilesGrow DEF Resting
  <1>3. CASE Layer1 \/ ParseTimeout \/ DaemonParses \/ DaemonCrashes
    BY <1>1, <1>2, <1>3, FrontFrame
  <1>4. ASSUME NEW l \in Layers, Start(l) \/ Crash(l) PROVE BackReady'
    BY <1>1, <1>2, <1>4, LifeFrame
  <1>5. ASSUME NEW p \in Papers, Age(p) PROVE BackReady'
    BY <1>2, <1>5 DEF Age
  <1>6. CASE Layer2
    <2>1. Stays
      BY <1>1, <1>6 DEF Layer2, Pick, Load, Titled, NoTitle, PersistTitle, Turn, Go,
         Take, Typed
    <2> QED
      BY <1>2, <2>1
  <1>7. CASE Pick(3)
    <2>1. PICK p \in Eligible(3) : Take(3, p)
      BY <1>7 DEF Pick
    <2>2. idFile[p] # "absent" /\ titleFile[p] # "absent"
      BY <2>1 DEF Eligible
    <2>3. at'[3] = "load" /\ cur'[3] = p /\ UNCHANGED <<idFile, titleFile>>
      BY <1>1, <1>7, <2>1 DEF Pick, Go, Take, Typed
    <2> QED
      BY <2>2, <2>3
  <1>8. CASE Load(3)
    <2>1. /\ at[3] = "load" /\ cur' = cur /\ UNCHANGED <<parsed, idFile, titleFile>>
          /\ at'[3] = "feeder" \/ parsed[cur[3]] = "done"
      BY <1>1, <1>8 DEF Load, Turn, Go, Typed
    <2> QED
      BY <1>1, <2>1
  <1>9. CASE Lookup
    <2>1. at[3] = "lookup" /\ cur' = cur /\ UNCHANGED <<parsed, idFile, titleFile>>
      BY <1>9 DEF Lookup, Turn
    <2> QED
      BY <1>1, <2>1
  <1>10. CASE PersistParse \/ PersistFails \/ PersistSummary
    <2>1. at'[3] \in {"summary", "feeder"}
      BY <1>1, <1>10 DEF PersistParse, PersistFails, PersistAs, PersistSummary, Go,
         Typed
    <2> QED
      BY <2>1
  <1> QED
    BY <1>3, <1>4, <1>5, <1>6, <1>7, <1>8, <1>9, <1>10 DEF Next, Layer3

-----------------------------------------------------------------------------
(* What the feeder of layer 3 saw in the database still holds when the rows *)
(* are written.                                                             *)
LEMMA ToWriteOnceKeeps ==
  ASSUME IInv, Next
  PROVE  ToWriteOnce'
  <1> USE StagesAre DEF ToWriteOnce, Choosing, folders, tables
  <1>1. /\ Typed /\ ToWriteOnce /\ FrontReady
        /\ at[3] \notin Resting => cur[3] \in Papers
        /\ at[1] \notin Resting => cur[1] \in Papers
    BY DEF IInv, InHand
  <1> DEFINE Stays == at'[3] = at[3] /\ cur'[3] = cur[3] /\ extracted' = extracted
             SameMarker == idFile' = idFile /\ at'[1] = at[1] /\ cur'[1] = cur[1]
  <1>2. ASSUME Stays, SameMarker PROVE ToWriteOnce'
    BY <1>1, <1>2
  <1>3. ASSUME Stays, idFile' = idFile, at'[1] # "mark" PROVE ToWriteOnce'
    BY <1>1, <1>3
  <1>4. CASE Layer1 \/ ParseTimeout \/ DaemonParses \/ DaemonCrashes
    <2>1. Stays
      BY <1>1, <1>4, FrontFrame
    <2>2. CASE Claim
      <3>1. CASE Go(1, "mark") /\ extracted[cur[1]] = "none"
        <4>1. at'[1] = "mark" /\ cur' = cur
          BY <1>1, <2>2, <3>1 DEF Claim, Turn, Go, Typed
        <4>2. \A p \in Papers : idFile'[p] = "written" => idFile[p] = "written"
          BY <1>1, <2>2 DEF Claim, Typed, TypeOK
        <4> QED
          BY <1>1, <2>1, <3>1, <4>1, <4>2 DEF Resting
      <3>2. CASE ~(Go(1, "mark") /\ extracted[cur[1]] = "none")
        <4>1. idFile' = idFile /\ at'[1] # "mark"
          BY <1>1, <2>2, <3>2 DEF Claim, Go, Typed
        <4> QED
          BY <1>3, <2>1, <4>1
      <3> QED
        BY <3>1, <3>2
    <2>3. CASE Mark
      <3>1. /\ at[1] = "mark" /\ at'[1] = "move" /\ cur' = cur
            /\ idFile' = [idFile EXCEPT ![cur[1]] = "written"]
        BY <1>1, <2>3 DEF Mark, Turn, Go, Typed
      <3>2. \A p \in Papers :
              idFile'[p] = "written" => idFile[p] = "written" \/ p = cur[1]
        BY <1>1, <3>1 DEF Typed, TypeOK
      <3> QED
        BY <1>1, <2>1, <3>1, <3>2 DEF Resting
    <2>4. CASE Feed \/ Dispatch \/ Request \/ Move \/ Teardown \/ ParseTimeout
      <3>1. idFile' = idFile /\ at'[1] # "mark"
        BY <1>1, <2>4 DEF Feed, Dispatch, Request, Move, Teardown, ParseTimeout, Go,
           Typed
      <3> QED
        BY <1>3, <2>1, <3>1
    <2>5. CASE DaemonParses \/ DaemonCrashes
      <3>1. idFile' = idFile /\ cur' = cur /\ (at'[1] # "mark" \/ at'[1] = at[1])
        BY <1>1, <2>5 DEF DaemonParses, DaemonCrashes, Go, Typed
      <3> QED
        BY <1>2, <1>3, <2>1, <3>1
    <2> QED
      BY <1>4, <2>2, <2>3, <2>4, <2>5 DEF Layer1
  <1>5. ASSUME NEW l \in Layers, Start(l) \/ Crash(l) PROVE ToWriteOnce'
    <2>1. UNCHANGED <<idFile, extracted>>
      BY <1>1, <1>5, LifeFrame
    <2>2. CASE l = 3
      BY <1>1, <1>5, <2>2, LifeFrame
    <2>3. CASE l = 1
      BY <1>1, <1>3, <1>5, <2>1, <2>3, LifeFrame
    <2>4. CASE l = 2
      BY <1>1, <1>2, <1>5, <2>1, <2>4, LifeFrame
    <2> QED
      BY <2>2, <2>3, <2>4
  <1>6. ASSUME NEW p \in Papers, Age(p) PROVE ToWriteOnce'
    BY <1>2, <1>6 DEF Age
  <1>7. CASE Layer2
    <2>1. SameMarker
      BY <1>1, <1>7, BackFrame
    <2>2. Stays
      BY <1>1, <1>7 DEF Layer2, Pick, Load, Titled, NoTitle, PersistTitle, Turn, Go,
         Take, Typed
    <2> QED
      BY <1>2, <2>1, <2>2
  <1>8. CASE Pick(3)
    <2>1. PICK p \in Eligible(3) : Take(3, p)
      BY <1>8 DEF Pick
    <2>2. p \in quiet /\ (idFile[p] = "written" => extracted[p] = "none")
      BY <2>1 DEF Eligible, Persisted
    <2>3. at[1] = "mark" => cur[1] # p
      BY <1>1, <2>2 DEF FrontReady
    <2>4. cur'[3] = p /\ UNCHANGED <<idFile, extracted>>
      BY <1>1, <1>8, <2>1 DEF Pick, Take, Typed
    <2>5. SameMarker
      BY <1>1, <1>8, BackFrame DEF Layer3
    <2> QED
      BY <2>2, <2>3, <2>4, <2>5
  <1>9. CASE Load(3) \/ Lookup
    <2>1. at[3] \in Choosing /\ cur' = cur /\ UNCHANGED <<idFile, extracted>>
      BY <1>9 DEF Load, Lookup, Turn
    <2>2. SameMarker
      BY <1>1, <1>9, BackFrame DEF Layer3
    <2> QED
      BY <1>1, <2>1, <2>2
  <1>10. CASE PersistParse \/ PersistFails \/ PersistSummary
    <2>1. at'[3] \in {"summary", "feeder"}
      BY <1>1, <1>10 DEF PersistParse, PersistFails, PersistAs, PersistSummary, Go,
         Typed
    <2> QED
      BY <2>1
  <1> QED
    BY <1>4, <1>5, <1>6, <1>7, <1>8, <1>9, <1>10 DEF Next, Layer3

(* Rows appear where layer 3 has a paper in hand that is ready for them.    *)
LEMMA NothingSkipsKeeps ==
  ASSUME IInv, Next
  PROVE  NothingSkipsALayer'
  <1> USE DEF NothingSkipsALayer
  <1>1. /\ NothingSkipsALayer /\ Typed /\ BackReady
    BY DEF IInv
  <1>2. ASSUME extracted' = extracted PROVE NothingSkipsALayer'
    BY <1>1, <1>2, FilesGrow
  <1>3. ASSUME NEW outcome \in {"none", "partial", "full"}, PersistAs(outcome)
        PROVE  NothingSkipsALayer'
    <2>1. /\ parsed[cur[3]] # "none" /\ idFile[cur[3]] # "absent"
          /\ titleFile[cur[3]] # "absent"
      BY <1>1, <1>3 DEF PersistAs, BackReady, Choosing
    <2>2. \A p \in Papers : extracted'[p] # "none" =>
            extracted[p] # "none" \/ p = cur[3]
      BY <1>1, <1>3 DEF PersistAs, Typed, TypeOK
    <2> QED
      BY <1>1, <2>1, <2>2, FilesGrow
  <1>4. CASE Layer1 \/ ParseTimeout \/ DaemonParses \/ DaemonCrashes
    BY <1>1, <1>2, <1>4, FrontFrame
  <1>5. CASE \/ \E l \in Layers : Start(l) \/ Crash(l)
             \/ \E p \in Papers : Age(p)
    BY <1>2, <1>5 DEF Start, Crash, Age, tables
  <1>6. CASE Layer2
    BY <1>2, <1>6 DEF Layer2, Pick, Load, Titled, NoTitle, PersistTitle, tables
  <1>7. CASE Pick(3) \/ Load(3) \/ Lookup \/ PersistSummary
    BY <1>2, <1>7 DEF Pick, Load, Lookup, PersistSummary, tables
  <1> QED
    BY <1>3, <1>4, <1>5, <1>6, <1>7 DEF Next, Layer3, PersistParse, PersistFails

(* Only Move takes a PDF away, and only Claim unmarks a folder.             *)
LEMMA MovedKeeps ==
  ASSUME IInv, Next
  PROVE  MovedMeansMarked'
  <1> USE DEF MovedMeansMarked, folders
  <1>1. /\ MovedMeansMarked /\ Typed /\ FrontReady
        /\ at[1] \notin Resting => cur[1] \in Papers
    BY StagesAre DEF IInv, InHand
  <1>2. ASSUME source' = source, idFile' = idFile PROVE MovedMeansMarked'
    BY <1>1, <1>2, FilesGrow
  <1>3. CASE Claim
    <2>1. cur[1] \in source /\ source' = source
      BY <1>1, <1>3 DEF Claim, Turn, FrontReady
    <2>2. \A p \in Papers : idFile'[p] = idFile[p] \/ p = cur[1]
      BY <1>1, <1>3 DEF Claim, Typed, TypeOK
    <2> QED
      BY <1>1, <2>1, <2>2, FilesGrow
  <1>4. CASE Mark
    <2>1. \A p \in Papers : idFile'[p] = idFile[p] \/ idFile'[p] = "written"
      BY <1>1, <1>4 DEF Mark, Typed, TypeOK
    <2>2. source' = source
      BY <1>4 DEF Mark
    <2> QED
      BY <1>1, <2>1, <2>2, FilesGrow
  <1>5. CASE Move
    <2>1. Marked(cur[1]) /\ idFile' = idFile /\ extracted' = extracted
      BY <1>1, <1>5 DEF Move, Turn, FrontReady, tables
    <2>2. source \ {cur[1]} \subseteq source'
      BY <1>5 DEF Move
    <2> QED
      BY <1>1, <2>1, <2>2 DEF Marked
  <1>6. CASE Feed \/ Dispatch \/ Request \/ Teardown \/ ParseTimeout
    BY <1>2, <1>6 DEF Feed, Dispatch, Request, Teardown, ParseTimeout
  <1>7. CASE DaemonParses \/ DaemonCrashes
    BY <1>2, <1>7 DEF DaemonParses, DaemonCrashes
  <1>8. CASE Layer2 \/ Layer3
    BY <1>1, <1>2, <1>8, BackFrame
  <1>9. CASE \/ \E l \in Layers : Start(l) \/ Crash(l)
             \/ \E p \in Papers : Age(p)
    BY <1>2, <1>9 DEF Start, Crash, Age
  <1> QED
    BY <1>3, <1>4, <1>5, <1>6, <1>7, <1>8, <1>9 DEF Next, Layer1

-----------------------------------------------------------------------------
(* The inductive invariant of the three layers: what each has in hand is    *)
(* ready for it, whatever the others do and whichever of them crash.        *)
THEOREM Inductive == Spec => []IInv
  <1>1. IInv /\ [Next]_vars => IInv'
    <2> SUFFICES ASSUME IInv, [Next]_vars PROVE IInv'
      OBVIOUS
    <2>1. CASE Next
      <3>1. Typed /\ InHand
        BY DEF IInv
      <3>2. Typed'
        BY <2>1, <3>1, FrontTyped, BackTyped, OthersTyped DEF Next
      <3> QED
        BY <2>1, <3>2, InHandKeeps, HeardKeeps, FrontReadyKeeps, BackReadyKeeps,
           ToWriteOnceKeeps, NothingSkipsKeeps, MovedKeeps DEF IInv
    <2>2. CASE UNCHANGED vars
      BY <2>2 DEF vars, folders, tables, IInv, Typed, TypeOK, InHand, HeardIsAwaited,
         FrontReady, BackReady, ToWriteOnce, Marked, NothingSkipsALayer,
         MovedMeansMarked
    <2> QED
      BY <2>1, <2>2
  <1> QED
    BY <1>1, InitIInv, PTL DEF Spec

(* TypeOK: the cursor stays within the list, whatever of the queue's state  *)
(* can be read.                                                             *)
THEOREM TypeCorrect == Spec => []TypeOK
  <1>1. IInv => TypeOK
    BY DEF IInv, Typed
  <1> QED
    BY <1>1, Inductive, PTL

(* No paper reaches the database around a layer.                            *)
THEOREM LayersInOrder == Spec => []NothingSkipsALayer
  <1>1. IInv => NothingSkipsALayer
    BY DEF IInv
  <1> QED
    BY <1>1, Inductive, PTL

(* No PDF is moved away unmarked.                                           *)
THEOREM NoMovedPdfIsLost == Spec => []MovedMeansMarked
  <1>1. IInv => MovedMeansMarked
    BY DEF IInv
  <1> QED
    BY <1>1, Inductive, PTL

(* Layer 3 writes the rows of a marked paper once.                          *)
THEOREM RowsWrittenOnce == Spec => PersistedOnce
  <1>1. IInv /\ [Next]_vars =>
          [\A p \in Papers : PersistParse /\ cur[3] = p /\ idFile[p] = "written"
                               => extracted[p] = "none"]_vars
    BY DEF IInv, ToWriteOnce, Choosing, PersistParse, PersistAs
  <1> QED
    BY <1>1, Inductive, PTL DEF Spec, PersistedOnce
-----------------------------------------------------------------------------
(* What the queue has handed out, up to the paper in hand.                  *)
Working == {"parse", "waiting", "claim", "mark", "move"}
Given ==
  CASE at[1] = "dispatch" -> 1..queue.cursor
    [] at[1] \in Working -> 1..(cur[1] - 1)
    [] OTHER -> 1..Cursor

(* The file is one behind the paper in hand, then with it; and the queue is *)
(* exhausted only past its last item.                                       *)
CursorTrue ==
  /\ at[1] = "dispatch" => cur[1] = queue.cursor + 1
  /\ at[1] \in Working => queue = [cursor |-> cur[1], readable |-> TRUE]
  /\ at[1] \in {"teardown", "done"} => Cursor = N

(* A paper may be missed as soon as it was handed out without a trace.  One *)
(* whose marker was begun stays missed while the queue starts over, for its *)
(* rows may be there by then and it is moved as it is.                      *)
Missed ==
  {p \in Papers \ failed :
     \/ idFile[p] = "empty" /\ ~(at[1] = "mark" /\ p = cur[1])
     \/ idFile[p] = "absent" /\ p \in Given}
OnePerCrash == Cardinality(Missed) <= crashes[1]

LossInv == IInv /\ CursorTrue /\ OnePerCrash

(* The papers can be counted.                                               *)
LEMMA PapersAreFinite ==
  /\ N \in Nat /\ N > 0
  /\ \A S \in SUBSET Papers : IsFiniteSet(S) /\ Cardinality(S) \in Nat
  <1>1. N \in Nat /\ N > 0
    BY LayersAssumption
  <1>2. IsFiniteSet(Papers)
    BY <1>1, FS_Interval DEF Papers
  <1> QED
    BY <1>1, <1>2, FS_Subset, FS_CardinalityType

(* What the loss of papers is about, as far as layer 1 is concerned.        *)
Front == <<queue, idFile, failed, at[1], cur[1], crashes[1]>>

(* Everybody else leaves that alone; a parse that nobody waits for as well. *)
LEMMA OthersLeaveFront ==
  ASSUME IInv, Layer2 \/ Layer3 \/ (\E p \in Papers : Age(p))
                 \/ (\E l \in {2, 3} : Start(l) \/ Crash(l))
  PROVE  UNCHANGED Front
  <1>1. Typed
    BY DEF IInv
  <1>2. CASE Layer2 \/ Layer3
    <2>1. at'[1] = at[1] /\ cur'[1] = cur[1] /\ idFile' = idFile
      BY <1>1, <1>2, BackFrame
    <2>2. UNCHANGED <<queue, failed, crashes>>
      BY <1>2 DEF Layer2, Layer3, Pick, Load, Titled, NoTitle, PersistTitle, Lookup,
         PersistParse, PersistFails, PersistAs, PersistSummary, Turn
    <2> QED
      BY <2>1, <2>2 DEF Front
  <1>3. ASSUME NEW p \in Papers, Age(p) PROVE UNCHANGED Front
    BY <1>3 DEF Age, Front
  <1>4. ASSUME NEW l \in {2, 3}, Start(l) \/ Crash(l) PROVE UNCHANGED Front
    <2>1. /\ at'[1] = at[1] /\ cur'[1] = cur[1] /\ idFile' = idFile
      BY <1>1, <1>4, StagesAre, LifeFrame DEF folders
    <2>2. UNCHANGED <<queue, failed>> /\ crashes'[1] = crashes[1]
      BY <1>1, <1>4 DEF Start, Crash, Typed, TypeOK
    <2> QED
      BY <2>1, <2>2 DEF Front
  <1> QED
    BY <1>2, <1>3, <1>4

(* The steps that matter to it, by what they do to the paper in hand: it is *)
(* given up, or layer 1 goes on with it, claims it, moves it on, or rests.  *)
Kept == UNCHANGED <<queue, idFile, cur>> /\ crashes'[1] = crashes[1]
GivesUp ==
  /\ at[1] \in Working /\ at'[1] = "feeder"
  /\ failed' = failed \cup {cur[1]} /\ Kept
GoesOn ==
  /\ at[1] \in Working \ {"mark"} /\ at'[1] \in Working \ {"mark"}
  /\ failed' = failed /\ Kept
Claims ==
  /\ at[1] = "claim" /\ at'[1] = "mark"
  /\ idFile' = [idFile EXCEPT ![cur[1]] = "empty"]
  /\ UNCHANGED <<queue, failed, cur, crashes>>
MovesOn ==
  /\ at[1] = "move" /\ at'[1] = "feeder"
  /\ failed' = failed /\ Kept
Rests ==
  /\ \/ at[1] = "teardown" /\ at'[1] = "done"
     \/ at[1] = "down" /\ at'[1] = "feeder"
  /\ UNCHANGED <<queue, idFile, failed, crashes>>

(* Every step is one of these.                                              *)
LEMMA FrontSteps ==
  ASSUME IInv, Next
  PROVE  \/ UNCHANGED Front \/ Feed \/ Dispatch \/ Mark \/ Crash(1)
         \/ GivesUp \/ GoesOn \/ Claims \/ MovesOn \/ Rests
  <1>1. Typed /\ 1 \in Layers
    BY StagesAre DEF IInv
  <1>2. at \in [Layers -> AllStages] /\ cur \in [Layers -> 0..N]
    BY <1>1 DEF Typed
  <1> USE DEF Working, Kept, folders
  <1>3. CASE Request \/ ParseTimeout
    <2>1. /\ at[1] \in {"parse", "waiting"} /\ UNCHANGED <<queue, idFile, cur, crashes>>
          /\ \/ at'[1] = "waiting" /\ failed' = failed
             \/ at'[1] = "feeder" /\ failed' = failed \cup {cur[1]}
      BY <1>1, <1>2, <1>3 DEF Request, ParseTimeout, Turn, Go
    <2> QED
      BY <2>1 DEF GivesUp, GoesOn
  <1>4. CASE Claim
    <2>1. /\ at[1] = "claim" /\ UNCHANGED <<queue, cur, crashes>>
          /\ \/ at'[1] = "move" /\ UNCHANGED <<idFile, failed>>
             \/ at'[1] = "feeder" /\ failed' = failed \cup {cur[1]} /\ idFile' = idFile
             \/ /\ at'[1] = "mark" /\ failed' = failed
                /\ idFile' = [idFile EXCEPT ![cur[1]] = "empty"]
      BY <1>1, <1>2, <1>4 DEF Claim, Turn, Go
    <2> QED
      BY <2>1 DEF GivesUp, GoesOn, Claims
  <1>5. CASE Move
    BY <1>1, <1>2, <1>5 DEF Move, Turn, Go, MovesOn
  <1>6. CASE Teardown
    BY <1>1, <1>2, <1>6 DEF Teardown, Turn, Go, Rests
  <1>7. CASE DaemonParses
    <2>1. UNCHANGED <<queue, idFile, cur, crashes>> /\ jobs # <<>>
      BY <1>7 DEF DaemonParses
    <2>2. CASE Head(jobs).heard
      <3>1. Head(jobs).paper = cur[1] /\ at[1] = "waiting"
        BY <1>1, <2>1, <2>2, TailOf DEF IInv, HeardIsAwaited, Typed, TypeOK, Requests
      <3>2. \/ at'[1] = "claim" /\ failed' = failed
            \/ at'[1] = "feeder" /\ failed' = failed \cup {cur[1]}
        BY <1>1, <1>2, <1>7, <2>2, <3>1 DEF DaemonParses, Go
      <3> QED
        BY <2>1, <3>1, <3>2 DEF GivesUp, GoesOn
    <2>3. CASE ~Head(jobs).heard
      <3>1. at' = at /\ failed' = failed
        BY <1>7, <2>3 DEF DaemonParses
      <3> QED
        BY <2>1, <3>1 DEF Front
    <2> QED
      BY <2>2, <2>3
  <1>8. CASE DaemonCrashes
    <2>1. UNCHANGED <<queue, idFile, cur>> /\ crashes'[1] = crashes[1]
      BY <1>1, <1>8 DEF DaemonCrashes, Typed, TypeOK
    <2>2. CASE at[1] = "waiting"
      <3>1. at'[1] = "feeder" /\ failed' = failed \cup {cur[1]}
        BY <1>1, <1>2, <1>8, <2>2 DEF DaemonCrashes, Go
      <3> QED
        BY <2>1, <2>2, <3>1 DEF GivesUp
    <2>3. CASE at[1] # "waiting"
      <3>1. UNCHANGED <<at, failed>>
        BY <1>8, <2>3 DEF DaemonCrashes
      <3> QED
        BY <2>1, <3>1 DEF Front
    <2> QED
      BY <2>2, <2>3
  <1>9. CASE Start(1)
    BY <1>1, <1>2, <1>9 DEF Start, Go, Rests
  <1>10. CASE Layer2 \/ Layer3 \/ (\E p \in Papers : Age(p))
                 \/ (\E l \in {2, 3} : Start(l) \/ Crash(l))
    BY <1>10, OthersLeaveFront
  <1> QED
    BY <1>3, <1>4, <1>5, <1>6, <1>7, <1>8, <1>9, <1>10, StagesAre DEF Next, Layer1

(* The file follows the paper in hand, and is never ahead of it.            *)
LEMMA CursorKeeps ==
  ASSUME LossInv, Next
  PROVE  CursorTrue'
  <1>1. IInv /\ Typed /\ CursorTrue /\ 1 \in Layers
    BY StagesAre DEF LossInv, IInv
  <1>2. at \in [Layers -> AllStages] /\ cur \in [Layers -> 0..N]
        /\ queue \in [cursor : 0..N, readable : BOOLEAN] /\ N \in Nat
    BY <1>1, PapersAreFinite DEF Typed, TypeOK
  <1>3. CASE Feed
    <2>1. CASE Cursor < N
      <3>1. /\ at'[1] = "dispatch" /\ cur'[1] = Cursor + 1
            /\ queue' = [cursor |-> Cursor, readable |-> FALSE]
        BY <1>1, <1>2, <1>3, <2>1 DEF Feed, Go, Take
      <3> QED
        BY <3>1 DEF CursorTrue, Working
    <2>2. CASE ~(Cursor < N)
      <3>1. at'[1] = "teardown" /\ queue' = queue
        BY <1>1, <1>2, <1>3, <2>2 DEF Feed, Go
      <3>2. Cursor = N
        BY <1>2, <2>2 DEF Cursor
      <3> QED
        BY <3>1, <3>2 DEF CursorTrue, Working, Cursor
    <2> QED
      BY <2>1, <2>2
  <1>4. CASE Dispatch
    <2>1. /\ at'[1] = "parse" /\ cur' = cur
          /\ queue' = [cursor |-> cur[1], readable |-> TRUE]
      BY <1>1, <1>2, <1>4 DEF Dispatch, Turn, Go
    <2> QED
      BY <2>1 DEF CursorTrue, Working
  <1>5. CASE Mark
    <2>1. at[1] = "mark" /\ at'[1] = "move" /\ cur' = cur /\ queue' = queue
      BY <1>1, <1>2, <1>5 DEF Mark, Turn, Go
    <2> QED
      BY <1>1, <2>1 DEF CursorTrue, Working
  <1>6. CASE Crash(1)
    <2>1. at'[1] = "down"
      BY <1>1, <1>2, <1>6 DEF Crash, Go
    <2> QED
      BY <2>1 DEF CursorTrue, Working
  <1>7. CASE GivesUp \/ GoesOn \/ Claims \/ MovesOn \/ Rests \/ UNCHANGED Front
    BY <1>1, <1>7 DEF GivesUp, GoesOn, Claims, MovesOn, Rests, Kept, Front, CursorTrue,
                      Working, Cursor
  <1> QED
    BY <1>1, <1>3, <1>4, <1>5, <1>6, <1>7, FrontSteps

(* What is handed out grows by the paper in hand, and only once that has    *)
(* left layer 1.                                                            *)
LEMMA GivenGrows ==
  ASSUME LossInv, Next
  PROVE  /\ Given' \subseteq Given \cup {cur[1]}
         /\ at[1] \notin Working \/ at'[1] \in Working => Given' \subseteq Given
  <1>1. IInv /\ Typed /\ CursorTrue /\ 1 \in Layers
    BY StagesAre DEF LossInv, IInv
  <1>2. at \in [Layers -> AllStages] /\ cur \in [Layers -> 0..N] /\ cur[1] \in 0..N
        /\ queue \in [cursor : 0..N, readable : BOOLEAN] /\ N \in Nat
    BY <1>1, PapersAreFinite DEF Typed, TypeOK
  <1>3. CASE Feed
    <2>1. CASE Cursor < N
      <3>1. /\ at[1] = "feeder" /\ at'[1] = "dispatch"
            /\ queue' = [cursor |-> Cursor, readable |-> FALSE]
        BY <1>1, <1>2, <1>3, <2>1 DEF Feed, Go, Take
      <3>2. Given = 1..Cursor /\ Given' = 1..queue'.cursor
        BY <3>1 DEF Given, Working
      <3> QED
        BY <3>1, <3>2
    <2>2. CASE ~(Cursor < N)
      <3>1. at[1] = "feeder" /\ at'[1] = "teardown" /\ queue' = queue
        BY <1>1, <1>2, <1>3, <2>2 DEF Feed, Go
      <3> QED
        BY <3>1 DEF Given, Working, Cursor
    <2> QED
      BY <2>1, <2>2
  <1>4. CASE Dispatch
    <2>1. at[1] = "dispatch" /\ at'[1] = "parse" /\ cur' = cur
      BY <1>1, <1>2, <1>4 DEF Dispatch, Turn, Go
    <2>2. Given = 1..queue.cursor /\ Given' = 1..(cur[1] - 1) /\ cur[1] = queue.cursor + 1
      BY <1>1, <2>1 DEF Given, Working, CursorTrue
    <2>3. cur[1] - 1 = queue.cursor
      BY <1>2, <2>2
    <2> QED
      BY <2>2, <2>3
  <1>5. CASE Mark \/ GoesOn \/ Claims
    <2>1. at[1] \in Working /\ at'[1] \in Working /\ cur' = cur
      BY <1>1, <1>2, <1>5 DEF Mark, Turn, Go, GoesOn, Claims, Kept, Working
    <2>2. Given = 1..(cur[1] - 1) /\ Given' = 1..(cur[1] - 1)
      BY <2>1 DEF Given, Working
    <2> QED
      BY <2>2
  <1>6. CASE (Crash(1) \/ GivesUp \/ MovesOn) /\ at[1] \in Working
    <2>1. at'[1] \in {"down", "feeder"} /\ queue' = queue
      BY <1>1, <1>2, <1>6 DEF Crash, Go, GivesUp, MovesOn, Kept
    <2>2. Given = 1..(cur[1] - 1)
      BY <1>6 DEF Given, Working
    <2>3. Given' = 1..Cursor' /\ Cursor' = cur[1]
      BY <1>1, <1>6, <2>1 DEF Given, Working, Cursor, CursorTrue
    <2>4. 1..cur[1] \subseteq (1..(cur[1] - 1)) \cup {cur[1]}
      BY <1>2
    <2> QED
      BY <1>6, <2>1, <2>2, <2>3, <2>4 DEF Working
  <1>7. CASE (Crash(1) \/ Rests) /\ at[1] \notin Working
    <2>1. at'[1] \in {"down", "feeder", "done"} /\ queue' = queue
      BY <1>1, <1>2, <1>7 DEF Crash, Go, Rests
    <2>2. Given' = 1..Cursor /\ Given \in {1..Cursor, 1..queue.cursor}
      BY <1>7, <2>1 DEF Given, Working, Cursor
    <2>3. 1..Cursor \subseteq 1..queue.cursor
      BY <1>2 DEF Cursor
    <2> QED
      BY <2>2, <2>3
  <1>8. CASE UNCHANGED Front
    BY <1>8 DEF Front, Given, Cursor
  <1> QED
    BY <1>1, <1>3, <1>4, <1>5, <1>6, <1>7, <1>8, FrontSteps
       DEF GivesUp, MovesOn, Rests, Working

(* Only a crash of layer 1 makes it miss one paper more.                    *)
LEMMA MissedKeeps ==
  ASSUME LossInv, Next
  PROVE  OnePerCrash'
  <1>1. /\ IInv /\ Typed /\ CursorTrue /\ OnePerCrash /\ 1 \in Layers
        /\ InHand /\ FrontReady /\ NothingSkipsALayer
    BY StagesAre DEF LossInv, IInv
  <1>2. /\ at \in [Layers -> AllStages] /\ cur \in [Layers -> 0..N]
        /\ idFile \in [Papers -> {"absent", "empty", "written"}]
        /\ crashes[1] \in Nat /\ Missed \in SUBSET Papers
        /\ at[1] \in Working => cur[1] \in Papers
    <2>1. /\ at \in [Layers -> AllStages] /\ cur \in [Layers -> 0..N]
          /\ idFile \in [Papers -> {"absent", "empty", "written"}]
      BY <1>1 DEF Typed, TypeOK
    <2>2. crashes[1] \in Nat
      BY <1>1, LayersAssumption DEF Typed, TypeOK
    <2>3. at[1] \in Working => cur[1] \in Papers
      BY <1>1, StagesAre DEF Working, InHand, Resting
    <2> QED
      BY <2>1, <2>2, <2>3 DEF Missed
  <1>3. /\ Given' \subseteq Given \cup {cur[1]}
        /\ at[1] \notin Working \/ at'[1] \in Working => Given' \subseteq Given
    BY GivenGrows
  <1>4. ASSUME Missed' \subseteq Missed, crashes'[1] = crashes[1]
        PROVE  OnePerCrash'
    <2>1. Cardinality(Missed') <= Cardinality(Missed)
      BY <1>2, <1>4, FS_Subset, PapersAreFinite
    <2>2. Cardinality(Missed') \in Nat /\ Cardinality(Missed) \in Nat
      BY <1>2, <1>4, PapersAreFinite
    <2> QED
      BY <1>1, <1>2, <1>4, <2>1, <2>2 DEF OnePerCrash
  <1>5. CASE UNCHANGED Front
    <2>1. Missed' \subseteq Missed /\ crashes'[1] = crashes[1]
      BY <1>5 DEF Front, Missed, Given, Cursor
    <2> QED
      BY <1>4, <2>1
  <1>6. CASE Feed \/ Dispatch \/ Rests
    <2>1. /\ at[1] \notin Working /\ at[1] # "mark"
          /\ UNCHANGED <<idFile, failed, crashes>>
      BY <1>6 DEF Feed, Dispatch, Turn, Rests, Working, folders
    <2>2. Missed' \subseteq Missed
      BY <1>3, <2>1 DEF Missed
    <2> QED
      BY <1>4, <2>1, <2>2
  <1>7. CASE Mark
    <2>1. /\ at[1] = "mark" /\ at'[1] = "move"
          /\ idFile' = [idFile EXCEPT ![cur[1]] = "written"]
          /\ UNCHANGED <<failed, crashes>>
      BY <1>1, <1>2, <1>7 DEF Mark, Turn, Go
    <2>2. Missed' \subseteq Missed
      BY <1>2, <1>3, <2>1 DEF Missed, Working
    <2> QED
      BY <1>4, <2>1, <2>2
  <1>8. CASE GivesUp
    <2>1. Missed' \subseteq Missed /\ crashes'[1] = crashes[1]
      BY <1>2, <1>3, <1>8 DEF GivesUp, Kept, Missed
    <2> QED
      BY <1>4, <2>1
  <1>9. CASE GoesOn
    <2>1. Missed' \subseteq Missed /\ crashes'[1] = crashes[1]
      BY <1>2, <1>3, <1>9 DEF GoesOn, Kept, Missed
    <2> QED
      BY <1>4, <2>1
  <1>10. CASE Claims
    <2>1. Missed' \subseteq Missed
      BY <1>2, <1>3, <1>10 DEF Claims, Missed, Working
    <2> QED
      BY <1>4, <1>10, <2>1 DEF Claims
  <1>11. ASSUME at[1] = "move" PROVE idFile[cur[1]] # "absent"
    BY <1>1, <1>2, <1>11 DEF FrontReady, Marked, NothingSkipsALayer, Working
  <1>12. CASE MovesOn
    <2>1. Missed' \subseteq Missed /\ crashes'[1] = crashes[1]
      BY <1>2, <1>3, <1>11, <1>12 DEF MovesOn, Kept, Missed
    <2> QED
      BY <1>4, <2>1
  <1>13. CASE Crash(1)
    <2>1. /\ at'[1] = "down" /\ UNCHANGED <<idFile, failed>>
          /\ crashes'[1] = crashes[1] + 1
      BY <1>1, <1>2, <1>13 DEF Crash, Go, folders, Typed, TypeOK
    <2>2. Missed' \subseteq Missed \cup {cur[1]}
      BY <1>3, <2>1 DEF Missed
    <2>3. IsFiniteSet(Missed)
      BY <1>2, PapersAreFinite
    <2>4. /\ IsFiniteSet(Missed \cup {cur[1]})
          /\ \/ Cardinality(Missed \cup {cur[1]}) = Cardinality(Missed)
             \/ Cardinality(Missed \cup {cur[1]}) = Cardinality(Missed) + 1
      BY <2>3, FS_AddElement
    <2>5. Cardinality(Missed') <= Cardinality(Missed \cup {cur[1]})
      BY <2>2, <2>4, FS_Subset
    <2>6. Missed' \in SUBSET Papers
      BY DEF Missed
    <2>7. Cardinality(Missed') \in Nat /\ Cardinality(Missed) \in Nat
      BY <1>2, <2>6, PapersAreFinite
    <2> QED
      BY <1>1, <1>2, <2>1, <2>4, <2>5, <2>7 DEF OnePerCrash
  <1> QED
    BY <1>1, <1>5, <1>6, <1>7, <1>8, <1>9, <1>10, <1>12, <1>13, FrontSteps

(* When layer 1 says the queue is exhausted, every PDF is marked or has     *)
(* failed, but for one per crash of layer 1, the one it had in hand: a      *)
(* queue whose file is torn starts over rather than skip.                   *)
THEOREM QueueResumes == Spec => []CrashLosesOneInHand
  <1>1. Init => CursorTrue /\ OnePerCrash
    <2> SUFFICES ASSUME Init PROVE CursorTrue /\ OnePerCrash
      OBVIOUS
    <2>1. at[1] = "down" /\ crashes[1] = 0 /\ Cursor = 0
          /\ \A p \in Papers : idFile[p] = "absent"
      BY StagesAre DEF Init, Cursor
    <2>2. Given = {}
      BY <2>1 DEF Given, Working
    <2>3. Missed = {}
      BY <2>1, <2>2 DEF Missed
    <2> QED
      BY <2>1, <2>3, FS_EmptySet DEF CursorTrue, OnePerCrash, Working
  <1>2. LossInv /\ IInv' /\ [Next]_vars => LossInv'
    <2> SUFFICES ASSUME LossInv, IInv', [Next]_vars PROVE CursorTrue' /\ OnePerCrash'
      BY DEF LossInv
    <2>1. CASE Next
      BY <2>1, CursorKeeps, MissedKeeps
    <2>2. CASE UNCHANGED vars
      BY <2>2 DEF vars, folders, LossInv, CursorTrue, OnePerCrash, Missed, Given, Cursor
    <2> QED
      BY <2>1, <2>2
  <1>3. LossInv => CrashLosesOneInHand
    <2> SUFFICES ASSUME LossInv, at[1] \in {"teardown", "done"}
                 PROVE  Cardinality(Unaccounted) <= crashes[1]
      BY DEF CrashLosesOneInHand
    <2>1. Given = Papers
      BY DEF LossInv, CursorTrue, Given, Working, Papers
    <2>2. Unaccounted \subseteq Missed
      BY <2>1 DEF LossInv, IInv, Typed, TypeOK, Unaccounted, Missed
    <2>3. Unaccounted \in SUBSET Papers /\ Missed \in SUBSET Papers
      BY DEF Unaccounted, Missed
    <2>4. Cardinality(Unaccounted) <= Cardinality(Missed)
      BY <2>2, <2>3, FS_Subset, PapersAreFinite
    <2>5. Cardinality(Unaccounted) \in Nat /\ Cardinality(Missed) \in Nat
          /\ crashes[1] \in Nat
      BY <2>3, PapersAreFinite, LayersAssumption DEF LossInv, IInv, Typed, TypeOK
    <2> QED
      BY <2>4, <2>5 DEF LossInv, OnePerCrash
  <1> QED
    BY <1>1, <1>2, <1>3, InitIInv, Inductive, PTL DEF Spec, LossInv
=============================================================================
