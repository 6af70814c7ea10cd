----------------------------- MODULE CrawlProofs -----------------------------
(***************************************************************************)
(* Proofs about the conference crawler, for every finite set of papers,    *)
(* every number of permits and retries, and any number of crawls, crashes  *)
(* and failed writes.                                                      *)
(***************************************************************************)
EXTENDS Crawl, FiniteSetTheorems, TLAPS

Statuses == {"pending", "downloading", "success", "failed"}
Records == [status : Statuses, retries : Nat]
Stages == {"out", "skipped", "waiting", "marked", "request", "ok", "failed"}

Typed ==
  /\ disk \in [Papers -> Records] /\ states \in [Papers -> Records]
  /\ pdf \in [Papers -> {"none", "cut", "whole"}]
  /\ on \in BOOLEAN
  /\ at \in [Papers -> Stages]
  /\ attempt \in [Papers -> Nat] /\ requests \in [Papers -> Nat]
  /\ crashes \in Nat /\ faults \in Nat /\ lost \in Nat

(* Between two crawls nothing is in memory.                                 *)
OffMeansForgotten == ~on => states = Fresh /\ \A p \in Papers : at[p] = "out"

PermitsKept == Cardinality(InHand) <= MaxConcurrent

(* Papers that nobody downloads and that are marked as being downloaded, on *)
(* disk or in the memory that the next save writes there.                   *)
Stranded ==
  {p \in Papers \ InHand : "downloading" \in {disk[p].status, states[p].status}}
StrandedFew == Cardinality(Stranded) <= MaxConcurrent * crashes

(* A success has its PDF; and without a failed write, memory and disk agree *)
(* and a paper that is being requested is no success, so that what is lost  *)
(* of its PDF is nobody's.                                                  *)
Justified(s) == \A p \in Papers : s[p].status = "success" => Accepted(p)
PdfsKept ==
  /\ faults = 0 \/ faults + crashes = 1 => Justified(disk) /\ Justified(states)
  /\ faults = 0 /\ on => disk = states
  /\ faults = 0 =>
       \A p \in Papers : at[p] \in {"marked", "request"} => states[p].status = "downloading"

(* Requests per crawl, and per paper from one loss of the state file to the *)
(* next.                                                                    *)
PerRetries(n) == MaxRetries * n
PerLosses(n) == MaxRetries * MaxRetries * n

(* The requests not yet counted as a retry: those under way, or all of the  *)
(* crawl that marked a paper and died, or got it.                           *)
Uncounted(s, p) ==
  CASE at[p] = "request" -> attempt[p]
    [] at[p] \in {"waiting", "marked"} -> 0
    [] OTHER -> IF s[p].status \in {"pending", "failed"} THEN 0 ELSE MaxRetries

(* The records in s account for all requests, n losses apart.               *)
Accounts(s, n) ==
  \A p \in Papers :
    requests[p] <= PerLosses(n) + PerRetries(s[p].retries) + Uncounted(s, p)

(* A paper that still may be requested has a retry left.                    *)
RetriesBounded(s) ==
  \A p \in Papers :
    /\ s[p].retries <= MaxRetries
    /\ s[p].status \in {"downloading", "success"} => s[p].retries < MaxRetries

RequestsAccounted ==
  /\ RetriesBounded(disk) /\ RetriesBounded(states)
  /\ \A p \in Papers :
       /\ at[p] \in {"waiting", "marked", "request"} => states[p].retries < MaxRetries
       /\ at[p] \in {"marked", "request"} => states[p].status \in {"downloading", "success"}
       /\ at[p] = "request" => attempt[p] \in 1..MaxRetries
  /\ ~on => Accounts(disk, lost)
  /\ on => \/ disk = states /\ Accounts(states, lost)
           \/ disk = Fresh /\ lost > 0 /\ Accounts(states, lost - 1)

IInv ==
  /\ Typed /\ OffMeansForgotten /\ PermitsKept /\ StrandedFew
  /\ PdfsKept /\ RequestsAccounted
-----------------------------------------------------------------------------
(* The arithmetic of the two budgets, used below without multiplying.       *)
LEMMA Budgets ==
  /\ MaxRetries \in Nat /\ MaxRetries > 0
  /\ PerRetries(0) = 0
  /\ \A n \in Nat : PerRetries(n) \in Nat /\ PerLosses(n) \in Nat
  /\ \A n \in Nat : PerRetries(n + 1) = PerRetries(n) + MaxRetries
  /\ \A n \in Nat : PerLosses(n + 1) = PerLosses(n) + PerLosses(1)
  /\ \A n \in Nat : n <= MaxRetries => PerRetries(n) <= PerLosses(1)
  <1>1. MaxRetries \in Nat /\ MaxRetries > 0
    BY CrawlAssumption
  <1>2. \A n \in Nat : PerRetries(n) \in Nat /\ PerLosses(n) \in Nat
    BY <1>1 DEF PerRetries, PerLosses
  <1>3. \A n \in Nat : n <= MaxRetries => PerRetries(n) <= PerLosses(1)
    <2> TAKE n \in Nat
    <2>1. n <= MaxRetries => MaxRetries * n <= MaxRetries * MaxRetries
      BY <1>1
    <2> QED
      BY <1>1, <2>1 DEF PerRetries, PerLosses
  <1> QED
    BY <1>1, <1>2, <1>3 DEF PerRetries, PerLosses

(* At most as many papers are in hand as there are permits; with one more   *)
(* crash that many more may be stranded.                                    *)
LEMMA HandsAreFinite ==
  /\ IsFiniteSet(Papers)
  /\ \A S \in SUBSET Papers : IsFiniteSet(S) /\ Cardinality(S) \in Nat
  /\ MaxConcurrent \in Nat /\ MaxConcurrent > 0
  /\ \A n \in Nat : MaxConcurrent * n \in Nat
                    /\ MaxConcurrent * (n + 1) = MaxConcurrent * n + MaxConcurrent
  <1>1. \A S \in SUBSET Papers : IsFiniteSet(S) /\ Cardinality(S) \in Nat
    BY CrawlAssumption, FS_Subset, FS_CardinalityType
  <1> QED
    BY <1>1, CrawlAssumption

(* No record of a fresh file counts anything.                               *)
LEMMA FreshFacts ==
  /\ Fresh \in [Papers -> Records]
  /\ \A p \in Papers : Fresh[p].status = "pending" /\ Fresh[p].retries = 0
  BY DEF Fresh, Records, Statuses

(* The initial states satisfy the invariant.                                *)
LEMMA InitIInv == Init => IInv
  <1> SUFFICES ASSUME Init PROVE IInv
    OBVIOUS
  <1>1. Typed
    BY FreshFacts DEF Init, Typed, Stages
  <1>2. InHand = {} /\ Stranded = {}
    BY FreshFacts DEF Init, InHand, Stranded
  <1>3. PermitsKept /\ StrandedFew
    BY <1>2, FS_EmptySet, HandsAreFinite DEF Init, PermitsKept, StrandedFew
  <1>4. PdfsKept
    BY FreshFacts DEF Init, PdfsKept, Justified
  <1>5. RequestsAccounted
    BY FreshFacts, Budgets DEF Init, RequestsAccounted, RetriesBounded, Accounts, Uncounted
  <1> QED
    BY <1>1, <1>3, <1>4, <1>5 DEF Init, IInv, OffMeansForgotten
-----------------------------------------------------------------------------
(* The two ways a record changes.                                           *)
LEMMA Marking ==
  ASSUME NEW s \in [Papers -> Records], NEW p \in Papers, NEW new \in Statuses,
         NEW t, t = [s EXCEPT ![p].status = new]
  PROVE  /\ t \in [Papers -> Records]
         /\ t[p].status = new /\ t[p].retries = s[p].retries
         /\ \A q \in Papers \ {p} : t[q] = s[q]
  BY DEF Records

LEMMA Failing ==
  ASSUME NEW s \in [Papers -> Records], NEW p \in Papers,
         NEW t, t = [s EXCEPT ![p] = [status |-> "failed", retries |-> @.retries + 1]]
  PROVE  /\ t \in [Papers -> Records]
         /\ t[p].status = "failed" /\ t[p].retries = s[p].retries + 1
         /\ \A q \in Papers \ {p} : t[q] = s[q]
  BY DEF Records, Statuses

(* The statuses that the actions write.                                     *)
LEMMA StatusesAre == {"downloading", "success", "failed"} \subseteq Statuses
  BY DEF Statuses

(* A failed attempt, on the states it is given: the next request, or the    *)
(* paper has failed and memory and disk agree.                              *)
LEMMA AgainDoes ==
  ASSUME Typed, NEW p \in Papers, NEW mem \in [Papers -> Records],
         NEW file \in [Papers -> Records], Again(p, mem, file)
  PROVE  /\ states' \in [Papers -> Records] /\ disk' \in [Papers -> Records]
         /\ at' \in [Papers -> Stages]
         /\ attempt' \in [Papers -> Nat] /\ requests' \in [Papers -> Nat]
         /\ \A q \in Papers \ {p} :
              /\ states'[q] = mem[q] /\ at'[q] = at[q]
              /\ attempt'[q] = attempt[q] /\ requests'[q] = requests[q]
         /\ \/ /\ attempt[p] < MaxRetries /\ attempt'[p] = attempt[p] + 1
               /\ requests'[p] = requests[p] + 1 /\ at'[p] = at[p]
               /\ states' = mem /\ disk' = file
            \/ /\ attempt[p] = MaxRetries /\ requests'[p] = requests[p]
               /\ at'[p] = "failed" /\ disk' = states'
               /\ states'[p].status = "failed"
               /\ states'[p].retries = mem[p].retries + 1
  <1>1. CASE attempt[p] < MaxRetries
    <2>1. /\ attempt' = [attempt EXCEPT ![p] = @ + 1]
          /\ requests' = [requests EXCEPT ![p] = @ + 1]
          /\ states' = mem /\ disk' = file /\ at' = at
      BY <1>1, Budgets DEF Again
    <2> QED
      BY <1>1, <2>1 DEF Typed
  <1>2. CASE ~(attempt[p] < MaxRetries)
    <2>1. /\ attempt[p] = MaxRetries
          /\ at' = [at EXCEPT ![p] = "failed"]
          /\ states' = [mem EXCEPT ![p] = [status |-> "failed", retries |-> @.retries + 1]]
          /\ disk' = states' /\ UNCHANGED <<attempt, requests>>
      BY <1>2 DEF Again
    <2>2. /\ states' \in [Papers -> Records]
          /\ states'[p].status = "failed" /\ states'[p].retries = mem[p].retries + 1
          /\ \A q \in Papers \ {p} : states'[q] = mem[q]
      BY <2>1, Failing
    <2> QED
      BY <2>1, <2>2 DEF Typed, Stages
  <1> QED
    BY <1>1, <1>2

(* The other actions on one paper, in the same terms.                       *)
LEMMA MarkDoes ==
  ASSUME Typed, NEW p \in Papers, Mark(p)
  PROVE  /\ states' \in [Papers -> Records] /\ disk' = states'
         /\ states'[p].status = "downloading" /\ states'[p].retries = states[p].retries
         /\ \A q \in Papers \ {p} : states'[q] = states[q] /\ at'[q] = at[q]
         /\ at' \in [Papers -> Stages] /\ at'[p] = "marked"
  <1> DEFINE t == [states EXCEPT ![p].status = "downloading"]
  <1>1. /\ t \in [Papers -> Records]
        /\ t[p].status = "downloading" /\ t[p].retries = states[p].retries
        /\ \A q \in Papers \ {p} : t[q] = states[q]
    BY Marking, StatusesAre DEF Typed
  <1>2. states' = t /\ disk' = states' /\ at' = [at EXCEPT ![p] = "marked"]
    BY DEF Mark
  <1> HIDE DEF t
  <1> QED
    BY <1>1, <1>2 DEF Typed, Stages

(* A paper is taken for downloaded: fetched now, or nothing to fetch.       *)
LEMMA SuccessDoes ==
  ASSUME Typed, NEW p \in Papers,
         \/ Check(p) /\ Accepted(p)
         \/ Downloaded(p)
  PROVE  /\ states' \in [Papers -> Records] /\ disk' = states'
         /\ states'[p].status = "success" /\ states'[p].retries = states[p].retries
         /\ \A q \in Papers \ {p} : states'[q] = states[q] /\ at'[q] = at[q]
         /\ at' \in [Papers -> Stages] /\ at'[p] = "ok"
         /\ UNCHANGED <<attempt, requests>>
  <1> DEFINE t == [states EXCEPT ![p].status = "success"]
  <1>1. /\ t \in [Papers -> Records]
        /\ t[p].status = "success" /\ t[p].retries = states[p].retries
        /\ \A q \in Papers \ {p} : t[q] = states[q]
    BY Marking, StatusesAre DEF Typed
  <1>2. /\ states' = t /\ disk' = states' /\ at' = [at EXCEPT ![p] = "ok"]
        /\ UNCHANGED <<attempt, requests>>
    BY DEF Check, Downloaded
  <1> HIDE DEF t
  <1> QED
    BY <1>1, <1>2 DEF Typed, Stages

(* The first request.                                                       *)
LEMMA AskDoes ==
  ASSUME Typed, NEW p \in Papers, Check(p), ~Accepted(p)
  PROVE  /\ at' \in [Papers -> Stages] /\ at'[p] = "request"
         /\ attempt' \in [Papers -> Nat] /\ attempt'[p] = 1
         /\ requests' \in [Papers -> Nat] /\ requests'[p] = requests[p] + 1
         /\ \A q \in Papers \ {p} :
              at'[q] = at[q] /\ attempt'[q] = attempt[q] /\ requests'[q] = requests[q]
         /\ UNCHANGED <<states, disk>>
  BY DEF Check, Typed, Stages

(* Every step keeps the types.                                              *)
LEMMA TypedKeeps ==
  ASSUME Typed, Next
  PROVE  Typed'
  <1> USE FreshFacts
  <1>1. CASE Start
    <2>1. disk' = disk /\ states' = disk /\ on' = TRUE
          /\ UNCHANGED <<attempt, pdf, crashes, faults, lost, requests>>
      BY <1>1 DEF Start
    <2>2. at' \in [Papers -> Stages]
      BY <1>1 DEF Start, Stages
    <2> QED
      BY <2>1, <2>2 DEF Typed
  <1>2. CASE Finish
    BY <1>2 DEF Typed, Finish, Forgotten, Stages
  <1>3. CASE Crash
    <2>1. pdf' \in [Papers -> {"none", "cut", "whole"}]
      BY <1>3 DEF Crash, Typed
    <2>2. disk' \in {disk, Fresh} /\ lost' \in {lost, lost + 1}
      BY <1>3 DEF Crash
    <2>3. on' = FALSE /\ states' = Fresh /\ crashes' = crashes + 1
          /\ UNCHANGED <<faults, requests>>
          /\ at' = [p \in Papers |-> "out"] /\ attempt' = [p \in Papers |-> 0]
      BY <1>3 DEF Crash, Forgotten
    <2>4. at' \in [Papers -> Stages] /\ attempt' \in [Papers -> Nat]
      BY <2>3 DEF Stages
    <2>5. disk' \in [Papers -> Records] /\ states' \in [Papers -> Records]
      BY <2>2, <2>3 DEF Typed
    <2>6. on' \in BOOLEAN /\ requests' \in [Papers -> Nat]
      BY <2>3 DEF Typed
    <2>7. crashes' \in Nat /\ faults' \in Nat /\ lost' \in Nat
      BY <2>2, <2>3 DEF Typed
    <2> QED
      BY <2>1, <2>4, <2>5, <2>6, <2>7 DEF Typed
  <1>4. ASSUME NEW p \in Papers, Mark(p) PROVE Typed'
    BY <1>4, MarkDoes DEF Typed, Mark
  <1>5. ASSUME NEW p \in Papers, Check(p) PROVE Typed'
    <2>1. CASE Accepted(p)
      BY <1>5, <2>1, SuccessDoes DEF Typed, Check
    <2>2. CASE ~Accepted(p)
      BY <1>5, <2>2, AskDoes DEF Typed, Check
    <2> QED
      BY <2>1, <2>2
  <1>6. ASSUME NEW p \in Papers, Downloaded(p) PROVE Typed'
    BY <1>6, SuccessDoes DEF Typed, Downloaded
  <1>7. ASSUME NEW p \in Papers, NoPdf(p) PROVE Typed'
    <2>1. /\ Again(p, states, disk) /\ states \in [Papers -> Records]
          /\ disk \in [Papers -> Records]
          /\ UNCHANGED <<pdf, on, crashes, faults, lost>>
      BY <1>7 DEF NoPdf, Typed
    <2> QED
      BY <2>1, AgainDoes DEF Typed
  <1>8. ASSUME NEW p \in Papers, WriteFails(p) PROVE Typed'
    <2>1. /\ Again(p, states, disk) /\ states \in [Papers -> Records]
          /\ disk \in [Papers -> Records]
          /\ UNCHANGED <<on, crashes, lost>> /\ faults' = faults + 1
          /\ pdf' \in [Papers -> {"none", "cut", "whole"}]
      BY <1>8 DEF WriteFails, Typed
    <2> QED
      BY <2>1, AgainDoes DEF Typed
  <1>9. ASSUME NEW p \in Papers, SaveFails(p) PROVE Typed'
    <2> DEFINE mem == [states EXCEPT ![p].status = "success"]
    <2>1. mem \in [Papers -> Records]
      BY Marking, StatusesAre DEF Typed
    <2>2. /\ Again(p, mem, Fresh)
          /\ UNCHANGED <<on, crashes>> /\ faults' = faults + 1 /\ lost' = lost + 1
          /\ pdf' \in [Papers -> {"none", "cut", "whole"}]
      BY <1>9 DEF SaveFails, Typed
    <2> HIDE DEF mem
    <2> QED
      BY <2>1, <2>2, AgainDoes DEF Typed
  <1> QED
    BY <1>1, <1>2, <1>3, <1>4, <1>5, <1>6, <1>7, <1>8, <1>9 DEF Next, Ended
-----------------------------------------------------------------------------
(* A step on one paper.                                                     *)
PaperStep(p) == Mark(p) \/ Check(p) \/ Ended(p)

(* A request that ends without success.                                     *)
LEMMA FailDoes ==
  ASSUME Typed, NEW p \in Papers, NoPdf(p) \/ WriteFails(p) \/ SaveFails(p)
  PROVE  /\ at[p] = "request"
         /\ \A q \in Papers \ {p} :
              /\ states'[q] = states[q] /\ at'[q] = at[q]
              /\ attempt'[q] = attempt[q] /\ requests'[q] = requests[q]
         /\ \/ /\ attempt[p] < MaxRetries /\ attempt'[p] = attempt[p] + 1
               /\ requests'[p] = requests[p] + 1 /\ at'[p] = "request"
               /\ states'[p].retries = states[p].retries
               /\ \/ ~SaveFails(p) /\ states' = states /\ disk' = disk /\ lost' = lost
                  \/ /\ SaveFails(p) /\ states'[p].status = "success" /\ disk' = Fresh
                     /\ lost' = lost + 1
            \/ /\ attempt[p] = MaxRetries /\ requests'[p] = requests[p]
               /\ at'[p] = "failed" /\ disk' = states'
               /\ states'[p].status = "failed"
               /\ states'[p].retries = states[p].retries + 1
               /\ lost' \in {lost, lost + 1}
  <1>1. CASE (NoPdf(p) \/ WriteFails(p)) /\ ~SaveFails(p)
    <2>1. at[p] = "request" /\ Again(p, states, disk) /\ lost' = lost
      BY <1>1 DEF NoPdf, WriteFails, Asking
    <2>2. states \in [Papers -> Records] /\ disk \in [Papers -> Records]
      BY DEF Typed
    <2> QED
      BY <1>1, <2>1, <2>2, AgainDoes
  <1>2. CASE SaveFails(p)
    <2> DEFINE mem == [states EXCEPT ![p].status = "success"]
    <2>1. /\ mem \in [Papers -> Records]
          /\ mem[p].status = "success" /\ mem[p].retries = states[p].retries
          /\ \A q \in Papers \ {p} : mem[q] = states[q]
      BY Marking, StatusesAre DEF Typed
    <2>2. at[p] = "request" /\ Again(p, mem, Fresh) /\ lost' = lost + 1
      BY <1>2 DEF SaveFails, Asking
    <2> HIDE DEF mem
    <2> QED
      BY <1>2, <2>1, <2>2, AgainDoes, FreshFacts
  <1> QED
    BY <1>1, <1>2

(* What every step on a paper leaves: the other papers are as they were, and*)
(* this one is in hand or decided.                                          *)
LEMMA PaperStepDoes ==
  ASSUME Typed, NEW p \in Papers, PaperStep(p)
  PROVE  /\ at[p] \in {"waiting", "marked", "request"}
         /\ at'[p] \in {"marked", "request", "ok", "failed"}
         /\ at[p] = "waiting" <=> at'[p] = "marked"
         /\ \A q \in Papers \ {p} : states'[q] = states[q] /\ at'[q] = at[q]
         /\ disk' \in {disk, states', Fresh}
         /\ at'[p] \in {"ok", "failed"} =>
              disk' = states' /\ states'[p].status \in {"success", "failed"}
         /\ UNCHANGED <<on, crashes>>
  <1>1. CASE Mark(p)
    BY <1>1, MarkDoes DEF Mark
  <1>2. CASE Check(p)
    BY <1>2, SuccessDoes, AskDoes DEF Check, Typed
  <1>3. CASE Downloaded(p)
    BY <1>3, SuccessDoes DEF Downloaded, Asking
  <1>4. CASE NoPdf(p) \/ WriteFails(p) \/ SaveFails(p)
    <2>1. UNCHANGED <<on, crashes>>
      BY <1>4 DEF NoPdf, WriteFails, SaveFails
    <2> QED
      BY <1>4, <2>1, FailDoes
  <1> QED
    BY <1>1, <1>2, <1>3, <1>4 DEF PaperStep, Ended

(* A crawl that ends, however it ends, leaves nothing in memory.            *)
LEMMA OffKeeps ==
  ASSUME IInv, Next
  PROVE  OffMeansForgotten'
  <1>1. Typed /\ OffMeansForgotten
    BY DEF IInv
  <1>2. CASE Start
    BY <1>2 DEF Start, OffMeansForgotten
  <1>3. CASE Finish \/ Crash
    <2>1. Forgotten
      BY <1>3 DEF Finish, Crash
    <2> QED
      BY <2>1 DEF Forgotten, OffMeansForgotten, Fresh
  <1>4. ASSUME NEW p \in Papers, PaperStep(p) PROVE OffMeansForgotten'
    <2>1. at[p] # "out" /\ on' = on
      BY <1>1, <1>4, PaperStepDoes
    <2> QED
      BY <1>1, <2>1 DEF OffMeansForgotten, Typed
  <1> QED
    BY <1>2, <1>3, <1>4 DEF Next, PaperStep

(* Only a paper that waits takes a permit, and only a free one.             *)
LEMMA PermitsKeeps ==
  ASSUME IInv, Next
  PROVE  PermitsKept'
  <1>1. Typed /\ OffMeansForgotten /\ PermitsKept
    BY DEF IInv
  <1>2. ASSUME NEW S \in SUBSET Papers, InHand' \subseteq S, Cardinality(S) <= MaxConcurrent
        PROVE  PermitsKept'
    BY <1>2, HandsAreFinite, FS_Subset DEF PermitsKept, InHand
  <1>3. CASE Start \/ Finish \/ Crash
    <2>1. InHand' = {}
      BY <1>3 DEF Start, Finish, Crash, Forgotten, InHand
    <2> QED
      BY <2>1, <1>2, FS_EmptySet, HandsAreFinite
  <1>4. ASSUME NEW p \in Papers, PaperStep(p) PROVE PermitsKept'
    <2>1. CASE at[p] = "waiting"
      <3>1. Mark(p)
        BY <1>4, <2>1 DEF PaperStep, Check, Ended, Downloaded, NoPdf, WriteFails, SaveFails, Asking
      <3>2. Cardinality(InHand) < MaxConcurrent
        BY <3>1 DEF Mark
      <3>3. InHand' = InHand \cup {p} /\ p \notin InHand
        BY <1>1, <1>4, <2>1, PaperStepDoes DEF InHand
      <3>4. Cardinality(InHand \cup {p}) = Cardinality(InHand) + 1
        BY <3>3, FS_AddElement, HandsAreFinite DEF InHand
      <3>5. Cardinality(InHand) \in Nat
        BY HandsAreFinite DEF InHand
      <3>6. Cardinality(InHand') <= MaxConcurrent
        <4> HIDE DEF InHand
        <4> QED
          BY <3>2, <3>3, <3>4, <3>5, HandsAreFinite
      <3> QED
        BY <3>6 DEF PermitsKept
    <2>2. CASE at[p] # "waiting"
      <3>1. InHand' \subseteq InHand
        BY <1>1, <1>4, <2>2, PaperStepDoes DEF InHand
      <3> QED
        BY <1>1, <1>2, <3>1 DEF PermitsKept, InHand
    <2> QED
      BY <2>1, <2>2
  <1> QED
    BY <1>3, <1>4 DEF Next, PaperStep

(* Only a crash strands papers: those in hand.                              *)
LEMMA StrandedKeeps ==
  ASSUME IInv, Next
  PROVE  StrandedFew'
  <1>1. /\ Typed /\ OffMeansForgotten /\ PermitsKept /\ StrandedFew
        /\ crashes \in Nat
    BY DEF IInv, Typed
  <1>2. ASSUME Stranded' \subseteq Stranded, crashes' = crashes
        PROVE  StrandedFew'
    <2>1. Stranded \in SUBSET Papers
      BY DEF Stranded
    <2>2. Cardinality(Stranded') <= Cardinality(Stranded)
      BY <1>2, <2>1, FS_Subset, HandsAreFinite
    <2>3. Cardinality(Stranded') \in Nat /\ Cardinality(Stranded) \in Nat
      BY <1>2, <2>1, HandsAreFinite
    <2> QED
      BY <1>1, <1>2, <2>2, <2>3, HandsAreFinite DEF StrandedFew
  <1>3. CASE Start
    <2>1. ~on /\ states' = disk /\ disk' = disk /\ crashes' = crashes
          /\ \A p \in Papers : at'[p] \notin {"marked", "request"}
      BY <1>3 DEF Start
    <2>2. InHand = {} /\ InHand' = {}
      BY <1>1, <2>1 DEF OffMeansForgotten, InHand
    <2>3. Stranded' \subseteq Stranded
      BY <2>1, <2>2 DEF Stranded
    <2> QED
      BY <1>2, <2>1, <2>3
  <1>4. CASE Finish
    <2>1. states' = Fresh /\ disk' = disk /\ crashes' = crashes
      BY <1>4 DEF Finish, Forgotten
    <2>2. InHand = {}
      BY <1>4 DEF Finish, AllDone, InHand
    <2>3. Stranded' \subseteq Stranded
      BY <2>1, <2>2, FreshFacts DEF Stranded
    <2> QED
      BY <1>2, <2>1, <2>3
  <1>5. CASE Crash
    <2>1. states' = Fresh /\ disk' \in {disk, Fresh} /\ crashes' = crashes + 1
      BY <1>5 DEF Crash, Forgotten
    <2>2. Stranded' \subseteq Stranded \cup InHand
      BY <2>1, FreshFacts DEF Stranded
    <2>3. Stranded \in SUBSET Papers /\ InHand \in SUBSET Papers
      BY DEF Stranded, InHand
    <2>4. Cardinality(Stranded') <= Cardinality(Stranded \cup InHand)
      BY <2>2, <2>3, FS_Subset, HandsAreFinite
    <2>5. Cardinality(Stranded \cup InHand) <= Cardinality(Stranded) + Cardinality(InHand)
      <3>1. Stranded \cap InHand = {}
        BY DEF Stranded
      <3>2. IsFiniteSet(Stranded) /\ IsFiniteSet(InHand)
        BY <2>3, HandsAreFinite
      <3>3. Cardinality(Stranded \cup InHand)
              = Cardinality(Stranded) + Cardinality(InHand) - Cardinality(Stranded \cap InHand)
        BY <3>2, FS_Union
      <3>4. Cardinality(Stranded \cap InHand) = 0
        BY <3>1, FS_EmptySet
      <3>5. Cardinality(Stranded) \in Nat /\ Cardinality(InHand) \in Nat
        BY <2>3, HandsAreFinite
      <3> QED
        BY <3>3, <3>4, <3>5
    <2>6. /\ Cardinality(Stranded') \in Nat /\ Cardinality(Stranded) \in Nat
          /\ Cardinality(InHand) \in Nat /\ Cardinality(Stranded \cup InHand) \in Nat
      BY <2>2, <2>3, HandsAreFinite
    <2>7. Cardinality(Stranded') <= MaxConcurrent * crashes + MaxConcurrent
      BY <1>1, <2>4, <2>5, <2>6, HandsAreFinite DEF StrandedFew, PermitsKept
    <2> QED
      BY <1>1, <2>1, <2>7, HandsAreFinite DEF StrandedFew
  <1>6. ASSUME NEW p \in Papers, PaperStep(p) PROVE StrandedFew'
    <2>1. Stranded' \subseteq Stranded
      BY <1>1, <1>6, PaperStepDoes, FreshFacts DEF Stranded, InHand
    <2> QED
      BY <1>2, <1>6, <2>1, <1>1, PaperStepDoes
  <1> QED
    BY <1>3, <1>4, <1>5, <1>6 DEF Next, PaperStep

(* A success is written when its PDF is there; what a crash or a failed     *)
(* write spoils is the file of a paper that is being requested.             *)
LEMMA PdfsKeeps ==
  ASSUME IInv, Next
  PROVE  PdfsKept'
  <1>1. /\ Typed /\ OffMeansForgotten /\ PdfsKept
        /\ crashes \in Nat /\ faults \in Nat
    BY DEF IInv, Typed
  <1>2. Justified(Fresh)'
    BY FreshFacts DEF Justified
  <1>3. CASE Start
    <2>1. /\ disk' = disk /\ states' = disk /\ UNCHANGED <<pdf, faults, crashes>>
          /\ \A p \in Papers : at'[p] \notin {"marked", "request"}
      BY <1>3 DEF Start
    <2> QED
      BY <1>1, <2>1 DEF PdfsKept, Justified, Accepted
  <1>4. CASE Finish
    <2>1. /\ disk' = disk /\ states' = Fresh /\ UNCHANGED <<pdf, faults, crashes>>
          /\ on' = FALSE /\ \A p \in Papers : at'[p] = "out"
      BY <1>4 DEF Finish, Forgotten
    <2> QED
      BY <1>1, <1>2, <2>1 DEF PdfsKept, Justified, Accepted
  <1>5. CASE Crash
    <2>1. /\ disk' \in {disk, Fresh} /\ states' = Fresh /\ faults' = faults
          /\ crashes' = crashes + 1 /\ on /\ on' = FALSE
          /\ \A p \in Papers : at'[p] = "out"
      BY <1>5 DEF Crash, Forgotten
    <2>2. \A p \in Papers : pdf'[p] = pdf[p] \/ at[p] = "request"
      BY <1>1, <1>5 DEF Crash, Asking, Typed
    <2>3. ASSUME faults = 0 PROVE Justified(disk)'
      <3>1. Justified(disk) /\ disk = states
        BY <1>1, <2>1, <2>3 DEF PdfsKept
      <3>2. ASSUME NEW p \in Papers, disk[p].status = "success" PROVE Accepted(p)'
        <4>1. at[p] # "request"
          BY <1>1, <2>3, <3>1, <3>2 DEF PdfsKept
        <4>2. pdf'[p] = pdf[p] /\ Accepted(p)
          BY <2>2, <3>1, <3>2, <4>1 DEF Justified
        <4> QED
          BY <4>2 DEF Accepted
      <3> QED
        BY <1>2, <2>1, <3>2 DEF Justified
    <2>4. faults' = 0 \/ faults' + crashes' = 1 => faults = 0
      BY <1>1, <2>1
    <2> QED
      BY <1>2, <2>1, <2>3, <2>4 DEF PdfsKept, Justified
  <1>6. ASSUME NEW p \in Papers, Mark(p) \/ Check(p) \/ Downloaded(p) \/ NoPdf(p)
        PROVE  PdfsKept'
    <2>1. /\ UNCHANGED <<faults, crashes, on>>
          /\ \A q \in Papers : Accepted(q) => Accepted(q)'
      BY <1>1, <1>6 DEF Mark, Check, Downloaded, NoPdf, Accepted, Typed
    <2>2. \A q \in Papers \ {p} : states'[q] = states[q] /\ at'[q] = at[q]
      BY <1>1, <1>6, PaperStepDoes DEF PaperStep, Ended
    <2>3. /\ disk' = states' \/ UNCHANGED <<disk, states>>
          /\ states'[p].status = "success" => Accepted(p)' \/ states' = states
          /\ at'[p] \in {"marked", "request"} =>
               \/ states'[p].status = "downloading"
               \/ at[p] \in {"marked", "request"} /\ states' = states
      <3>1. CASE Mark(p)
        BY <1>1, <3>1, MarkDoes
      <3>2. CASE Check(p)
        BY <1>1, <3>2, SuccessDoes, AskDoes, <2>1 DEF Check
      <3>3. CASE Downloaded(p)
        <4>1. pdf'[p] = "whole"
          BY <1>1, <3>3 DEF Downloaded, Typed
        <4> QED
          BY <1>1, <3>3, <4>1, SuccessDoes DEF Accepted
      <3>4. CASE NoPdf(p)
        <4>1. ~SaveFails(p) \/ lost' # lost
          BY <1>1 DEF SaveFails, Typed
        <4>2. lost' = lost
          BY <3>4 DEF NoPdf
        <4> QED
          BY <1>1, <3>4, <4>1, <4>2, FailDoes
      <3> QED
        BY <1>6, <3>1, <3>2, <3>3, <3>4
    <2>4. Justified(states) => Justified(states)'
      BY <2>1, <2>2, <2>3 DEF Justified
    <2>5. Justified(disk) => disk' = states' \/ Justified(disk)'
      BY <2>1, <2>3 DEF Justified
    <2>6. Justified(disk) /\ Justified(states) => Justified(disk)' /\ Justified(states)'
      BY <2>4, <2>5 DEF Justified
    <2> QED
      BY <1>1, <2>1, <2>2, <2>3, <2>6 DEF PdfsKept
  <1>7. ASSUME NEW p \in Papers, WriteFails(p) \/ SaveFails(p) PROVE PdfsKept'
    <2>1. faults' = faults + 1 /\ crashes' = crashes /\ at[p] = "request"
      BY <1>7 DEF WriteFails, SaveFails, Asking
    <2> SUFFICES ASSUME faults = 0 PROVE Justified(disk)' /\ Justified(states)'
      BY <1>1, <2>1 DEF PdfsKept
    <2>2. /\ Justified(disk) /\ Justified(states) /\ disk = states
          /\ states[p].status = "downloading"
      BY <1>1, <2>1 DEF PdfsKept, OffMeansForgotten
    <2>3. /\ \A q \in Papers \ {p} : pdf'[q] = pdf[q] /\ states'[q] = states[q]
          /\ disk' \in {disk, Fresh, states'}
      BY <1>1, <1>7, FailDoes DEF WriteFails, SaveFails, Typed
    <2>4. states'[p].status = "success" => pdf'[p] = "whole"
      BY <1>1, <1>7, <2>2, FailDoes DEF WriteFails, SaveFails, Typed
    <2>5. \A q \in Papers \ {p} : states[q].status = "success" => Accepted(q)'
      BY <2>2, <2>3 DEF Justified, Accepted
    <2>6. Justified(states)'
      BY <2>3, <2>4, <2>5 DEF Justified, Accepted
    <2>8. disk' = disk => Justified(disk)'
      BY <2>2, <2>5 DEF Justified
    <2> QED
      BY <1>2, <2>3, <2>6, <2>8 DEF Justified
  <1> QED
    BY <1>3, <1>4, <1>5, <1>6, <1>7 DEF Next, Ended
-----------------------------------------------------------------------------
(* What a record and its crawl count never exceeds what one loss of the     *)
(* state file forgives; and what is left of it when the crawl goes away.    *)
LEMMA CountsAreBounded ==
  ASSUME Typed, RequestsAccounted, NEW p \in Papers
  PROVE  /\ PerRetries(states[p].retries) \in Nat
         /\ Uncounted(states, p) \in 0..MaxRetries
         /\ PerRetries(states[p].retries) + Uncounted(states, p) <= PerLosses(1)
         /\ Uncounted(states, p)
              <= (IF states[p].status \in {"pending", "failed"} THEN 0 ELSE MaxRetries)
  <1>1. /\ states[p].retries \in Nat /\ states[p].retries <= MaxRetries
        /\ states[p].status \in Statuses
    BY DEF Typed, Records, RequestsAccounted, RetriesBounded
  <1>2. Uncounted(states, p) \in 0..MaxRetries
    BY Budgets DEF RequestsAccounted, Uncounted
  <1>3. Uncounted(states, p) > 0 => states[p].retries < MaxRetries
    BY <1>1, Budgets DEF RequestsAccounted, RetriesBounded, Uncounted, Statuses
  <1>4. PerRetries(states[p].retries) \in Nat
    BY <1>1, Budgets
  <1>5. PerRetries(states[p].retries) + Uncounted(states, p) <= PerLosses(1)
    <2>1. CASE Uncounted(states, p) = 0
      BY <2>1, <1>1, <1>4, Budgets
    <2>2. CASE Uncounted(states, p) > 0
      <3>1. states[p].retries + 1 <= MaxRetries /\ states[p].retries + 1 \in Nat
        BY <2>2, <1>1, <1>3, CrawlAssumption
      <3>2. PerRetries(states[p].retries) + MaxRetries <= PerLosses(1)
        BY <3>1, <1>1, Budgets
      <3> QED
        BY <3>2, <1>2, <1>4, Budgets
    <2> QED
      BY <2>1, <2>2, <1>2
  <1>6. Uncounted(states, p)
            <= (IF states[p].status \in {"pending", "failed"} THEN 0 ELSE MaxRetries)
    BY <1>1, Budgets DEF RequestsAccounted, Uncounted, Statuses
  <1> QED
    BY <1>2, <1>4, <1>5, <1>6

(* One more loss pays for everything.                                       *)
LEMMA LossForgives ==
  ASSUME Typed, RequestsAccounted, NEW n \in Nat, Accounts(states, n)
  PROVE  /\ Accounts(states, n + 1)
         /\ \A p \in Papers : requests[p] <= PerLosses(n + 1)
  <1>1. ASSUME NEW p \in Papers
        PROVE  /\ requests[p] <= PerLosses(n + 1)
               /\ requests[p] <= PerLosses(n + 1) + PerRetries(states[p].retries)
                                 + Uncounted(states, p)
    <2>1. /\ PerRetries(states[p].retries) \in Nat
          /\ Uncounted(states, p) \in Nat
          /\ PerRetries(states[p].retries) + Uncounted(states, p) <= PerLosses(1)
      BY CountsAreBounded, Budgets
    <2>2. requests[p] \in Nat
      BY DEF Typed
    <2>3. /\ PerLosses(n) \in Nat /\ PerLosses(1) \in Nat
          /\ PerLosses(n + 1) = PerLosses(n) + PerLosses(1)
      BY Budgets
    <2>4. requests[p] <= PerLosses(n) + PerRetries(states[p].retries) + Uncounted(states, p)
      BY DEF Accounts
    <2> QED
      BY <2>1, <2>2, <2>3, <2>4
  <1> QED
    BY <1>1 DEF Accounts

(* The same of the states in memory during a crawl, whose file is theirs or *)
(* was lost.                                                                *)
LEMMA MemoryAccounts ==
  ASSUME Typed, RequestsAccounted, on
  PROVE  /\ Accounts(states, lost)
         /\ \/ disk = states
            \/ disk = Fresh /\ \A p \in Papers : requests[p] <= PerLosses(lost)
         /\ \A p \in Papers : requests[p] <= PerLosses(lost + 1)
  <1>1. /\ Accounts(states, lost)
        /\ \/ disk = states
           \/ disk = Fresh /\ \A p \in Papers : requests[p] <= PerLosses(lost)
    <2>1. CASE disk = states /\ Accounts(states, lost)
      BY <2>1
    <2>2. CASE disk = Fresh /\ lost > 0 /\ Accounts(states, lost - 1)
      <3>1. lost - 1 \in Nat /\ (lost - 1) + 1 = lost
        BY <2>2 DEF Typed
      <3> QED
        BY <2>2, <3>1, LossForgives
    <2> QED
      BY <2>1, <2>2 DEF RequestsAccounted
  <1>2. lost \in Nat
    BY DEF Typed
  <1> QED
    BY <1>1, <1>2, LossForgives

(* The crawler goes away: a file that is kept accounts for what is not      *)
(* counted yet, a fresh one for as many losses as it takes.                 *)
LEMMA GoneAccounts ==
  ASSUME Typed, RequestsAccounted, on, ~on', UNCHANGED requests, states' = Fresh,
         \A p \in Papers : at'[p] = "out",
         \/ disk' = disk /\ lost' = lost
         \/ disk' = Fresh /\ lost' = lost + 1
  PROVE  RequestsAccounted'
  <1>1. RetriesBounded(disk)' /\ RetriesBounded(states)'
    BY FreshFacts, Budgets DEF RequestsAccounted, RetriesBounded
  <1>2. lost \in Nat /\ lost + 1 \in Nat
    BY DEF Typed
  <1>3. CASE disk' = states /\ lost' = lost
    <2>1. ASSUME NEW p \in Papers
          PROVE  requests'[p] <= PerLosses(lost') + PerRetries(disk'[p].retries)
                                 + Uncounted(disk, p)'
      <3>1. Uncounted(disk, p)'
              = (IF states[p].status \in {"pending", "failed"} THEN 0 ELSE MaxRetries)
        BY <1>3 DEF Uncounted
      <3>2. /\ Uncounted(states, p) \in Nat /\ PerRetries(states[p].retries) \in Nat
            /\ PerLosses(lost) \in Nat /\ requests[p] \in Nat
        <4>1. Uncounted(states, p) \in 0..MaxRetries /\ PerRetries(states[p].retries) \in Nat
          BY CountsAreBounded
        <4>2. PerLosses(lost) \in Nat /\ MaxRetries \in Nat
          BY <1>2, Budgets
        <4> HIDE DEF Uncounted
        <4> QED
          BY <4>1, <4>2 DEF Typed
      <3>5. Uncounted(disk, p)' \in Nat
        BY <3>1, Budgets
      <3>6. Uncounted(states, p) <= Uncounted(disk, p)'
        BY <3>1, CountsAreBounded
      <3>3. requests[p] <= PerLosses(lost) + PerRetries(states[p].retries)
                           + Uncounted(states, p)
        BY MemoryAccounts DEF Accounts
      <3>4. requests'[p] = requests[p] /\ PerLosses(lost') = PerLosses(lost)
            /\ PerRetries(disk'[p].retries) = PerRetries(states[p].retries)
        BY <1>3
      <3> QED
        BY <3>2, <3>3, <3>4, <3>5, <3>6
    <2> QED
      BY <1>1, <2>1 DEF RequestsAccounted, Accounts
  <1>4. CASE disk' = Fresh /\ \A p \in Papers : requests[p] <= PerLosses(lost')
    <2>1. lost' \in Nat
      BY <1>2
    <2>2. ASSUME NEW p \in Papers
          PROVE  requests'[p] <= PerLosses(lost') + PerRetries(disk'[p].retries)
                                 + Uncounted(disk, p)'
      <3>1. Uncounted(disk, p)' = 0 /\ PerRetries(disk'[p].retries) = 0
        BY <1>4, FreshFacts, Budgets DEF Uncounted
      <3>2. requests'[p] <= PerLosses(lost') /\ PerLosses(lost') \in Nat
        BY <1>4, <2>1, Budgets
      <3> QED
        BY <3>1, <3>2
    <2> QED
      BY <1>1, <2>2 DEF RequestsAccounted, Accounts
  <1> QED
    BY <1>3, <1>4, MemoryAccounts

(* A step on a paper: its requests are counted as attempts, then as a retry.*)
LEMMA PaperAccounts ==
  ASSUME Typed, RequestsAccounted, NEW p \in Papers, PaperStep(p),
         NEW n \in Nat, Accounts(states, n)
  PROVE  Accounts(states, n)'
  <1>1. ASSUME NEW q \in Papers, q # p
        PROVE  requests'[q] <= PerLosses(n) + PerRetries(states'[q].retries)
                               + Uncounted(states, q)'
    <2>1. /\ states'[q] = states[q] /\ at'[q] = at[q]
          /\ attempt'[q] = attempt[q] /\ requests'[q] = requests[q]
      BY <1>1, MarkDoes, SuccessDoes, AskDoes, FailDoes DEF PaperStep, Ended, Mark
    <2>2. Uncounted(states, q)' = Uncounted(states, q)
      BY <2>1 DEF Uncounted
    <2> QED
      BY <2>1, <2>2 DEF Accounts
  <1>2. /\ PerLosses(n) \in Nat /\ PerRetries(states[p].retries) \in Nat
        /\ Uncounted(states, p) \in 0..MaxRetries /\ requests[p] \in Nat
        /\ MaxRetries \in Nat /\ states[p].retries \in Nat
    BY CountsAreBounded, Budgets DEF Typed, Records
  <1>3. requests[p] <= PerLosses(n) + PerRetries(states[p].retries) + Uncounted(states, p)
    BY DEF Accounts
  <1>4. CASE Mark(p)
    <2>1. /\ requests'[p] = requests[p] /\ states'[p].retries = states[p].retries
          /\ Uncounted(states, p) = 0 /\ Uncounted(states, p)' = 0
      BY <1>4, MarkDoes DEF Mark, Uncounted
    <2> QED
      BY <1>1, <1>2, <1>3, <2>1 DEF Accounts
  <1>5. CASE (Check(p) /\ Accepted(p)) \/ Downloaded(p)
    <2>1. /\ requests'[p] = requests[p] /\ states'[p].retries = states[p].retries
          /\ Uncounted(states, p)' = MaxRetries
      BY <1>5, SuccessDoes DEF Uncounted
    <2> QED
      BY <1>1, <1>2, <1>3, <2>1 DEF Accounts
  <1>6. CASE Check(p) /\ ~Accepted(p)
    <2>1. /\ requests'[p] = requests[p] + 1 /\ states' = states
          /\ Uncounted(states, p) = 0 /\ Uncounted(states, p)' = 1
      BY <1>6, AskDoes DEF Check, Uncounted
    <2> QED
      BY <1>1, <1>2, <1>3, <2>1 DEF Accounts
  <1>7. CASE NoPdf(p) \/ WriteFails(p) \/ SaveFails(p)
    <2>1. CASE attempt[p] < MaxRetries
      <3>1. /\ requests'[p] = requests[p] + 1 /\ states'[p].retries = states[p].retries
            /\ Uncounted(states, p) = attempt[p] /\ Uncounted(states, p)' = attempt[p] + 1
        BY <1>2, <1>7, <2>1, FailDoes DEF Uncounted
      <3> QED
        BY <1>1, <1>2, <1>3, <3>1 DEF Accounts
    <2>2. CASE ~(attempt[p] < MaxRetries)
      <3>1. /\ requests'[p] = requests[p] /\ states'[p].retries = states[p].retries + 1
            /\ Uncounted(states, p) = MaxRetries /\ Uncounted(states, p)' = 0
        BY <1>7, <2>2, FailDoes DEF Uncounted
      <3>2. PerRetries(states'[p].retries) = PerRetries(states[p].retries) + MaxRetries
        BY <3>1, <1>2, Budgets
      <3> QED
        BY <1>1, <1>2, <1>3, <3>1, <3>2 DEF Accounts
    <2> QED
      BY <2>1, <2>2
  <1> QED
    BY <1>4, <1>5, <1>6, <1>7 DEF PaperStep, Ended

(* The rest of what RequestsAccounted says, after a step on a paper.        *)
LEMMA PaperBounds ==
  ASSUME Typed, RequestsAccounted, NEW p \in Papers, PaperStep(p)
  PROVE  /\ RetriesBounded(states)'
         /\ \A q \in Papers :
              /\ at'[q] \in {"waiting", "marked", "request"} => states'[q].retries < MaxRetries
              /\ at'[q] \in {"marked", "request"} =>
                   states'[q].status \in {"downloading", "success"}
              /\ at'[q] = "request" => attempt'[q] \in 1..MaxRetries
  <1> DEFINE Bound(q) ==
        /\ states[q].retries <= MaxRetries
        /\ states[q].status \in {"downloading", "success"} => states[q].retries < MaxRetries
        /\ at[q] \in {"waiting", "marked", "request"} => states[q].retries < MaxRetries
        /\ at[q] \in {"marked", "request"} => states[q].status \in {"downloading", "success"}
        /\ at[q] = "request" => attempt[q] \in 1..MaxRetries
  <1>1. \A q \in Papers : Bound(q)
    BY DEF RequestsAccounted, RetriesBounded
  <1>2. ASSUME NEW q \in Papers, q # p PROVE Bound(q)'
    <2>1. /\ states'[q] = states[q] /\ at'[q] = at[q] /\ attempt'[q] = attempt[q]
      BY <1>2, MarkDoes, SuccessDoes, AskDoes, FailDoes DEF PaperStep, Ended, Mark
    <2> QED
      BY <1>1, <2>1
  <1>3. /\ Bound(p) /\ MaxRetries \in Nat /\ MaxRetries > 0 /\ attempt[p] \in Nat
        /\ states[p].retries \in Nat
    BY <1>1, CrawlAssumption DEF Typed, Records
  <1>4. ASSUME Mark(p) PROVE Bound(p)'
    <2>1. /\ states'[p].status = "downloading" /\ states'[p].retries = states[p].retries
          /\ at'[p] = "marked" /\ at[p] = "waiting"
      BY <1>4, MarkDoes DEF Mark
    <2> QED
      BY <1>3, <2>1
  <1>5. ASSUME (Check(p) /\ Accepted(p)) \/ Downloaded(p) PROVE Bound(p)'
    <2>1. /\ states'[p].status = "success" /\ states'[p].retries = states[p].retries
          /\ at'[p] = "ok" /\ at[p] \in {"marked", "request"}
      BY <1>5, SuccessDoes DEF Check, Downloaded, Asking
    <2> QED
      BY <1>3, <2>1
  <1>6. ASSUME Check(p) /\ ~Accepted(p) PROVE Bound(p)'
    <2>1. states' = states /\ at'[p] = "request" /\ at[p] = "marked" /\ attempt'[p] = 1
      BY <1>6, AskDoes DEF Check
    <2> QED
      BY <1>3, <2>1
  <1>7. ASSUME NoPdf(p) \/ WriteFails(p) \/ SaveFails(p) PROVE Bound(p)'
    <2>1. CASE attempt[p] < MaxRetries
      <3>1. /\ at[p] = "request" /\ at'[p] = "request" /\ attempt'[p] = attempt[p] + 1
            /\ states'[p].retries = states[p].retries
            /\ states'[p].status \in {states[p].status, "success"}
        BY <1>3, <1>7, <2>1, FailDoes
      <3> QED
        BY <1>3, <2>1, <3>1
    <2>2. CASE ~(attempt[p] < MaxRetries)
      <3>1. /\ at[p] = "request" /\ at'[p] = "failed" /\ states'[p].status = "failed"
            /\ states'[p].retries = states[p].retries + 1
        BY <1>3, <1>7, <2>2, FailDoes
      <3> QED
        BY <1>3, <3>1
    <2> QED
      BY <2>1, <2>2
  <1>8. Bound(p)'
    BY <1>4, <1>5, <1>6, <1>7 DEF PaperStep, Ended
  <1>9. \A q \in Papers : Bound(q)'
    BY <1>2, <1>8
  <1> QED
    BY <1>9 DEF RetriesBounded

(* Requests stay accounted for: the file that is read at the start of a     *)
(* crawl accounts for those of the crawls before.                           *)
LEMMA RequestsKeeps ==
  ASSUME IInv, Next
  PROVE  RequestsAccounted'
  <1>1. Typed /\ OffMeansForgotten /\ RequestsAccounted /\ lost \in Nat
    BY DEF IInv, Typed
  <1>2. CASE Start
    <2>0. ~on /\ on'
      BY <1>2 DEF Start
    <2>1. /\ states' = disk
          /\ UNCHANGED <<disk, lost, requests, attempt>>
          /\ \A p \in Papers :
               /\ at'[p] \in {"out", "skipped", "waiting"}
               /\ at'[p] = "waiting" => Todo(p)
      BY <1>2 DEF Start
    <2>2. Accounts(disk, lost) /\ \A p \in Papers : at[p] = "out"
      BY <1>1, <2>0 DEF RequestsAccounted, OffMeansForgotten
    <2>3. \A p \in Papers : Uncounted(states, p)' = Uncounted(disk, p)
      <3> TAKE p \in Papers
      <3>1. Uncounted(disk, p) = IF disk[p].status \in {"pending", "failed"} THEN 0 ELSE MaxRetries
        BY <2>2 DEF Uncounted
      <3>2. CASE at'[p] = "waiting"
        BY <2>1, <3>1, <3>2 DEF Uncounted, Todo
      <3>3. CASE at'[p] \in {"out", "skipped"}
        BY <2>1, <3>1, <3>3 DEF Uncounted
      <3> QED
        BY <2>1, <3>2, <3>3
    <2>4. Accounts(states, lost)'
      BY <2>1, <2>2, <2>3 DEF Accounts
    <2>5. RetriesBounded(disk)' /\ RetriesBounded(states)'
      BY <1>1, <2>1 DEF RequestsAccounted, RetriesBounded
    <2>6. \A p \in Papers : at'[p] = "waiting" => states'[p].retries < MaxRetries
      BY <2>1 DEF Todo
    <2>7. disk' = states' /\ \A p \in Papers : at'[p] \notin {"marked", "request"}
      BY <2>1
    <2> QED
      BY <2>0, <2>4, <2>5, <2>6, <2>7 DEF RequestsAccounted
  <1>3. CASE Finish \/ Crash
    <2>1. /\ on /\ ~on' /\ UNCHANGED requests /\ states' = Fresh
          /\ \A p \in Papers : at'[p] = "out"
          /\ \/ disk' = disk /\ lost' = lost
             \/ disk' = Fresh /\ lost' = lost + 1
      BY <1>3 DEF Finish, Crash, Forgotten
    <2> QED
      BY <1>1, <2>1, GoneAccounts
  <1>4. ASSUME NEW p \in Papers, PaperStep(p) PROVE RequestsAccounted'
    <2>1. on /\ on' = on
      BY <1>1, <1>4, PaperStepDoes DEF OffMeansForgotten
    <2>2. ASSUME NEW n \in Nat, Accounts(states, n) PROVE Accounts(states, n)'
      BY <1>1, <1>4, <2>2, PaperAccounts
    <2>3. Accounts(states, lost) /\ Accounts(states, lost + 1)
      BY <1>1, <2>1, MemoryAccounts, LossForgives
    <2>4. \/ disk' = states' /\ lost' \in {lost, lost + 1}
          \/ UNCHANGED <<disk, states, lost>>
          \/ disk' = Fresh /\ lost' = lost + 1
      <3>1. CASE Mark(p)
        BY <1>1, <3>1, MarkDoes DEF Mark
      <3>2. CASE Check(p)
        BY <1>1, <3>2, SuccessDoes, AskDoes DEF Check
      <3>3. CASE Downloaded(p)
        BY <1>1, <3>3, SuccessDoes DEF Downloaded
      <3>4. CASE NoPdf(p) \/ WriteFails(p) \/ SaveFails(p)
        BY <1>1, <3>4, FailDoes
      <3> QED
        BY <1>4, <3>1, <3>2, <3>3, <3>4 DEF PaperStep, Ended
    <2>5. \/ disk' = states' /\ Accounts(states, lost)'
          \/ disk' = Fresh /\ lost' > 0 /\ Accounts(states, lost - 1)'
      <3>1. CASE disk' = states' /\ lost' \in {lost, lost + 1}
        <4>1. \A n \in {lost, lost + 1} : Accounts(states, n)'
          BY <1>1, <2>2, <2>3
        <4> QED
          BY <3>1, <4>1 DEF Accounts
      <3>2. CASE UNCHANGED <<disk, states, lost>>
        <4>1. CASE disk = states
          <5>1. Accounts(states, lost)'
            BY <1>1, <2>2, <2>3, <3>2 DEF Accounts
          <5> QED
            BY <3>2, <4>1, <5>1
        <4>2. CASE disk = Fresh /\ lost > 0 /\ Accounts(states, lost - 1)
          <5>1. lost - 1 \in Nat
            BY <1>1, <4>2
          <5>2. Accounts(states, lost - 1)'
            BY <2>2, <3>2, <4>2, <5>1 DEF Accounts
          <5> QED
            BY <3>2, <4>2, <5>2
        <4> QED
          BY <1>1, <2>1, <4>1, <4>2 DEF RequestsAccounted
      <3>3. CASE disk' = Fresh /\ lost' = lost + 1
        <4>1. lost' > 0 /\ lost' - 1 = lost
          BY <1>1, <3>3
        <4>2. \A n \in {lost} : Accounts(states, n)'
          BY <1>1, <2>2, <2>3
        <4>3. Accounts(states, lost - 1)'
          BY <4>1, <4>2 DEF Accounts
        <4> QED
          BY <3>3, <4>1, <4>3
      <3> QED
        BY <2>4, <3>1, <3>2, <3>3
    <2>6. RetriesBounded(disk)'
      <3>1. RetriesBounded(states)'
        BY <1>1, <1>4, PaperBounds
      <3>2. disk' \in {disk, states', Fresh}
        BY <1>1, <1>4, PaperStepDoes
      <3> QED
        BY <1>1, <3>1, <3>2, FreshFacts, Budgets DEF RequestsAccounted, RetriesBounded
    <2> QED
      BY <1>1, <1>4, <2>1, <2>5, <2>6, PaperBounds DEF RequestsAccounted
  <1> QED
    BY <1>2, <1>3, <1>4 DEF Next, PaperStep
-----------------------------------------------------------------------------
(* The invariant is inductive.                                              *)
LEMMA NextKeepsIInv == IInv /\ [Next]_vars => IInv'
  <1> SUFFICES ASSUME IInv, [Next]_vars PROVE IInv'
    OBVIOUS
  <1>1. CASE Next
    BY <1>1, TypedKeeps, OffKeeps, PermitsKeeps, StrandedKeeps, PdfsKeeps, RequestsKeeps
       DEF IInv
  <1>2. CASE UNCHANGED vars
    BY <1>2 DEF vars, IInv, Typed, OffMeansForgotten, PermitsKept, StrandedFew, PdfsKept,
                RequestsAccounted, InHand, Stranded, Justified, Accepted, RetriesBounded,
                Accounts, Uncounted
  <1> QED
    BY <1>1, <1>2

(* The inductive invariant, over any number of crawls, crashes and failed   *)
(* writes.                                                                  *)
THEOREM Inductive == Spec => []IInv
  BY InitIInv, NextKeepsIInv, PTL DEF Spec

(* What every reachable state satisfies: the permits of the semaphore are   *)
(* never exceeded.                                                          *)
THEOREM NoMoreThanPermits == Spec => []PermitsKept
  <1>1. IInv => PermitsKept
    BY DEF IInv
  <1> QED
    BY <1>1, Inductive, PTL

(* A crawl that dies leaves no more papers "downloading" on disk, never to  *)
(* be offered again, than it had permits.                                   *)
THEOREM CrashesStrandFew == Spec => []CrashStrandsFew
  <1>1. IInv => CrashStrandsFew
    <2> SUFFICES ASSUME IInv PROVE CrashStrandsFew
      OBVIOUS
    <2> DEFINE Lost == {p \in Papers \ InHand : disk[p].status = "downloading"}
    <2>1. Lost \subseteq Stranded /\ Stranded \in SUBSET Papers
      BY DEF Stranded
    <2>2. Cardinality(Lost) <= Cardinality(Stranded)
      BY <2>1, FS_Subset, HandsAreFinite
    <2>3. Cardinality(Lost) \in Nat /\ Cardinality(Stranded) \in Nat
      BY <2>1, HandsAreFinite
    <2>4. Cardinality(Stranded) <= MaxConcurrent * crashes /\ MaxConcurrent * crashes \in Nat
      BY HandsAreFinite DEF IInv, StrandedFew, Typed
    <2>5. Cardinality(Lost) <= MaxConcurrent * crashes
      <3> HIDE DEF Lost
      <3> QED
        BY <2>2, <2>3, <2>4
    <2> QED
      BY <2>5 DEF CrashStrandsFew
  <1> QED
    BY <1>1, Inductive, PTL

(* What the state file calls a success has its PDF, whatever crashes there  *)
(* were, and after one failed write as well.                                *)
THEOREM SuccessesHavePdfs == Spec => []SuccessHasPdf
  <1>1. IInv => SuccessHasPdf
    BY DEF IInv, PdfsKept, Justified, SuccessHasPdf, Succeeded
  <1> QED
    BY <1>1, Inductive, PTL

(* The requests for a paper are bounded, whatever the number of crawls,     *)
(* crashes and failed writes: only the loss of the state file allows more.  *)
THEOREM RequestsAreBounded == Spec => []RequestsBounded
  <1>1. IInv => RequestsBounded
    <2> SUFFICES ASSUME IInv, NEW p \in Papers
                 PROVE  requests[p] <= MaxRetries * MaxRetries * (1 + lost)
      BY DEF RequestsBounded
    <2>1. Typed /\ RequestsAccounted /\ OffMeansForgotten /\ lost \in Nat
      BY DEF IInv, Typed
    <2>2. requests[p] <= PerLosses(lost + 1)
      <3>1. CASE on
        BY <2>1, <3>1, MemoryAccounts
      <3>2. CASE ~on
        <4>1. requests[p] <= PerLosses(lost) + PerRetries(disk[p].retries) + Uncounted(disk, p)
          BY <2>1, <3>2 DEF RequestsAccounted, Accounts
        <4>2. /\ disk[p].retries \in Nat /\ disk[p].retries <= MaxRetries
              /\ disk[p].status \in Statuses /\ requests[p] \in Nat
          BY <2>1 DEF RequestsAccounted, RetriesBounded, Typed, Records
        <4>3. /\ Uncounted(disk, p) \in {0, MaxRetries}
              /\ Uncounted(disk, p) # 0 => disk[p].retries < MaxRetries
          BY <2>1, <3>2, <4>2 DEF OffMeansForgotten, Uncounted, RequestsAccounted,
                                  RetriesBounded, Statuses
        <4>4. PerRetries(disk[p].retries) + Uncounted(disk, p) <= PerLosses(1)
          <5>1. CASE disk[p].retries < MaxRetries
            <6>1. disk[p].retries + 1 \in Nat /\ disk[p].retries + 1 <= MaxRetries
              BY <4>2, <5>1, CrawlAssumption
            <6>2. PerRetries(disk[p].retries) + MaxRetries <= PerLosses(1)
              BY <6>1, <4>2, Budgets
            <6>3. PerRetries(disk[p].retries) \in Nat /\ PerLosses(1) \in Nat
                  /\ MaxRetries \in Nat
              BY <4>2, Budgets
            <6> QED
              BY <4>3, <6>2, <6>3
          <5>2. CASE ~(disk[p].retries < MaxRetries)
            <6>1. PerRetries(disk[p].retries) <= PerLosses(1)
              BY <4>2, Budgets
            <6>2. PerRetries(disk[p].retries) \in Nat /\ PerLosses(1) \in Nat
              BY <4>2, Budgets
            <6> QED
              BY <4>3, <5>2, <6>1, <6>2
          <5> QED
            BY <5>1, <5>2
        <4>5. /\ PerLosses(lost) \in Nat /\ PerLosses(1) \in Nat /\ MaxRetries \in Nat
              /\ PerLosses(lost + 1) = PerLosses(lost) + PerLosses(1)
              /\ PerRetries(disk[p].retries) \in Nat
          BY <2>1, <4>2, Budgets
        <4> HIDE DEF Uncounted
        <4> QED
          BY <4>1, <4>2, <4>3, <4>4, <4>5
      <3> QED
        BY <3>1, <3>2
    <2>3. PerLosses(lost + 1) = MaxRetries * MaxRetries * (1 + lost)
      BY <2>1 DEF PerLosses
    <2> QED
      BY <2>2, <2>3
  <1> QED
    BY <1>1, Inductive, PTL
=============================================================================
