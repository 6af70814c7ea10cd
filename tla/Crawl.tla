------------------------------- MODULE Crawl -------------------------------
(***************************************************************************)
(* The resumable conference crawl of ICLRCrawler: crawls over one output   *)
(* directory, one after the other, with the state file, the PDFs and the   *)
(* list of metadata they leave for each other.                             *)
(*                                                                         *)
(* A paper the state file does not have is one that is pending and never   *)
(* failed, so a file that is missing or not JSON reads as Fresh; metadata  *)
(* that are not JSON read as none.  A PDF of up to 1000 bytes is as good   *)
(* as "none".  The search is a choice of papers; the sleeps after and      *)
(* between requests are left out; a waiter for a permit is any waiter.     *)
(***************************************************************************)
EXTENDS Naturals, FiniteSets

CONSTANTS
  Papers,         (* what a search may find                                  *)
  NoUrl,          (* the ones without a pdf_url                              *)
  MaxConcurrent,  (* config.max_concurrent                                   *)
  MaxRetries,     (* config.max_retries                                      *)
  RunBound,       (* bound: crawls                                           *)
  CrashBound,     (* bound: crawls that die                                  *)
  FaultBound      (* bound: writes that fail                                 *)

ASSUME CrawlAssumption ==
  /\ NoUrl \subseteq Papers /\ IsFiniteSet(Papers)
  /\ MaxConcurrent \in Nat \ {0} /\ MaxRetries \in Nat \ {0}

VARIABLES
  disk,      (* crawl_state.json: status and retries of each paper           *)
  states,    (* CrawlStateManager.states                                     *)
  pdf,       (* each paper's file: none, cut short or whole                  *)
  metadata,  (* papers listed in metadata.json                               *)
  on,        (* a crawl is under way                                         *)
  at,        (* in this crawl, a paper is not found, skipped, waiting for a  *)
             (* permit, marked, being requested, or done: ok or failed       *)
  attempt,   (* requests made for it in this crawl                           *)
  runs, crashes, faults,
  lost,      (* history: times the state file was lost                       *)
  requests   (* history: requests made for each paper                        *)

vars == <<disk, states, pdf, metadata, on, at, attempt, runs, crashes, faults,
          lost, requests>>

Fresh == [p \in Papers |-> [status |-> "pending", retries |-> 0]]
Accepted(p) == p \in NoUrl \/ pdf[p] # "none"
Succeeded(s) == {p \in Papers : s[p].status = "success"}

(* The downloads that hold one of the semaphore's permits.                  *)
InHand == {p \in Papers : at[p] \in {"marked", "request"}}

(* The crawler goes away: what it had in memory is gone.                    *)
Forgotten ==
  /\ on' = FALSE /\ states' = Fresh
  /\ at' = [p \in Papers |-> "out"]
  /\ attempt' = [p \in Papers |-> 0]

Init ==
  /\ disk = Fresh /\ states = Fresh
  /\ pdf = [p \in Papers |-> "none"]
  /\ metadata = {} /\ on = FALSE
  /\ at = [p \in Papers |-> "out"]
  /\ attempt = [p \in Papers |-> 0]
  /\ runs = 0 /\ crashes = 0 /\ faults = 0 /\ lost = 0
  /\ requests = [p \in Papers |-> 0]
-----------------------------------------------------------------------------
(* get_todo.                                                                *)
Todo(p) == disk[p].status \in {"pending", "failed"} /\ disk[p].retries < MaxRetries

(* Faulty variant: every paper to do is marked before the first download.   *)
StartMarksAll ==
  /\ ~on /\ runs < RunBound
  /\ on' = TRUE /\ runs' = runs + 1
  /\ \E found \in SUBSET Papers :
       /\ at' = [p \in Papers |-> IF p \notin found THEN "out"
                                  ELSE IF Todo(p) THEN "waiting" ELSE "skipped"]
       /\ states' = [p \in Papers |-> IF p \in found /\ Todo(p)
                                      THEN [disk[p] EXCEPT !.status = "downloading"]
                                      ELSE disk[p]]
  /\ disk' = states'
  /\ UNCHANGED <<attempt, pdf, metadata, crashes, faults, lost, requests>>

(* The state file is read, the search finds some papers, and those already  *)
(* done are skipped.                                                        *)
Start ==
  /\ ~on /\ runs < RunBound
  /\ on' = TRUE /\ runs' = runs + 1
  /\ \E found \in SUBSET Papers :
       at' = [p \in Papers |-> IF p \notin found THEN "out"
                               ELSE IF Todo(p) THEN "waiting" ELSE "skipped"]
  /\ states' = disk
  /\ UNCHANGED <<attempt, disk, pdf, metadata, crashes, faults, lost, requests>>

(* A permit, and mark_downloading.  Up to the first request the task does   *)
(* not await: nobody else moves while a paper is "marked".                  *)
Mark(p) ==
  /\ at[p] = "waiting"
  /\ Cardinality(InHand) < MaxConcurrent
  /\ \A q \in Papers : at[q] # "marked"
  /\ at' = [at EXCEPT ![p] = "marked"]
  /\ states' = [states EXCEPT ![p].status = "downloading"]
  /\ disk' = states'
  /\ UNCHANGED <<pdf, metadata, on, attempt, runs, crashes, faults, lost, requests>>

(* Nothing to fetch, or fetched earlier: success; or the first request.     *)
Check(p) ==
  /\ at[p] = "marked"
  /\ IF Accepted(p)
     THEN /\ at' = [at EXCEPT ![p] = "ok"]
          /\ states' = [states EXCEPT ![p].status = "success"]
          /\ disk' = states'
          /\ UNCHANGED <<attempt, requests>>
     ELSE /\ at' = [at EXCEPT ![p] = "request"]
          /\ attempt' = [attempt EXCEPT ![p] = 1]
          /\ requests' = [requests EXCEPT ![p] = @ + 1]
          /\ UNCHANGED <<states, disk>>
  /\ UNCHANGED <<pdf, metadata, on, runs, crashes, faults, lost>>

Asking(p) == at[p] = "request" /\ \A q \in Papers : at[q] # "marked"

(* Faulty variant: an answer of any size is taken for a PDF.                *)
DownloadedAnything(p) ==
  /\ Asking(p)
  /\ \E size \in {"none", "whole"} : pdf' = [pdf EXCEPT ![p] = size]
  /\ at' = [at EXCEPT ![p] = "ok"]
  /\ states' = [states EXCEPT ![p].status = "success"]
  /\ disk' = states'
  /\ UNCHANGED <<metadata, on, attempt, runs, crashes, faults, lost, requests>>

(* The answer is a PDF: it is written, then mark_success.                   *)
Downloaded(p) ==
  /\ Asking(p)
  /\ pdf' = [pdf EXCEPT ![p] = "whole"]
  /\ at' = [at EXCEPT ![p] = "ok"]
  /\ states' = [states EXCEPT ![p].status = "success"]
  /\ disk' = states'
  /\ UNCHANGED <<metadata, on, attempt, runs, crashes, faults, lost, requests>>

(* Faulty variant: mark_failed leaves the number of retries as it was.      *)
AgainForgiven(p, mem, file) ==
  \/ /\ attempt[p] < MaxRetries
     /\ attempt' = [attempt EXCEPT ![p] = @ + 1]
     /\ requests' = [requests EXCEPT ![p] = @ + 1]
     /\ states' = mem /\ disk' = file
     /\ UNCHANGED at
  \/ /\ attempt[p] = MaxRetries
     /\ at' = [at EXCEPT ![p] = "failed"]
     /\ states' = [mem EXCEPT ![p].status = "failed"]
     /\ disk' = states'
     /\ UNCHANGED <<attempt, requests>>

(* An attempt has failed and left the states in memory and on disk as given *)
(* here: the next request, or mark_failed after the last.                   *)
Again(p, mem, file) ==
  \/ /\ attempt[p] < MaxRetries
     /\ attempt' = [attempt EXCEPT ![p] = @ + 1]
     /\ requests' = [requests EXCEPT ![p] = @ + 1]
     /\ states' = mem /\ disk' = file
     /\ UNCHANGED at
  \/ /\ attempt[p] = MaxRetries
     /\ at' = [at EXCEPT ![p] = "failed"]
     /\ states' = [mem EXCEPT ![p] = [status |-> "failed", retries |-> @.retries + 1]]
     /\ disk' = states'
     /\ UNCHANGED <<attempt, requests>>

(* An error, a time-out, or an answer too small to be a PDF.                *)
NoPdf(p) ==
  /\ Asking(p)
  /\ Again(p, states, disk)
  /\ UNCHANGED <<pdf, metadata, on, runs, crashes, faults, lost>>

(* The PDF cannot be written to its end; that counts as a failed attempt.   *)
WriteFails(p) ==
  /\ Asking(p) /\ faults < FaultBound
  /\ faults' = faults + 1
  /\ \E left \in {"none", "cut"} : pdf' = [pdf EXCEPT ![p] = left]
  /\ Again(p, states, disk)
  /\ UNCHANGED <<metadata, on, runs, crashes, lost>>

(* The PDF is there and mark_success fails to save: its try block takes     *)
(* this for a failed attempt, with the state in memory already "success".   *)
SaveFails(p) ==
  /\ Asking(p) /\ faults < FaultBound
  /\ faults' = faults + 1 /\ lost' = lost + 1
  /\ pdf' = [pdf EXCEPT ![p] = "whole"]
  /\ Again(p, [states EXCEPT ![p].status = "success"], Fresh)
  /\ UNCHANGED <<metadata, on, runs, crashes>>

AllDone == \A p \in Papers : at[p] \in {"out", "skipped", "ok", "failed"}

(* gather returned; this crawl's successes join the list.                   *)
Finish ==
  /\ on /\ AllDone
  /\ metadata' = metadata \cup {p \in Papers : at[p] = "ok"}
  /\ Forgotten
  /\ UNCHANGED <<disk, pdf, runs, crashes, faults, lost, requests>>

(* The process dies, or a save outside the try blocks raises.  A file it    *)
(* was writing is cut off: the state file, the list or a PDF, which may     *)
(* also be complete and not yet marked.                                     *)
Crash ==
  /\ on /\ crashes < CrashBound
  /\ crashes' = crashes + 1
  /\ Forgotten
  /\ \/ UNCHANGED <<disk, lost, metadata, pdf>>
     \/ /\ ~AllDone
        /\ disk' = Fresh /\ lost' = lost + 1
        /\ UNCHANGED <<metadata, pdf>>
     \/ /\ AllDone
        /\ metadata' = {}
        /\ UNCHANGED <<disk, lost, pdf>>
     \/ \E p \in Papers, left \in {"none", "cut", "whole"} :
          /\ Asking(p)
          /\ pdf' = [pdf EXCEPT ![p] = left]
          /\ \/ UNCHANGED <<disk, lost>>
             \/ left = "whole" /\ disk' = Fresh /\ lost' = lost + 1
          /\ UNCHANGED metadata
  /\ UNCHANGED <<runs, faults, requests>>

Ended(p) == Downloaded(p) \/ NoPdf(p) \/ WriteFails(p) \/ SaveFails(p)

Next ==
  \/ Start \/ Finish \/ Crash
  \/ \E p \in Papers : Mark(p) \/ Check(p) \/ Ended(p)

Spec == Init /\ [][Next]_vars
-----------------------------------------------------------------------------
(* "skipped (already done)" (crawler.py's log): what a crawl skips has been *)
(* downloaded, or given up after all its retries.                           *)
SkippedMeansDone ==
  \A p \in Papers : at[p] = "skipped" => states[p].status \in {"success", "failed"}

(* A paper left "downloading" is never offered again; a crawl that dies     *)
(* leaves no more of them than it had permits.                              *)
CrashStrandsFew ==
  Cardinality({p \in Papers \ InHand : disk[p].status = "downloading"})
    <= MaxConcurrent * crashes

(* What the state file calls a success has its PDF, whatever crashes there  *)
(* were, and after one failed write as well.                                *)
SuccessHasPdf ==
  faults = 0 \/ faults + crashes = 1 => \A p \in Succeeded(disk) : Accepted(p)

(* A paper that cannot be had is not asked for again and again, however     *)
(* many crawls there are: retries are counted in the state file, so only    *)
(* its loss starts them anew.                                               *)
RequestsBounded ==
  \A p \in Papers : requests[p] <= MaxRetries * MaxRetries * (1 + lost)
=============================================================================
