---------------------------- MODULE ArxivPolite -----------------------------
(***************************************************************************)
(* The downloads of PDFs from arXiv: pdf_download nodes, each of which     *)
(* takes its papers one by one through ArxivPDFAgent, whose lock and time  *)
(* of the last request are attributes of the class, one per process.       *)
(*                                                                         *)
(* Nodes run in one event loop (max_workers = 0) or, by default, each in a *)
(* process of its own.  Time is kept as ages that stop growing when they   *)
(* no longer matter.  asyncio.Lock is first come, first served; the model  *)
(* lets any waiter go first.  What follows a redirect, and the agents      *)
(* tried when this one fails, are left out.                                *)
(***************************************************************************)
EXTENDS Naturals, Sequences

CONSTANTS
  Nodes,        (* pdf_download nodes of a level                             *)
  InProcess,    (* TRUE iff they share one process                           *)
  Papers,       (* papers with an arXiv URL that each node is given          *)
  MinInterval,  (* _MIN_INTERVAL_SEC                                         *)
  Backoffs,     (* _BACKOFF_SCHEDULE_SEC                                     *)
  Horizon,      (* bound: the age up to which the last request is followed   *)
  StopBound     (* bound: nodes timed out                                    *)

ASSUME PoliteAssumption ==
  /\ InProcess \in BOOLEAN
  /\ {Papers, MinInterval, Horizon, StopBound} \subseteq Nat
  /\ MinInterval <= Horizon
  /\ Backoffs \in Seq(Nat) /\ \A i \in DOMAIN Backoffs : Backoffs[i] >= MinInterval

VARIABLES
  at,       (* where each node is: between papers, waiting for _global_lock, *)
            (* asleep, or waiting for arXiv                                  *)
  left,     (* papers it has still to begin                                  *)
  host,     (* 1 for the first host it tries, 2 for the other                *)
  attempt,  (* requests made to this host for this paper                     *)
  sleep,    (* what is left of its sleep                                     *)
  since,    (* age of its process's _last_request_time                       *)
  gap,      (* history: age of the last request by any node                  *)
  refused,  (* history: arXiv answered that one with 403, 503 or 429         *)
  stops     (* nodes timed out so far                                        *)

vars == <<at, left, host, attempt, sleep, since, gap, refused, stops>>

Holding == {"asleep", "sent"}
Mates(n) == IF InProcess THEN Nodes ELSE {n}

Go(n, stage) == at' = [at EXCEPT ![n] = stage]

(* time.monotonic() is long past the start of the machine: a class just     *)
(* loaded, whose last request is at 0, does not wait.                       *)
Init ==
  /\ at = [n \in Nodes |-> "idle"]
  /\ left = [n \in Nodes |-> Papers]
  /\ host = [n \in Nodes |-> 1]
  /\ attempt = [n \in Nodes |-> 0]
  /\ sleep = [n \in Nodes |-> 0]
  /\ since = [n \in Nodes |-> MinInterval]
  /\ gap = Horizon /\ refused = FALSE /\ stops = 0
-----------------------------------------------------------------------------
(* run_agent's next paper.                                                  *)
Begin(n) ==
  /\ at[n] = "idle" /\ left[n] > 0
  /\ Go(n, "lock")
  /\ left' = [left EXCEPT ![n] = @ - 1]
  /\ host' = [host EXCEPT ![n] = 1]
  /\ UNCHANGED <<attempt, sleep, since, gap, refused, stops>>

(* Faulty variant: the time since the last request is read before the lock  *)
(* is there.                                                                *)
AcquireUnlocked(n) ==
  /\ at[n] = "lock"
  /\ Go(n, "asleep")
  /\ attempt' = [attempt EXCEPT ![n] = 0]
  /\ sleep' = [sleep EXCEPT ![n] = MinInterval - since[n]]
  /\ UNCHANGED <<left, host, since, gap, refused, stops>>

(* The lock; then a sleep for the rest of the interval, worked out once.    *)
Acquire(n) ==
  /\ at[n] = "lock"
  /\ \A m \in Mates(n) : at[m] \notin Holding
  /\ Go(n, "asleep")
  /\ attempt' = [attempt EXCEPT ![n] = 0]
  /\ sleep' = [sleep EXCEPT ![n] = MinInterval - since[n]]
  /\ UNCHANGED <<left, host, since, gap, refused, stops>>

(* The sleep is over: _last_request_time is set and the request goes out.   *)
Send(n) ==
  /\ at[n] = "asleep" /\ sleep[n] = 0
  /\ Go(n, "sent")
  /\ attempt' = [attempt EXCEPT ![n] = @ + 1]
  /\ since' = [m \in Nodes |-> IF m \in Mates(n) THEN 0 ELSE since[m]]
  /\ gap' = 0
  /\ UNCHANGED <<left, host, sleep, refused, stops>>

(* The PDF is written; or the write fails, which nothing in the agent       *)
(* catches: the paper is given up without the other host.                   *)
Answered(n) ==
  /\ at[n] = "sent"
  /\ Go(n, "idle")
  /\ refused' = FALSE
  /\ UNCHANGED <<left, host, attempt, sleep, since, gap, stops>>

(* Faulty variant: a host given up is followed by the other, for ever.      *)
RefusedTurns(n) ==
  /\ at[n] = "sent"
  /\ refused' \in BOOLEAN
  /\ \/ /\ attempt[n] <= Len(Backoffs)
        /\ Go(n, "asleep")
        /\ sleep' = [sleep EXCEPT ![n] = Backoffs[attempt[n]]]
        /\ UNCHANGED host
     \/ /\ attempt[n] > Len(Backoffs)
        /\ Go(n, "lock")
        /\ host' = [host EXCEPT ![n] = 3 - @]
        /\ UNCHANGED sleep
  /\ UNCHANGED <<left, attempt, since, gap, stops>>

(* A refusal, an error, no PDF or no answer within the time-out: the next   *)
(* backoff, with the lock held; or, after the last, the other host, which   *)
(* needs the lock anew; or the end of this paper.                           *)
Refused(n) ==
  /\ at[n] = "sent"
  /\ refused' \in BOOLEAN
  /\ \/ /\ attempt[n] <= Len(Backoffs)
        /\ Go(n, "asleep")
        /\ sleep' = [sleep EXCEPT ![n] = Backoffs[attempt[n]]]
        /\ UNCHANGED host
     \/ /\ attempt[n] > Len(Backoffs)
        /\ IF host[n] = 1
           THEN Go(n, "lock") /\ host' = [host EXCEPT ![n] = 2]
           ELSE Go(n, "idle") /\ UNCHANGED host
        /\ UNCHANGED sleep
  /\ UNCHANGED <<left, attempt, since, gap, stops>>

(* The node times out and is tried again from its first paper: its          *)
(* coroutine is cancelled and the lock let go; or its process is killed and *)
(* a fresh one remembers nothing.                                           *)
Stop(n) ==
  /\ at[n] # "idle" /\ stops < StopBound
  /\ stops' = stops + 1
  /\ Go(n, "idle")
  /\ left' = [left EXCEPT ![n] = Papers]
  /\ since' = [since EXCEPT ![n] = IF InProcess THEN @ ELSE MinInterval]
  /\ UNCHANGED <<host, attempt, sleep, gap, refused>>

Tick ==
  /\ sleep' = [n \in Nodes |-> IF sleep[n] > 0 THEN sleep[n] - 1 ELSE 0]
  /\ since' = [n \in Nodes |->
                 IF since[n] < MinInterval THEN since[n] + 1 ELSE MinInterval]
  /\ gap' = IF gap < Horizon THEN gap + 1 ELSE Horizon
  /\ UNCHANGED <<at, left, host, attempt, refused, stops>>

Step(n) == Acquire(n) \/ Send(n) \/ Answered(n) \/ Refused(n)

Next == Tick \/ \E n \in Nodes : Begin(n) \/ Step(n) \/ Stop(n)

(* The clock goes on; the event loop runs what can run; a request ends,     *)
(* because httpx has a time-out (_DOWNLOAD_TIMEOUT_SEC).                    *)
Spec ==
  /\ Init /\ [][Next]_vars
  /\ WF_vars(Tick) /\ \A n \in Nodes : WF_vars(Step(n))
-----------------------------------------------------------------------------
Sends(n) == at[n] = "asleep" /\ at'[n] = "sent"

(* ">= 3s between requests" (arxiv_pdf.py, the module's docstring), whoever *)
(* makes them: retries, the other host and other nodes included.            *)
GapKept == [][\A n \in Nodes : Sends(n) => gap >= MinInterval]_vars

(* "serial requests (process-wide singleton lock)" (the same docstring).    *)
OneRequestAtATime ==
  \A m, n \in Nodes : at[m] = "sent" /\ at[n] = "sent" => m = n

(* "403/503 -> exponential backoff (30s, 60s, 120s)" (the same docstring):  *)
(* no request follows a refusal sooner than the first of these.             *)
RefusalBacksOff == [][\A n \in Nodes : Sends(n) /\ refused => gap >= 30]_vars

(* No download goes on for ever, nor waits for ever for the lock that is    *)
(* held through the backoffs of others.                                     *)
EveryDownloadEnds == \A n \in Nodes : at[n] # "idle" ~> at[n] = "idle"
=============================================================================
