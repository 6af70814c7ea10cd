# A TLA+ model of PARNESS

PARNESS runs research pipelines: YAML documents whose nodes are modules (crawl,
parse, summarise, generate ideas, judge, experiment, write) and whose routes,
dependencies and retries decide what runs next. This directory holds TLA+
modules for the parts of it that have a protocol of their own, TLC
configurations that check them on small instances, and TLAPS proofs of what
holds for every instance.

```
tlc -config MCGraphRunner.cfg MCGraphRunner.tla    # one model-checking run
tlapm GraphRunnerProofs.tla                    # the proofs about the runner and its documents
tlapm LLMDispatchProofs.tla                    #   the LLM slot
tlapm PaperLayersProofs.tla                    #   the layer pipelines
tlapm AsyncRWLockProofs.tla                    #   the read-write lock
tlapm ArxivPoliteProofs.tla                    #   the downloads from arXiv
tlapm IdeaRoundsProofs.tla                     #   the gates' state files
tlapm CrawlProofs.tla                          #   the conference crawler
tlapm PekDaemonProofs.tla                      #   the parser daemon
```

`PROJECT.json` lists components, runs, the faulty variants every property is
tried against, the source lines of every definition, findings and hazards.

## 1. Inventory

| Component | State | Operations | Hard part | Correct when |
|---|---|---|---|---|
| **GraphRunner** `src/orchestrator/iteration/graph_runner.py` | completed and failed nodes, counts, recorded routes and fan-out lists, ready set, round number; per node a coroutine, an attempt, a subprocess, a semaphore permit | `run`, `_execute_graph`, `_execute_level`, `_resolve_next_ready`, `_process_node_result` | nodes of a level run concurrently; retries, timeouts, dead subprocesses; routes that loop; missing dependencies pulled in | nodes run after their dependencies, nothing is forgotten or run twice without a route, permits return, `run` returns |
| **Pipeline documents** `iteration/graph.py`, `config/pipelines/*.yaml` | none | `from_dict` | wiring: nested loops, joins, taps | no dead end; the result node runs last; taps miss nothing |
| **Iteration controllers** `adapters/iteration_controllers.py` | none of their own: what the runner hands back | `execute` | state that must survive a fresh subprocess | loop ends neither early nor late |
| **LLM dispatcher** `src/llm_dispatcher` | queue counter, semaphore, time stamps, attempts | `acquire`, `release`, limiter, retry | interleavings, cancellation, a sleep under a lock | limits kept, no slot lost, every call decided |
| **PEK daemon** `src/pdf_parser/daemon`, `adapters/pek_*.py` | socket, state file, process, shutdown flag | start, stop, parse, ping, signals | check-then-fork, stale state file, old daemon's clean-up against a new daemon | one live daemon; its files are its own |
| **IdeaScheduler** `src/idea_scheduler` | ideas, queue and history files | submit, mark, record | crashes between writes | no idea stranded |
| **PDF queue** `src/pdf_queue`, feeder | cursor and statuses in a file | next, mark, rescan | crash after dispatch | each PDF handled |
| **AsyncRWLock** `src/idea_agents/concurrency.py` | readers, writer, waiting writers | acquire, release | writer priority, cancellation | exclusion, progress |
| **Decision controller, gate** `iteration/controller.py`, `gate.py`, `state.py` | attempt history, best score | decide | legacy loop ends | bounded attempts |
| **File-state gates** `adapters/round_controller.py`, `experiment_success_gate.py`, `summary_accumulator.py`, `idea_counter.py` | counters in JSON files | execute | files outlive the run | counts are of this run |
| **Experiment loop** `src/experiment_runner` | best result, stagnation count | improve, execute | early stop | best kept |
| **Knowledge store** `src/idea_agents/store.py` | hot and archive files | save, merge | crash between two writes | nothing lost or doubled |
| **Monitoring** `orchestrator/monitoring`, `src/monitoring` | state file, watcher snapshots | emit, poll | throttled writes | final state visible |
| **Feeders, allocators** `adapters/parsed_folder_freshness_feeder.py`, `paper_id_allocator.py`, `pdf_mover.py` | folders, database rows | scan, claim, move | two processes | each paper once |
| **arXiv PDF agent** `src/crawler/pdf_agents/arxiv_pdf.py` | a lock and the time of the last request, per process | `download`, `_polite_download` | many download nodes, retries and a second host under one interval | the interval is kept, downloads end |
| **Conference crawler** `src/iclr_crawler` | state file, PDFs, list of metadata | `crawl`, `_download_one`, the `mark_*` | resuming after a crash between two of the three | nothing stranded, unlisted or asked for for ever |
| Searches, LLM providers, agents' prompts, PDF-Extract-Kit, databases, scripts | - | - | I/O, vendored or stateless | not modelled |

How they meet: `GraphRunner` starts every module in a fresh subprocess, hands it
resolved inputs and reads one answer from a queue. The answer's `_route`,
`_routes` and `_score` are the only things that steer the runner. Everything
else a module wants to remember goes through its outputs or through files: that
is why the gates keep JSON files, and why the controllers (below) forget.
Modules may call LLMs through providers or the dispatcher, parse PDFs through
the PEK daemon, and store ideas with the scheduler and the knowledge store.

The hazards (`PROJECT.json`, "hazards") are listed by line, each with the
properties that cover it, or with the reason why none does. Five more that lie
outside of what is modelled are named at the end of section 7.

## 2. Modules

| Module | What it is |
|---|---|
| `TaskGraph` | what the runner promises: start only with dependencies complete, never after a recorded failure, records only grow |
| `GraphRunner` | `run()`: rounds, one coroutine per ready node, subprocesses, retries, semaphore, routing, stop decisions; refines `TaskGraph` |
| `GraphRunnerProofs` | TLAPS proofs about it, then about the documents and controllers it runs (they share its lemmas) |
| `SmallGraphs` | 256 route-free graphs over four nodes |
| `PipelineDocs` | `from_dict` and the defaults of a document; `max_rounds` is the constant `MaxRounds` |
| `IdeaLoops` | the README's loop, the shipped idea loop, a fan-out loop |
| `PaperPipeline` | `auto_idea_to_paper.yaml` |
| `IterationControllers`, `MCIterationControllers` | a controlled loop: runner actions conjoined with what the controller answers; the controllers and parameters TLC tries |
| `MCGraphRunner` | all of these graphs together, one of them given to the runner |
| `IdeaRounds`, `IdeaRoundsProofs` | the JSON state files of `auto_idea_to_paper`'s three gates, over several runs, and proofs |
| `PaperLayers`, `PaperLayersProofs` | the parse, title and database layers over the shared folder, and proofs |
| `PekDaemon`, `PekDaemonProofs` | the parser daemon and the nodes that start, use and stop it, and proofs about one pipeline of them |
| `LLMDispatch`, `LLMDispatchProofs` | one provider slot, and proofs about it |
| `AsyncRWLock`, `AsyncRWLockProofs` | the lock of `JsonIdeaStore`, and proofs |
| `ArxivPolite`, `MCArxivPolite`, `ArxivPoliteProofs` | download nodes asking arXiv, in one process or in several, and proofs about the first |
| `Crawl`, `CrawlProofs` | the conference crawler over several crawls of one directory, and proofs |

Composition: `SmallGraphs`, `IdeaLoops`, `PaperPipeline` and
`IterationControllers` extend `GraphRunner` (the last three through
`PipelineDocs`) and run it on their documents. `MCGraphRunner` extends all four.
`IdeaRounds` is what the gates of `PaperPipeline` remember, with the runner's
part reduced to the order of the nodes. `PaperLayers` uses a daemon that is up
or down and parses in order; `PekDaemon` is its life cycle.

### GraphRunner

`graph` is the argument, chosen from `Graphs`. `completed`, `failed`, `count`,
`route`, `multi` are the fields of `_TopologyContext` that decide anything;
outputs, scores and metadata decide nothing in the runner and are left out.
`task[n]` is where the coroutine `_run_node(n)` stands:

| Code | Action |
|---|---|
| head of the `while` in `_execute_graph`, creation of the level's coroutines and semaphore | `BeginRound` |
| `_check_dependencies`, the module-less node | `BeginNode` |
| `semaphore.acquire`, process start | `Dispatch` |
| `_worker_execute`, `_subprocess_main`: answer, reported exception, or silence | `ChildEnds` |
| `_collect`, `_process_node_result` | `CollectResult` |
| error or timeout with attempts left, or without | `Retry`, `GiveUp` |
| `_backoff_delay` | `BackoffOver` |
| `gather` returned, failure check, `_resolve_next_ready` | `EndRound` |
| loop test false | `Finish` |

A step of the model is what asyncio runs between two awaits; coroutines of a
level interleave at every await. A subprocess may answer, report an exception or
die silently (killed, or an answer that cannot be pickled); `q.get` notices
silence only where a timeout is set. The runner keeps a recorded route or list
when a later answer has none: `CollectResult` does the same.

Left out: in-process mode (`max_workers=0`, same control flow without the
process), the five-second `join` of a finished process, the size of the thread
pool that `_collect` blocks, dispatcher hooks and logging.

### IterationControllers

The module adds to the runner's state the controller's parameters (`None` in a
graph without one, where `LoopSpec` is the runner's `Spec`) and the score of the
generator, and constrains `CollectResult` of the two nodes: the generator
answers any score or none, the controller answers what its `execute` computes
from what `_resolve_inputs` gives it (the latest recorded `_score`, one less than
its count of executions) and from the defaults of what `_process_node_result`
dropped. `lastSeen` and `stalled` are history variables no action reads.
The scores' granularity is coarser than `min_delta`.

### LLMDispatch

`Enter`, `Admit`, `GiveUpWaiting` are `ConcurrencyGuard.acquire`; `Limit`,
`FallAsleep`, `Wake`, `Pass` are `RateLimiter.acquire`, with the wait worked out
before the sleep; `Fault`, `Resend`, `Answered` are `RetryPolicy.execute`;
`Leave` is the `finally` of `_dispatch`. Real time is a `Tick` that ages the
stamps, capped at the window, so the state space is finite without a bound on
time. `Cancellable` says whether callers cancel; nothing in the repository
cancels a dispatcher call today, but the slot is an asyncio API whose callers
may. asyncio's queues are FIFO; the model lets any waiter go first, so what
holds here holds there. Left out: registration of slots, merging of provider
configs, the length of a backoff, and the clock resolution by which a timer may
fire early.

### PekDaemon

`pc[d]` is the next statement of `PEKDaemon.run` in process `d`; `file` is
`state.json` (renamed into place, so never torn), `path` the daemon whose socket
file is at the socket path, `backlog[d]` its listen queue, `job[d]` the
connection it serves, `quit[d]` its `_shutdown_event`.

| Code | Action |
|---|---|
| `run`: unlink the path; `_write_initial_state`; `_load_engine`; `_open_socket`; "ready" | `Boot`, `WriteInitialState`, `LoadEngine`, `OpenSocket`, `Announce` |
| `_serve_forever`, `_handle_client`, `_do_parse` | `CheckQuit`, `Accept` (with `HandleShutdown`), `FinishParse` |
| `finally` of `run` | `Leave`, `TeardownSocket`, `ClearState` |
| `_handle_signal`, `_poke_self`; SIGKILL | `Signal`; `Die` |
| `PEKClient._call`: connect, refused, time-out, answer or EOF | `Connect`, `Refused`, `GiveUp`, `Delivers` |
| `pek_start`: check, ping, spawn | `StartRead`, `StartConnect`, `StartReuse`, `StartSpawn` |
| `_wait_until_ready`: `proc.poll()`, then `read_state()`; its deadline | `StartPoll`, `StartReadState`; `StartTimeout` |
| `_terminate` | `StartTerminate`, `StartReap`, `StartKill` |
| `pek_stop` | `StopRead` ... `StopClear` |
| `pek_parse` | `ParseBegin`, `ParseConnect`, `ParseAnswered` |
| the process of a node is killed: by the runner (`p.terminate` on the node's time-out) or with the pipeline | `Killed` |

A caller is a pipeline that executes these nodes in any order, one at a time,
and again after a node of its was killed at any statement. The daemon is spawned
in a session of its own and outlives both (`pek_start.py`:195-206): whatever it
was doing then, it goes on. `hasty` is a history variable: a `pek_start` or
`pek_stop` has begun while a daemon was coming up or going down (`Halfway`),
which happens after a killed node, and after a `pek_start` that was answered out
of a stale record.
Every wait with a limit may be given up at any time. Granularity: a client's
time-out and the closing of its socket are one step, and so are the server's read
of a request and its dispatch on the command. The parse's result, the log file,
the choice of interpreter and the environment of the child are left out. A
`socket.timeout` is no `DaemonError`: it fails `pek_start` and `pek_stop`, and
becomes an empty result in `pek_parse`.

### PaperLayers

The nodes of the three layer documents in the order their routes give (that
`GraphRunner` follows routes is the subject of the other modules). `queue` is
`queue_state.json`, `parsed`, `idFile`, `titleFile` the files of a parsed folder,
`extracted` and `summaries` the rows in `papers.db`, `source` the PDFs not yet
moved; `at[l]` and `cur[l]` the node layer `l` executes and the paper it is about.
A `write_text` is two steps (empty, then written), so `Feed`/`Dispatch`,
`Claim`/`Mark` and the two halves of `PersistTitle` can be torn apart by a
crash. `Crash` kills a layer, `DaemonCrashes` the daemon; `Start` restarts. The
daemon keeps working for a client that died or gave up (`heard = FALSE`).

"Quiet" is a flag per folder that `Age` sets and every write clears; `Age` is not
enabled between the two halves of a write by a live layer, that is: a
`write_text` does not take `min_quiet_seconds`. A folder can become quiet with an
empty file after a crash, and does. The two documents ask for 30 and 10 seconds;
one flag stands for both. `max_rounds` (4000 and 8000) is not counted. Left out:
what is extracted, id alignment, the progress calls of the queue (`mark_done`,
`mark_failed`, `reset`, `rescan`: no layer calls them), several layer-1
pipelines at once.

### AsyncRWLock

`readers`, `writer`, `waitingWriters` are the fields. The condition's own lock is
never held across an await other than `wait()`, so what runs between two waits is
one step. `notify_all` turns sleepers into tasks that are awake and compete, in
any order, with tasks that just arrive. `CancelWaiting` is a `CancelledError`
raised by `wait()`, after which `acquire_write` does not take its count back.

### IdeaRounds

`files` are the three state files (`Lost` where missing or not JSON), `hand` the
state the running node has in memory. `Accumulate` and `Drain` are the two saves
of one `summary_accumulator.execute`; `CountRound` and `Sync` the two of
`round_controller.execute`, the second into the accumulator's file; `Experiment`
is the gate. A save truncates and then writes (`Save`, `Saved`); it may fail,
which the code logs and ignores, and a crash between the halves leaves no state.
The content of a summary is abstracted to its count, ideas to the number of the
round that made them. `rounds`, `spent` (the rounds made when the last paper came
out) and `settled` are history variables.

### ArxivPolite

`at[n]` says where the download node `n` stands: between papers, waiting for
`_global_lock`, asleep under it, or waiting for arXiv under it. `since[n]` is the
age of its process's `_last_request_time`; `InProcess` says whether the nodes
share a process. `Acquire` works out the sleep, `Send` makes a request,
`Answered` and `Refused` end it, `Stop` is a node timed out and tried again,
`Tick` a second. `gap` and `refused` are history variables: how long ago, and
with what answer, arXiv was last asked by anybody. Ages stop at the values the
properties tell apart. Left out: the agents tried after this one, redirects, the
time a request takes before it is sent.

### Crawl

`disk` is `crawl_state.json`, `states` what the running crawl has in memory,
`pdf` and `metadata` the other files. A paper is taken (`Mark`), found to need no
download or requested (`Check`), and its attempts end in `Downloaded`, `NoPdf`,
`WriteFails` or `SaveFails`; `Again` is what the loop does after a failed attempt.
`Finish` extends the list. `Crash` ends a crawl with any one file it was writing
cut off. `requests` and `lost` are history variables. Left out: what the search
finds (any set of papers), the sleeps, `download_pdf = False` (as in
`iclr_idea_pipeline.yaml`, which saves nothing), an answer of exactly 1000
bytes, two crawls at once.

## 3. Runs

| Run | Instance | Shows |
|---|---|---|
| `runner` | 281 initial states. Every ordered dependency relation over 4 nodes, with and without a back edge, with and without a missing node, a routeless node that emits stray keys, one retry, 4 rounds; three idea loops of 5 to 7 nodes, generator without timeout, `max_parallel` 2 and one retry in the fan-out loop; the 21 nodes of `auto_idea_to_paper`, any answers of its three gates; a loop of every kind of controller, budgets 1..3, patience 1 and 2, scores 0..2 with target 1, a retried controller. 21 rounds | coverage, causality, refinement of `TaskGraph`; one idea at a time, rejected ideas not saved in the shipped loop; no dead end, paper last, taps keep up; controlled loops left through their exit, at the right time; permits, barriers; the run ends or waits for an untimed subprocess |
| `llm_dispatch` | 3 calls, 2 slots, queue of 2, one request per window of 2 ticks, one retry, time-outs and cancellation | limits kept, refusals just while nobody cancels, every call decided |
| `pek_daemon` | one pipeline, two daemons, listen queue of 2, one crash of a daemon, one node killed | without haste: one daemon; "stopped" means gone; the record is true; a signal ends the daemon; nodes end |
| `paper_layers` | two papers, one never titled, one crash of any layer or of the daemon | layers in order, no moved PDF lost, a crash loses at most the paper in hand, rows written once, marked papers persisted |
| `rw_lock` | four tasks, two cancellations | exclusion, no lost call, writers not starved |
| `idea_rounds` | target of 2 papers, 3 rounds, 2 tries, three runs, three crashes or failed saves | evolution gets a full merge and the last ideas, the first paper's rounds were made, runs end |
| `arxiv_polite` | two nodes of one process, two papers each, interval 3, backoffs 10 and 30, one time-out | the interval kept, downloads end |
| `crawl` | three papers, one without a URL, two permits, two retries, three crawls, two crashes and a failed write | a crash strands at most one paper per permit; successes have PDFs; requests bounded over crawls |
| `routed_tap` | paper pipeline | **violated**: the tap on `experiment_gate` never runs |
| `arxiv_gap` | as `arxiv_polite`, a process per node | **violated**: two nodes ask within the interval |
| `attempts` | the threshold controller, budgets 2 and 3 | **violated**: `max_attempts` + 1 iterations |
| `stale_record` | one pipeline, two daemons, one crash | **violated**: `pek_start` spawns a daemon and answers with the dead one before it |

Every property of a passing run has a faulty variant of the code (a definition
named for its fault, next to the right one) that TLC finds to violate it.

Seven more configurations are kept beside the runs. Each asks for one property
that a document or comment states, and TLC answers with the counterexample of a
finding (section 4):

| Configuration | Module | Property | TLC finds |
|---|---|---|---|
| `ReadmeLoopReject.cfg` | `IdeaLoops` | `RejectedIdeaNotSaved` | the README's loop saves the first rejected idea |
| `Patience.cfg` | `MCIterationControllers` | `PatienceRunsOut` | patience 2, three attempts: a stalled loop goes on |
| `RefusedWithRoom.cfg` | `LLMDispatch` | `RefusedMeansFull` | a call cancelled in the queue, and a later one refused with room left |
| `PekKilledCaller.cfg` | `PekDaemon` | `NeverTwoDaemons` | `pek_start` killed while it polls; the next one spawns a second daemon |
| `SecondPaper.cfg` | `IdeaRounds` | `EachPaperHasItsRounds` | the second run scores after one round |
| `ArxivBackoff.cfg` | `MCArxivPolite` | `RefusalBacksOff` | ages up to 30: a request 10 s after a refusal |
| `CrawlStranded.cfg` | `Crawl` | `SkippedMeansDone` | a paper never downloaded is skipped as done |

Bounds. Four nodes give every shape the resolution rules distinguish: chains,
joins, diamonds, back edges and unknown ids. Round limits: `MaxRounds` is 300
in the shipped documents. A turn of the README's loop takes five rounds (after a
first one for `retrieve`), one of the shipped loop five or six: 21 rounds are four
turns of the one, three or four of the other. In the paper pipeline they allow the longest straight path and six
rounds of repeated loops, each of the three loops included. A run cut off by the
bound is exempt in the properties that would notice, and section 5 proves those
of the documents for every bound. A controlled loop takes two rounds for each
of four iterations (a budget of three allows one more, finding 8) and one for
`eval`, nine in all, or it would be cut off: the assumption `EnoughRounds`, which
TLC evaluates. `ReadmeLoopReject.cfg` needs one turn, and has rounds for two. In `llm_dispatch` there are more calls than slots, and more
admitted calls than the window takes, so every queue fills. `PekDaemon`: two
processes are one that crashes, is stopped or is left loading, and its successor;
the listen queue holds an abandoned connection and a live one. The properties
of that run are about histories without haste (`~hasty`). With haste they are
false, which is the subject of `PekKilledCaller.cfg`: what the run shows is that a
daemon on its way up or down is the one thing a node must not meet, whatever
crashes, times out or is killed.
`PaperLayers`: with two papers one can overtake, hold up or be confused with the
other; the untitled paper is the second, so that stuck folders behind and (by a
crash that tears a file of the first) in front both occur. `AsyncRWLock`: four
tasks are two writers and two readers in every role. `IdeaRounds`: three rounds
have a first, a middle and a last; three mishaps are enough for each file to be
lost once. `ArxivPolite`: two nodes are one that holds the lock and one that
waits; the second paper of each meets the end of the first's backoffs; ages are
followed up to the interval, or up to 30 s where the property needs it. `Crawl`:
three crawls are one more than `MaxRetries`, so that a count that is not kept
shows; two papers with a URL and two permits let one paper's save put the other's
state on disk. `SuccessHasPdf` is about any crashes without failed writes and
about one failed write without a crash: with both, a save that failed and then a
crash while the PDF is written again leave a success without its PDF.

Deadlock checking is off where a system may really stop: a run that has returned
(`pc = "done"`), layers that are done or have nothing to pick, a lock nobody
wants or whose readers wait for a cancelled writer, a pipeline that has used its
runs, downloads with no paper left, crawls all made. `PekDaemon` and `LLMDispatch`
keep it on: a caller can always begin a node,
or, when all processes have been spent, still stop and parse; the clock never
stops.

Fairness. The runner's `Spec` is weakly fair in its own steps: asyncio runs
every runnable coroutine and fires every timer. `ChildEnds` has no fairness,
because nothing forces a module to finish. The LLM slot's `Spec` is weakly fair
in the clock and in what the event loop runs, and in the end of a request,
because `request_timeout` is set by default (120 s); not in calling, timing out
in the queue or cancelling. In `PekDaemon` processes run and the engine returns;
no time-out, SIGKILL escalation, crash or new node is ever forced, so what the
liveness properties show does not lean on the time-outs. In `PaperLayers` layers
2 and 3 run and are restarted; strong fairness of `Age`, `Titled` and
`PersistParse` per paper says that a folder grows old and that an LLM or a
database asked again and again answers in the end; layer 1 and the daemon need
not do anything. In `AsyncRWLock` bodies under the lock end and woken tasks run.
In `IdeaRounds` the runner goes on and an agent asked again and again summarises
a paper; the experiment need never succeed. In `ArxivPolite` the clock goes on,
what can run runs and a request ends, because httpx has a time-out (90 s); nobody
has to begin a paper, and nothing has to succeed.
`LoopSpec` has the fairness of the runner's `Spec`; `Crawl` states safety only.

## 4. Findings

The runs `routed_tap`, `stale_record`, `arxiv_gap` and `attempts` show 2, 4, 5
and 8; the configurations at the end of the table above show the others.

1. README.md:97 and 270-286: in the README's loop a rejected idea is saved,
   because `counter` depends on `idea_saver` and missing dependencies are pulled in.
2. README.md:120: a persistence tap cannot be wired onto a node that routes; in
   `auto_idea_to_paper.yaml` `persist_exp_result` never runs.
3. `modules/__init__.py`:1133: patience is forgotten between executions (keys
   beginning with `_` are dropped); "improving" compares with 0.
4. `pek_start.py`:14: "the stale state is overwritten and a fresh daemon is
   started". Over a killed daemon's record, which still says ready,
   `_wait_until_ready` (225-227) is satisfied by that record before the new
   process has written its own: the node answers with the dead pid, and nobody
   listens until the engine is loaded.
5. `arxiv_pdf.py`:3-4 and 9-12: "process-wide singleton lock", ">= 3s between
   requests", because "each pdf_download node" on its own "would still hammer
   arxiv". Nodes run in processes of their own unless `max_workers` is 0, so each
   has its own lock: the 26 download nodes of `paper_search_multi_intent.yaml`
   keep the interval each for itself only. In one process it is kept, proved.
6. `arxiv_pdf.py`:6: "exponential backoff (30s, 60s, 120s)". The schedule is
   10 s and 30 s (line 35); after the last refusal the next request follows after
   the interval.
7. `crawler.py`:100: "skipped (already done)". A paper that was downloading when
   a crawl died keeps that status and is skipped ever after (`state.py`:56).

8. `modules/__init__.py`:1129: "Continue iterating until score >= threshold or
   max attempts reached", and `iteration_controllers.py`:72-81 exits with
   `max_attempts_reached`. The runner hands a node its count of executions one
   short, and nothing at the first (`graph_runner.py`:582), so `max_attempts = n`
   makes n + 1 iterations for n > 1. `OverdrawnByOneAtMost` proves that it is never
   more than one.
9. `concurrency_guard.py`:75: refused "if too many tasks are already queued". A
   call cancelled in the queue stays counted (the `except` clauses of 92-97 do not
   catch `CancelledError`), and a later call is refused with room left. Nothing in
   the repository cancels such a call today.
10. `server.py`:252-256: "pek_start prevents this by checking liveness before
   forking". One pipeline is enough to defeat it: kill it while `pek_start`
   polls and run it again (or, in a document that gives the node a time-out and a
   retry, let the runner do both). The daemon it spawned lives and has no socket yet, so the ping
   of the next `pek_start` is refused (`pek_start.py`:102) and it spawns a second.
   From there everything goes: the second fails to bind and records `failed` over
   the serving first; `pek_stop` finds a dead pid on record and reports success
   while the first lives.
11. `auto_idea_to_paper.yaml`:15: "10 rounds x 3 papers". `round_state.json` is
   never reset (`round_controller.py`:40), so a second run of the document makes
   one round and goes on to the scoring.

Seen while modelling, without a configuration.

- Crawlers: arxiv.org is asked before export.arxiv.org (`arxiv_pdf.py`:74; line 7
  says the opposite). A crawl that dies after some downloads never lists them in
  `metadata.json`: they are successes and skipped. A PDF cut off beyond 1000 bytes
  is taken for a whole one by the next crawl (`crawler.py`:359).

- LLM slot: retries do not pass the rate limiter (`retry_policy.py`:90;
  `rate_limiter.py`:12 says "before each request").
- Iteration: the runner keeps a node's last `_score` when an output has none, and
  the controller decides on it (`graph_runner.py`:576).
- Gates: the tries of a run that died count for the next.
- Layers: `paper_id.txt` is not layer 1's last write, as the comment at
  `title_persist_layer.yaml`:24-26 has it: the mover runs after the allocator.
  The PDF in hand when layer 1 dies is not dispatched again; a torn
  `queue_state.json` starts the queue anew (harmless: `PersistedOnce`); a PDF
  whose parse timed out is parsed all the same but never claimed;
  `queue_remaining` is one too low (`pdf_queue_feeder.py`:102). A paper whose
  rows were committed half (`pdf_kit_parse_persist.py`:84) is never completed, and
  a crash between `persist_parse` and `persist_summary` leaves it without its
  summary for good. A folder that always fails, or with an empty `paper_id.txt`
  (which matches no row), is picked again for ever and holds up all that sort
  behind it: the premise of `MarkedIsPersisted`.
- Daemon: two `pek_start` at once both spawn, as in finding 10; the clean-up of
  a leaving daemon removes its successor's socket and record. A record that says
  failed is read just as early as one that says ready, so each later `pek_start`
  may kill its own child; and a daemon that announces itself and dies between the
  two looks of one poll is answered as ready. A ping that times out on a busy
  daemon fails `pek_start` and `pek_stop`; an abandoned SHUTDOWN request is dropped.
- Lock: readers wait for ever for a writer that was cancelled while it waited
  (the last disjunct of `SleepersAreOwedACall`); within one event loop
  `JsonIdeaStore`'s bodies do not await, so its lock is contended only by callers
  that use it directly.

Of the documents and the runner: the example in the docstring of `graph.py`
(69-101) has a cycle in front of its loop node, which therefore never runs; `backtrack`
edges (README.md:101) are never read by the runner; `retry: max_attempts: 3`
(README.md:113) allows four executions; `exhausted` in the README's loop is not
a route `idea_counter` emits, and ends the loop only because no dependents are
left; a failed node whose earlier execution emitted `_routes` fans out again
(graph_runner.py:302); `on_failure` becomes a route no failed node takes.

## 5. Proofs

`GraphRunnerProofs`, for every finite set of nodes, every set of route keys and
every set of graphs of type `GraphType` (assumptions `NodesAssumption`,
`RouteKeysAssumption`, `GraphsAssumption`):

- `TypeCorrect`: `TypeOK` is an invariant.
- `Inductive`: `IInv` is. The safety properties are not inductive alone: that a
  started node may run needs that ready nodes have not failed
  (`ReadyNotFailed`); that `max_parallel` bounds subprocesses needs that permits
  and subprocesses add up (`PermitsAddUp`), which needs that a subprocess exists
  exactly during its attempt (`ChildrenAreOfAttempts`) and that coroutines are
  those of the level (`TasksAreOfLevel`). `NextReadyFacts` is the lemma about
  `_resolve_next_ready`.
- `RunsOnlyWhenAllowed`, `CompletionIsCausal`, `ParallelismBounded`,
  `ReturnsClean`: corollaries. `Barriers`: an action property from `IInv`.
- `Refinement`: every step is a step of `TaskGraph` or leaves its state alone
  (`deps` is the graph's, `running` the nodes with an attempt under way or
  pending).
- `PlainGraphsAreCovered`: when a run of a graph without routes has returned,
  every node whose dependencies have completed has completed or failed, if
  `max_rounds` is at least the number of nodes. `PlainInv` carries it: a node
  that could run is ready, or depends on one that is (`Frontier`: what
  `_resolve_next_ready` looks at are the dependents of the round's nodes, and
  nothing else); a ready node is new and nothing completed depends on it
  (`ReadyIsNew`, in the presence of cycles); so each round covers at least one
  node more (`EveryRoundCovers`), and such a bound is never what stops the
  runner.

The same module goes on to the documents. They come after the general theorems
and rest on more: that the route keys the documents use are route keys
(`LoopKeysAssumption`, `PaperKeysAssumption`, `DecisionKeysAssumption`) and that
`MaxRounds` is a number; nothing else is assumed of it, so the theorems hold for
the shipped 300 as for the checked 21. That a document's nodes are in `Nodes`
follows from `GraphsAssumption`, and `RouteKeysAssumption` says that `default` is
a route key and "no route" is none. Proofs cite assumptions by name: the general
theorems cite none of the four.

- `RoutedGraphs`: where every node answers with one route or with none
  (`OneRoute`), a node has completed exactly when it has been executed, and the
  route on record is an answer of its own. What makes the rest provable is
  `Earlier(n)`, the executions of `n` before the level under way: nothing that
  happens inside a level changes it (`StepOfLevel`), so invariants phrased with it
  have to be looked at only when a round ends (`RoundsCount`, `OnlyCandidates`,
  `OneNext`, `WhereControlGoes`).
- `IdeasOneAtATime`: `OneIdeaAtATime` says something of every state, but is not
  inductive, because it does not say which node comes next. `TokenInv` does: one
  node is ready, and where it stands fixes how often `generate`, `evaluate` and
  `judge` have run compared with `counter` (`InTurn`). It includes the runs that
  break off: then the counts are in step all the same (`InStep`). The wiring
  lemmas (`ShippedOnward`, `ReadmeOnward`) are where the documents enter; that
  the README's loop saves rejected ideas (section 4) is the case of
  `ReadmeOnward` that pulls `saver` in.
- `SuccessWritesPaper`, `PaperComesLast`, `TapsKeepPace`: from `PaperInv`. One
  node that is no tap is ready at a time (`PaperToken`), what lies behind it on
  the way has not run (`Unreached`), and every tap has run as often as its node
  or is ready (`TapsFollow`). When only taps are ready and nothing has failed, the
  paper is written: that is the absence of dead ends, and it needs each of the
  seven routes. The tap on `experiment_gate` is left out of it (`PlainTaps`),
  finding 2.
- `LoopsLeaveThroughExit`, `TargetsEndLoops`: for all graphs, all controllers and
  parameters (`Policies`), all scores, and the hypothesis that `max_rounds` leaves
  two rounds for each of `max_attempts + 1` iterations and one for `eval`
  (`RoundsSuffice`, which the instance of `attempts` meets with equality).
  `OverdrawnByOneAtMost` says how far `AttemptsWithinBudget`, which is false
  (finding 8), can be missed. `LoopToken` ties rounds, executions and the recorded decision
  together; `Decisions` says which scores and budgets a recorded decision was
  made on.

`RoutedInv`, `TokenInv`, `PaperInv` and `ControlInv` were checked by TLC on the
graphs of the run `runner` before they were proved.

`LLMDispatchProofs`, for every finite set of calls and all limits: `Inductive`
(the queue's counter never falls below the calls in it, never exceeds those plus
the cancelled ones, and permits add up), `NoSlotLost`, `QueueKeepsDepth`, and
`RefusalsAreJust` (an action property: until a call is cancelled in the queue, a
refusal on arrival means that the calls in it fill it; afterwards it is false,
finding 9). `OneMoves` is the counting lemma.
`RateIsKept`: more admissions than the limit never fall into one window. Its
invariant `LimiterInv` says what the lock that is held through the sleep is
worth: there is one sleeper, the window is full and stays so, and the oldest
stamp's age and the sleep that is left add up to the window; `FreshDrops` is the
lemma about the loop that drops old stamps.

`PaperLayersProofs`, for every length of the list, every set of untitled papers
and any number of crashes (`LayersAssumption`): `Inductive`, from it
`TypeCorrect`, `LayersInOrder`, `NoMovedPdfIsLost` and the action property
`RowsWrittenOnce`. None of the properties is inductive. That an extracted paper
went through all layers needs what each node knows of the paper in hand
(`FrontReady` for layer 1, `BackReady` for layers 2 and 3), that a layer past
its feeder has one (`InHand`), and that the answer the daemon gives is the one
layer 1 waits for: at most one request is listened to, and it is about the paper
in hand (`HeardIsAwaited`), which crashes and time-outs between request and
answer make the hard part. `RowsWrittenOnce` needs that what the feeder read in
the database still holds when the rows are written (`ToWriteOnce`): only layer 3
writes them. The `*Frame` lemmas say what one layer cannot touch of another's.
`QueueResumes` counts: the papers the queue has given out and nobody will claim
(`Missed`: id file empty and no writer, or no id file though the saved cursor is
past the paper) are no more than the crashes of layer 1. It needs that the
cursor on disk is the one in memory but for a save under way (`CursorTrue`), so
that a crash can cost the paper in hand and no other.

`AsyncRWLockProofs`, for every finite set of tasks and any number of
cancellations: `Inductive`, `TypeCorrect`, `ReadersOrOneWriter`, `NoLostCall`.
The counters are tied to the tasks (`CountersCount`: readers and the writer
exactly, waiting writers up to those that were cancelled); without it neither
exclusion nor the guarantee of a call is inductive.

`ArxivPoliteProofs`, for every set of nodes that share a process, every number
of papers, every interval and every schedule of backoffs not shorter than it
(`PoliteAssumption`): `Inductive`, `RequestsAreSerial` and the action property
`RequestsKeepTheirDistance`. The last needs that the class knows the age of the
last request (`RequestsRemembered`), that one node at a time is under the lock
(`OneHolder`), and that a sleep together with that age covers the interval
(`SleepsLongEnough`), which only the lock keeps true while others wait.

`IdeaRoundsProofs`, for every target, number of rounds and tries, and any number
of runs, crashes and failed saves (beside the module's own assumption,
`LostAssumption`: the mark of a lost file is no state): `Inductive`,
`EvolutionsAreFed`, `NoRoundIsSkipped`. Every save has two halves, so each part
of the invariant speaks of what is in the file or, while it is being saved, in
the hand of the node: settled ideas are in one of the two (`SettledIdeas`), the
count stays below the target but for one paper per mishap (`CountsBounded`), and
no round is counted that was not made (`NumbersBounded`).

`CrawlProofs`, for every finite set of papers, every number of permits and
retries, any number of crawls, crashes and failed writes (`CrawlAssumption`):
`Inductive`, `NoMoreThanPermits`, `CrashesStrandFew`, `SuccessesHavePdfs`,
`RequestsAreBounded`. The last is an accounting (`RequestsAccounted`): the
requests for a paper are its retries on record times `MaxRetries`, the attempts
of this crawl, and for each loss of the state file a whole budget; while a save
has lost the file, memory still accounts for all but that one. Stranded papers
are counted in memory as well as on disk (`Stranded`), because one paper's save
writes everybody's state.

`PekDaemonProofs`, for any number of processes, any crashes, any nodes killed
half-way, any listen queue, and one pipeline at a time (the hypothesis
`OneCaller`, which the shipped documents satisfy): `Inductive`,
`AtMostOneDaemon`, `TheRecordIsTrue` and `StoppedIsGone`. They hold until a
`pek_start` or `pek_stop` begins while a daemon is coming up or going down
(`hasty`). With one pipeline that happens after a killed node (finding 10) or
after a stale record (finding 4), and the properties are false from there on; so
what is proved is that nothing else endangers them: no crash, time-out, failing
engine, abandoned request or node killed at any statement, if what it left
half-way is given the time to come up or to go. The properties are about each
other: that a start finds no second daemon needs that a stop left none, which
needs that the daemon whose record the stop read is the only one. So the
invariant says of the live daemon, by the statement it is at, what the socket
path and the record hold (`Recorded`), and what the caller knows of it at its own
statement (`Known`: the one it spawned, the one it is stopping, or one that
serves and was not told to quit). An answer is never somebody else's, because a
connection of the caller is the only one and the caller waits for it
(`ConnectionsAwaited`); the connections it gave up, or that died with it, stay in
the queue as nobody's. Its invariant was checked by TLC on two processes; three
have too many states.

Only proved: the type invariants of `GraphRunner`, `PaperLayers` and
`AsyncRWLock`, that arXiv is asked one request at a time (`OneRequestAtATime`),
and that the crawler's permits hold (`PermitsKept`); no run repeats them.

Only model-checked is liveness (`RunEndsOrWaitsForever`, `EveryCallEnds`,
`QuitLeadsToExit`, `NodesEnd`, `MarkedIsPersisted`, `WritersAreNotStarved`,
`RunsFinish`, `EveryDownloadEnds`): fairness is beyond the prover. Every
invariant and action property of a passing run is the subject of a theorem.
Three of them are proved, and run, under a condition outside of which they are
false (section 4): `OneDaemon` and its companions for one pipeline at a time none
of whose nodes meets a daemon half-way, `RefusedMeansFullUncancelled` while no
call is cancelled in the queue, and `GapKept` for nodes of one process.

## 6. Plan

Next: `IdeaScheduler` and the knowledge store with crashes between their writes,
once it is settled what must hold after a restart; what the fan-out loop promises
beyond the runner's own properties (its saver and counter run once each per
verdict), which needs a token that splits and joins; two `pek_start` at once and
a start over a loading daemon, once `pek_start` claims the state file before it
spawns.

## 7. Not modelled

`IdeaScheduler` and the tiered knowledge store: sequential code over JSON files
whose only hazard is a crash between two writes; no document or test says what
must hold after a restart, so there is nothing to check it against yet. No
module of the repository calls the scheduler (the node `idea_scheduler` writes to
the knowledge store) or the store's two-file `save_ideas_with_archive`.
`DecisionController` with its gate is the legacy loop that no shipped pipeline
uses; `IterativeExperimentLoop` a sequential loop around LLM calls. Monitoring
emits state for display and is read by nothing that acts on it. The searches and
the other PDF agents, LLM providers, agents and paper writing are network and prompt code without a
protocol of their own; the runner sees them as modules that answer, fail or fall
silent. PDF-Extract-Kit is vendored. The databases, the knowledge graph, the
scripts and the CLI are SQL and wrappers. These parts are the bulk of the
repository's lines, which is why the modules map to a small share of it.

Hazards seen and left uncovered, because they lie outside what these modules
distinguish: `_collect` blocks a thread of the default executor per running node
(`graph_runner.py`:420), so with many nodes, time-outs fire late; a provider's
override equal to the class default counts as unset (`llm_dispatcher/config.py`:65);
a crash between `_save_ideas` and `_enqueue`, or of the evaluator, strands an idea
(`idea_scheduler/scheduler.py`:68 and 86); a crash between the hot file and the
archive (`idea_agents/store.py`:137); throttled monitoring updates
(`orchestrator/monitoring/dispatcher.py`:85).
