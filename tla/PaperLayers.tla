----------------------------- MODULE PaperLayers ----------------------------
(***************************************************************************)
(* The three decoupled pipelines of config/pipelines: layer 1 parses PDFs  *)
(* off a persisted queue and claims a paper id, layer 2 adds a title,      *)
(* layer 3 writes papers.db.  They share nothing but the parsed folders    *)
(* and the database, and each may crash and be started again at any time.  *)
(*                                                                         *)
(* Papers are numbered in the order of the PDF list, which is also the     *)
(* order the folder feeders sort by.  write_text is two steps: the file is *)
(* empty before it has its contents.  The PEK daemon is a queue of jobs    *)
(* that is up or down (PekDaemon has its life cycle).  The age of a folder *)
(* is a flag; how often a loop runs (max_rounds) is not counted.           *)
(***************************************************************************)
EXTENDS Naturals, Sequences, FiniteSets

CONSTANTS
  N,           (* the length of the PDF list                                 *)
  Untitled,    (* papers whose title extraction never succeeds               *)
  CrashBound   (* bound: crashes of layers and of the daemon                 *)

Papers == 1..N

ASSUME LayersAssumption ==
  N \in Nat \ {0} /\ CrashBound \in Nat /\ Untitled \subseteq Papers

VARIABLES
  queue,     (* queue_state.json: its cursor, and whether it can be read     *)
  jobs,      (* parse requests at the daemon, oldest first                   *)
  up,        (* is the daemon running?                                       *)
  source,    (* PDFs still under downloaded_papers                           *)
  parsed,    (* layout json and markdown of each folder                      *)
  idFile,    (* paper_id.txt of each folder                                  *)
  titleFile, (* title.md of each folder                                      *)
  quiet,     (* folders no file of which is younger than min_quiet_seconds   *)
  extracted, (* rows of each paper in pdf_extractions and its tables         *)
  summaries, (* papers with summary metadata in papers.db                    *)
  at,        (* the node each layer executes                                 *)
  cur,       (* the paper each layer has in hand                             *)
  failed,    (* history: papers layer 1 gave up on, parse or claim failed    *)
  crashes    (* crashes so far: of layers 1 to 3 and of the daemon           *)

folders == <<source, parsed, idFile, titleFile, quiet>>
tables == <<extracted, summaries>>
vars == <<queue, jobs, up, folders, tables, at, cur, failed, crashes>>

Layers == 1..3
Stages ==
  <<{"down", "feeder", "dispatch", "parse", "waiting", "claim", "mark",
     "move", "teardown", "done"},
    {"down", "feeder", "load", "title", "write", "written"},
    {"down", "feeder", "load", "lookup", "persist", "summary",
     "persist_only"}>>

TypeOK ==
  /\ queue \in [cursor : 0..N, readable : BOOLEAN]
  /\ jobs \in Seq([paper : Papers, heard : BOOLEAN])
  /\ up \in BOOLEAN
  /\ source \subseteq Papers /\ quiet \subseteq Papers
  /\ summaries \subseteq Papers /\ failed \subseteq Papers
  /\ parsed \in [Papers -> {"none", "torn", "done"}]
  /\ idFile \in [Papers -> {"absent", "empty", "written"}]
  /\ titleFile \in [Papers -> {"absent", "empty", "written"}]
  /\ extracted \in [Papers -> {"none", "partial", "full"}]
  /\ \A l \in Layers : at[l] \in Stages[l] /\ cur[l] \in 0..N
  /\ crashes \in [0..3 -> 0..CrashBound]

Init ==
  /\ queue = [cursor |-> 0, readable |-> FALSE]
  /\ jobs = <<>> /\ up = FALSE
  /\ source = Papers /\ quiet = {}
  /\ parsed = [p \in Papers |-> "none"]
  /\ idFile = [p \in Papers |-> "absent"]
  /\ titleFile = [p \in Papers |-> "absent"]
  /\ extracted = [p \in Papers |-> "none"]
  /\ summaries = {} /\ failed = {}
  /\ at = [l \in Layers |-> "down"]
  /\ cur = [l \in Layers |-> 0]
  /\ crashes = [i \in 0..3 |-> 0]
-----------------------------------------------------------------------------
Go(l, s) == at' = [at EXCEPT ![l] = s]
Take(l, p) == cur' = [cur EXCEPT ![l] = p]

(* A step of layer l at stage s on the paper in hand.                       *)
Turn(l, s) == at[l] = s /\ UNCHANGED <<cur, crashes>>

(* A file of p's folder is written.                                         *)
Touch(p) == quiet' = quiet \ {p}

(* min_quiet_seconds pass; a layer that is writing in the folder does not   *)
(* take that long.                                                          *)
Age(p) ==
  /\ p \notin quiet
  /\ at[1] = "mark" => cur[1] # p
  /\ at[2] = "written" => cur[2] # p
  /\ quiet' = quiet \cup {p}
  /\ UNCHANGED <<queue, jobs, up, source, parsed, idFile, titleFile, tables, at,
                 cur, failed, crashes>>

(* The operator starts a layer, which begins at its first node; layer 1     *)
(* with pek_start.                                                          *)
Start(l) ==
  /\ at[l] = "down"
  /\ Go(l, "feeder") /\ Take(l, 0)
  /\ up' = (up \/ l = 1)
  /\ UNCHANGED <<queue, jobs, folders, tables, failed, crashes>>

CrashesLeft ==
  crashes[0] + crashes[1] + crashes[2] + crashes[3] < CrashBound

Unhear(js) == [i \in 1..Len(js) |-> [js[i] EXCEPT !.heard = FALSE]]

(* The process of layer l dies; the daemon, in a session of its own, does   *)
(* not.                                                                     *)
Crash(l) ==
  /\ CrashesLeft
  /\ at[l] \notin {"down", "done"}
  /\ Go(l, "down") /\ Take(l, 0)
  /\ jobs' = IF l = 1 THEN Unhear(jobs) ELSE jobs
  /\ crashes' = [crashes EXCEPT ![l] = @ + 1]
  /\ UNCHANGED <<queue, up, folders, tables, failed>>
-----------------------------------------------------------------------------
(* The daemon.                                                              *)

(* A parse ends; a client that still listens hears how.                     *)
DaemonParses ==
  /\ up /\ jobs # <<>>
  /\ LET p == Head(jobs).paper
     IN  \E ok \in BOOLEAN :
           /\ ok => p \in source
           /\ parsed' = IF ok THEN [parsed EXCEPT ![p] = "done"] ELSE parsed
           /\ IF ok THEN Touch(p) ELSE UNCHANGED quiet
           /\ IF Head(jobs).heard
              THEN /\ Go(1, IF ok THEN "claim" ELSE "feeder")
                   /\ failed' = IF ok THEN failed ELSE failed \cup {p}
              ELSE UNCHANGED <<at, failed>>
  /\ jobs' = Tail(jobs)
  /\ UNCHANGED <<queue, up, source, idFile, titleFile, tables, cur, crashes>>

(* The daemon dies: what it was writing is torn, whoever listens reads EOF. *)
DaemonCrashes ==
  /\ CrashesLeft /\ up
  /\ up' = FALSE
  /\ jobs' = <<>>
  /\ \/ UNCHANGED <<parsed, quiet>>
     \/ /\ jobs # <<>>
        /\ parsed' = [parsed EXCEPT ![Head(jobs).paper] = "torn"]
        /\ Touch(Head(jobs).paper)
  /\ IF at[1] = "waiting"
     THEN Go(1, "feeder") /\ failed' = failed \cup {cur[1]}
     ELSE UNCHANGED <<at, failed>>
  /\ crashes' = [crashes EXCEPT ![0] = @ + 1]
  /\ UNCHANGED <<queue, source, idFile, titleFile, tables, cur>>
-----------------------------------------------------------------------------
(* Layer 1: pdf_parse_persist_layer.yaml.                                   *)

(* PDFQueueAgent._get_state: an unreadable state is a new queue.            *)
Cursor == IF queue.readable THEN queue.cursor ELSE 0

(* pdf_queue_feeder; next() begins to save the state.                       *)
Feed ==
  /\ at[1] = "feeder"
  /\ IF Cursor < N
     THEN /\ Go(1, "dispatch") /\ Take(1, Cursor + 1)
          /\ queue' = [cursor |-> Cursor, readable |-> FALSE]
     ELSE Go(1, "teardown") /\ UNCHANGED <<cur, queue>>
  /\ UNCHANGED <<jobs, up, folders, tables, failed, crashes>>

(* Faulty variant: the cursor moves by two.                                 *)
DispatchTwo ==
  /\ Turn(1, "dispatch")
  /\ queue' = [cursor |-> cur[1] + 1, readable |-> TRUE]
  /\ Go(1, "parse")
  /\ UNCHANGED <<jobs, up, folders, tables, failed>>

(* The cursor is past the item before the item is worked on.                *)
Dispatch ==
  /\ Turn(1, "dispatch")
  /\ queue' = [cursor |-> cur[1], readable |-> TRUE]
  /\ Go(1, "parse")
  /\ UNCHANGED <<jobs, up, folders, tables, failed>>

(* pek_parse: the request is sent, or nobody is there to take it.           *)
Request ==
  /\ Turn(1, "parse")
  /\ IF up THEN /\ jobs' = Append(jobs, [paper |-> cur[1], heard |-> TRUE])
                /\ Go(1, "waiting") /\ UNCHANGED failed
           ELSE /\ Go(1, "feeder") /\ failed' = failed \cup {cur[1]}
                /\ UNCHANGED jobs
  /\ UNCHANGED <<queue, up, folders, tables>>

(* timeout_seconds is over: a failed parse for the gate, not for the daemon.*)
ParseTimeout ==
  /\ Turn(1, "waiting")
  /\ jobs' = Unhear(jobs)
  /\ Go(1, "feeder") /\ failed' = failed \cup {cur[1]}
  /\ UNCHANGED <<queue, up, folders, tables>>

(* Faulty variant: a known paper is moved at once, its marker comes never.  *)
ClaimSkipsMarker ==
  /\ Turn(1, "claim")
  /\ Go(1, "move")
  /\ UNCHANGED <<idFile, quiet, failed, queue, jobs, up, source, parsed,
                 titleFile, tables>>

(* paper_id_allocator: skip what is in pdf_extractions, otherwise reserve   *)
(* the row in papers and begin to write paper_id.txt; or fail.              *)
Claim ==
  /\ Turn(1, "claim")
  /\ \/ /\ extracted[cur[1]] # "none"
        /\ Go(1, "move") /\ UNCHANGED <<idFile, quiet, failed>>
     \/ /\ extracted[cur[1]] = "none"
        /\ idFile' = [idFile EXCEPT ![cur[1]] = "empty"]
        /\ Touch(cur[1])
        /\ Go(1, "mark") /\ UNCHANGED failed
     \/ /\ Go(1, "feeder") /\ failed' = failed \cup {cur[1]}
        /\ UNCHANGED <<idFile, quiet>>
  /\ UNCHANGED <<queue, jobs, up, source, parsed, titleFile, tables>>

Mark ==
  /\ Turn(1, "mark")
  /\ idFile' = [idFile EXCEPT ![cur[1]] = "written"]
  /\ Touch(cur[1])
  /\ Go(1, "move")
  /\ UNCHANGED <<queue, jobs, up, source, parsed, titleFile, tables, failed>>

(* pdf_mover: a failure is not fatal.                                       *)
Move ==
  /\ Turn(1, "move")
  /\ source' \in {source, source \ {cur[1]}}
  /\ Go(1, "feeder")
  /\ UNCHANGED <<queue, jobs, up, parsed, idFile, titleFile, quiet, tables, failed>>

(* pek_stop; with a parse under way its RPC times out and the node fails.   *)
Teardown ==
  /\ Turn(1, "teardown")
  /\ up' = (up /\ jobs # <<>>)
  /\ Go(1, "done")
  /\ UNCHANGED <<queue, jobs, folders, tables, failed>>

Layer1 ==
  Feed \/ Dispatch \/ Request \/ Claim \/ Mark \/ Move \/ Teardown
-----------------------------------------------------------------------------
(* Layers 2 and 3: parsed_folder_freshness_feeder.  Each node is a process  *)
(* of its own, so _dispatched_this_session is always empty.                 *)

(* The id a folder carries: "" while paper_id.txt is empty, and that is in  *)
(* no row of pdf_extractions.                                               *)
Persisted(p) == idFile[p] = "written" /\ extracted[p] # "none"

(* Faulty variant: layer 3 does not require title.md.                       *)
EligibleUntitled(l) ==
  {p \in quiet : /\ idFile[p] # "absent"
                 /\ IF l = 2 THEN titleFile[p] = "absent" ELSE ~Persisted(p)}

(* Faulty variant: layer 3 does not look into the database.                 *)
EligibleAgain(l) ==
  {p \in quiet : /\ idFile[p] # "absent"
                 /\ IF l = 2 THEN titleFile[p] = "absent"
                             ELSE titleFile[p] # "absent"}

(* require_files, forbid_files, min_quiet_seconds and skip_persisted_db.    *)
Eligible(l) ==
  {p \in quiet : /\ idFile[p] # "absent"
                 /\ IF l = 2 THEN titleFile[p] = "absent"
                             ELSE titleFile[p] # "absent" /\ ~Persisted(p)}

(* Faulty variant: the last of the eligible folders.                        *)
PickLast(l) ==
  /\ at[l] = "feeder"
  /\ \E p \in Eligible(l) : /\ \A q \in Eligible(l) : q <= p
                            /\ Take(l, p)
  /\ Go(l, "load")
  /\ UNCHANGED <<queue, jobs, up, folders, tables, failed, crashes>>

(* The first of the eligible folders; without one the feeder waits.         *)
Pick(l) ==
  /\ at[l] = "feeder"
  /\ \E p \in Eligible(l) : /\ \A q \in Eligible(l) : p <= q
                            /\ Take(l, p)
  /\ Go(l, "load")
  /\ UNCHANGED <<queue, jobs, up, folders, tables, failed, crashes>>

(* parsed_folder_loader, parse_result_gate and, in layer 3, title_loader.   *)
Load(l) ==
  /\ Turn(l, "load")
  /\ Go(l, IF parsed[cur[l]] # "done" THEN "feeder"
           ELSE IF l = 2 THEN "title"
           ELSE IF titleFile[cur[3]] = "written" THEN "lookup" ELSE "persist_only")
  /\ UNCHANGED <<queue, jobs, up, folders, tables, failed>>
-----------------------------------------------------------------------------
(* Layer 2: title_persist_layer.yaml.                                       *)

(* title_extractor and title_result_gate.                                   *)
Titled ==
  /\ Turn(2, "title")
  /\ cur[2] \notin Untitled
  /\ Go(2, "write")
  /\ UNCHANGED <<queue, jobs, up, folders, tables, failed>>

NoTitle ==
  /\ Turn(2, "title")
  /\ Go(2, "feeder")
  /\ UNCHANGED <<queue, jobs, up, folders, tables, failed>>

(* title_persist.                                                           *)
PersistTitle ==
  /\ \/ Turn(2, "write") /\ Go(2, "written")
     \/ Turn(2, "written") /\ Go(2, "feeder")
  /\ titleFile' = [titleFile EXCEPT ![cur[2]] =
                     IF at[2] = "write" THEN "empty" ELSE "written"]
  /\ Touch(cur[2])
  /\ UNCHANGED <<queue, jobs, up, source, parsed, idFile, tables, failed>>
-----------------------------------------------------------------------------
(* Layer 3: db_persist_layer.yaml.                                          *)

(* paper_summary_search and summary_result_gate.                            *)
Lookup ==
  /\ Turn(3, "lookup")
  /\ \E s \in {"persist", "persist_only"} : Go(3, s)
  /\ UNCHANGED <<queue, jobs, up, folders, tables, failed>>

(* pdf_kit_parse_persist: an error is swallowed, and what was written       *)
(* before it is committed: nothing, or the extraction row without details.  *)
PersistAs(outcome) ==
  /\ at[3] \in {"persist", "persist_only"}
  /\ extracted' = [extracted EXCEPT ![cur[3]] = IF @ = "none" THEN outcome ELSE @]
  /\ Touch(cur[3])
  /\ Go(3, IF at[3] = "persist" THEN "summary" ELSE "feeder")
  /\ UNCHANGED <<queue, jobs, up, source, parsed, idFile, titleFile, summaries,
                 cur, failed, crashes>>

PersistParse == PersistAs("full")
PersistFails == PersistAs("none") \/ PersistAs("partial")

(* summary_persist.                                                         *)
PersistSummary ==
  /\ Turn(3, "summary")
  /\ summaries' = summaries \cup {cur[3]}
  /\ Go(3, "feeder")
  /\ UNCHANGED <<queue, jobs, up, folders, extracted, failed>>

Layer2 == Pick(2) \/ Load(2) \/ Titled \/ NoTitle \/ PersistTitle
Layer3 == Pick(3) \/ Load(3) \/ Lookup \/ PersistParse \/ PersistFails
            \/ PersistSummary

Next ==
  \/ Layer1 \/ Layer2 \/ Layer3 \/ ParseTimeout
  \/ DaemonParses \/ DaemonCrashes
  \/ \E l \in Layers : Start(l) \/ Crash(l)
  \/ \E p \in Papers : Age(p)

(* Layers 2 and 3 are kept running and make steps, folders grow old, and    *)
(* an LLM or a database asked again and again for a paper answers in the    *)
(* end.  Layer 1 and the daemon need not do anything.                       *)
Spec ==
  /\ Init /\ [][Next]_vars
  /\ WF_vars(Layer2) /\ WF_vars(Layer3)
  /\ WF_vars(Start(2)) /\ WF_vars(Start(3))
  /\ \A p \in Papers : /\ SF_vars(Age(p))
                       /\ SF_vars(Titled /\ cur[2] = p)
                       /\ SF_vars(PersistParse /\ cur[3] = p)
-----------------------------------------------------------------------------
(* Properties.                                                              *)

(* A paper is in pdf_extractions only if layer 1 parsed and claimed it and  *)
(* layer 2 was at its title: nothing reaches the database around a layer,   *)
(* whichever of them crash, time out or run again.                          *)
NothingSkipsALayer ==
  \A p \in Papers : extracted[p] # "none" =>
    parsed[p] # "none" /\ idFile[p] # "absent" /\ titleFile[p] # "absent"

(* A PDF leaves downloaded_papers only when its folder is marked for the    *)
(* layers behind, or they are done with it: no moved PDF is lost to them.   *)
MovedMeansMarked ==
  \A p \in Papers \ source : idFile[p] = "written" \/ extracted[p] # "none"

(* The queue resumes: when layer 1 says it is exhausted, every PDF is       *)
(* marked or has failed, but for one per crash of layer 1: the one it had   *)
(* in hand.                                                                 *)
Unaccounted == {p \in Papers \ failed : idFile[p] # "written"}
CrashLosesOneInHand ==
  at[1] \in {"teardown", "done"} => Cardinality(Unaccounted) <= crashes[1]

(* Layer 3 writes a paper's rows once: what the feeder saw in the database  *)
(* still holds when the rows are written.                                   *)
PersistedOnce ==
  [][\A p \in Papers :
       PersistParse /\ cur[3] = p /\ idFile[p] = "written"
         => extracted[p] = "none"]_vars

(* A folder at which the feeders come back for ever: no title, a torn parse *)
(* result, or an empty paper_id.txt, which matches no row.                  *)
Stuck(p) ==
  idFile[p] # "absent" /\
    (p \in Untitled \/ idFile[p] = "empty" \/ parsed[p] = "torn")

(* "Consume the parsed folder via the filesystem": a marked paper gets into *)
(* pdf_extractions, whatever crashes in between, unless it or a folder that *)
(* sorts before it is stuck.                                                *)
MarkedIsPersisted ==
  \A p \in Papers :
    <>[](\A q \in 1..p : ~Stuck(q))
      => (idFile[p] = "written" ~> extracted[p] # "none")
=============================================================================
