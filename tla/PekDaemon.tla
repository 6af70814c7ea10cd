------------------------------ MODULE PekDaemon -----------------------------
(***************************************************************************)
(* The PEK daemon (src/pdf_parser/daemon) and the three nodes that use it: *)
(* pek_start, pek_parse and pek_stop.  They share <state_dir>/state.json   *)
(* and one Unix socket path; the daemon serves one connection at a time.   *)
(*                                                                         *)
(* A caller is a pipeline that runs these nodes one after the other, in    *)
(* any order, and again after it died: a daemon is spawned detached, and   *)
(* dies neither with the pipeline nor with the process of the node.        *)
(* Clocks are left out: where the code waits up to a limit the caller may  *)
(* give up at any time.  A client's time-out and the closing of its socket *)
(* are one step, as are a server's read of a request and its dispatch on   *)
(* the command.                                                            *)
(***************************************************************************)
EXTENDS Naturals, Sequences, FiniteSets

CONSTANTS
  Callers,     (* pipelines that use one state_dir                           *)
  Pids,        (* bound: the daemons that may ever be spawned                *)
  Nobody,      (* no process, and the peer of a closed connection            *)
  Backlog,     (* listen(8)                                                  *)
  CrashBound,  (* bound: daemons that die without running their clean-up     *)
  DeathBound   (* bound: nodes killed half-way, alone or with their pipeline *)

ASSUME PekAssumption ==
  /\ IsFiniteSet(Pids) /\ Nobody \notin Pids \cup Callers
  /\ Backlog \in Nat \ {0} /\ CrashBound \in Nat /\ DeathBound \in Nat

VARIABLES
  pc,       (* where each daemon process stands in PEKDaemon.run: unborn,    *)
            (* boot, write, load, bind, Listening, clear or dead             *)
  quit,     (* each daemon's _shutdown_event                                 *)
  backlog,  (* connections each daemon has yet to accept                     *)
  job,      (* the connection each daemon serves                             *)
  path,     (* the daemon that bound the file at the socket path, if any     *)
  file,     (* state.json                                                    *)
  crashes,  (* daemons that have crashed                                     *)
  deaths,   (* nodes that have been killed                                   *)
  hasty,    (* history: a node began to start or stop a daemon while one was *)
            (* on its way up or down that nobody waited for                  *)
  stage,    (* where each caller stands in the node it executes              *)
  seen,     (* the pid each caller read from state.json                      *)
  own,      (* the daemon each caller spawned                                *)
  reply,    (* what each caller's connection has delivered                   *)
  answer    (* what the last node of each caller answered                    *)

daemonVars == <<pc, quit, backlog, job, path>>
callerVars == <<stage, seen, own, answer>>
historyVars == <<crashes, deaths, hasty>>
vars == <<daemonVars, file, historyVars, callerVars, reply>>

Listening == {"announce", "check", "accept", "parse", "leave", "close"}
Connecting == {"start_connect", "stop_connect", "parse_connect"}
Calling == {"pinging", "stopping", "parsing"}
NoConnection == [from |-> Nobody, cmd |-> "poke"]
NoFile == [pid |-> Nobody, status |-> "absent"]

Init ==
  /\ pc = [d \in Pids |-> "unborn"]
  /\ quit = [d \in Pids |-> FALSE]
  /\ backlog = [d \in Pids |-> <<>>]
  /\ job = [d \in Pids |-> NoConnection]
  /\ path = Nobody
  /\ file = NoFile
  /\ crashes = 0 /\ deaths = 0
  /\ hasty = FALSE
  /\ stage = [c \in Callers |-> "idle"]
  /\ seen = [c \in Callers |-> Nobody]
  /\ own = [c \in Callers |-> Nobody]
  /\ reply = [c \in Callers |-> "none"]
  /\ answer = [c \in Callers |-> [node |-> "none", ok |-> TRUE, pid |-> Nobody]]
-----------------------------------------------------------------------------
(* Processes, sockets and the state file.                                   *)

Alive(d) == d \in Pids /\ pc[d] \notin {"unborn", "dead"}

(* d comes up or goes down: alive, but not there to be asked.               *)
Halfway(d) ==
  /\ Alive(d)
  /\ pc[d] \in {"boot", "write", "load", "bind", "leave", "close", "clear"} \/ quit[d]

(* Somebody accepts connections at the socket path.                         *)
Reachable == path \in Pids /\ pc[path] \in Listening
HasRoom == Len(backlog[path]) < Backlog

At(d, s) == pc' = [pc EXCEPT ![d] = s]

(* The connections that d holds, and the callers at their other end.        *)
PeersOf(d) == {e.from : e \in {backlog[d][i] : i \in 1..Len(backlog[d])}
                                 \cup {job[d]}}

(* A process that ends closes its connections; the peers read an EOF.       *)
HangUp(d) ==
  /\ backlog' = [backlog EXCEPT ![d] = <<>>]
  /\ job' = [job EXCEPT ![d] = NoConnection]
  /\ reply' = [c \in Callers |->
                 IF c \in PeersOf(d) /\ reply[c] = "none" THEN "closed"
                 ELSE reply[c]]

(* write_state by daemon d.                                                 *)
Record(d, status) == file' = [pid |-> d, status |-> status]

(* send_message: to a closed connection it raises.                          *)
Send(e, r) == reply' = [c \in Callers |-> IF c = e.from THEN r ELSE reply[c]]
Delivered(e) == e.from \in Callers

(* d dies at once: SIGKILL, or a crash.                                     *)
Die(d) == At(d, "dead") /\ HangUp(d)

(* Faulty variant: the handler only sets the event and does not wake        *)
(* accept().                                                                *)
SignalNoPoke(d) ==
  /\ UNCHANGED path
  /\ IF pc[d] \in {"boot", "write"}
     THEN Die(d) /\ UNCHANGED quit
     ELSE /\ quit' = [quit EXCEPT ![d] = TRUE]
          /\ UNCHANGED <<backlog, pc, job, reply>>

(* SIGTERM: before the handler is installed it kills; afterwards            *)
(* _handle_signal sets the event and _poke_self connects to the path.       *)
Signal(d) ==
  /\ UNCHANGED path
  /\ IF pc[d] \in {"boot", "write"}
     THEN Die(d) /\ UNCHANGED quit
     ELSE /\ quit' = [quit EXCEPT ![d] = TRUE]
          /\ backlog' = IF Reachable /\ HasRoom
                        THEN [backlog EXCEPT ![path] = Append(@, NoConnection)]
                        ELSE backlog
          /\ UNCHANGED <<pc, job, reply>>
-----------------------------------------------------------------------------
(* The daemon: PEKDaemon.run.                                               *)

(* run starts by removing whatever is at the socket path.                   *)
Boot(d) ==
  /\ pc[d] = "boot"
  /\ path' = Nobody
  /\ At(d, "write")
  /\ UNCHANGED <<quit, backlog, job, file, historyVars, callerVars, reply>>

(* _write_initial_state, then the signal handlers.                          *)
WriteInitialState(d) ==
  /\ pc[d] = "write"
  /\ Record(d, "starting")
  /\ At(d, "load")
  /\ UNCHANGED <<quit, backlog, job, path, historyVars, callerVars, reply>>

(* Faulty variant: ready as soon as the models are loaded.                  *)
LoadEngineAnnounces(d) ==
  /\ pc[d] = "load"
  /\ \/ At(d, "bind") /\ Record(d, "ready")
     \/ At(d, "dead") /\ Record(d, "failed")
  /\ UNCHANGED <<quit, backlog, job, path, historyVars, callerVars, reply>>

(* _load_engine; when it fails the state file stays behind.                 *)
LoadEngine(d) ==
  /\ pc[d] = "load"
  /\ \/ At(d, "bind") /\ UNCHANGED file
     \/ At(d, "dead") /\ Record(d, "failed")
  /\ UNCHANGED <<quit, backlog, job, path, historyVars, callerVars, reply>>

(* _open_socket: bind fails when the path exists.                           *)
OpenSocket(d) ==
  /\ pc[d] = "bind"
  /\ IF path = Nobody
     THEN path' = d /\ At(d, "announce") /\ UNCHANGED file
     ELSE At(d, "dead") /\ Record(d, "failed") /\ UNCHANGED path
  /\ UNCHANGED <<quit, backlog, job, historyVars, callerVars, reply>>

Announce(d) ==
  /\ pc[d] = "announce"
  /\ Record(d, "ready")
  /\ At(d, "check")
  /\ UNCHANGED <<quit, backlog, job, path, historyVars, callerVars, reply>>

(* The loop test of _serve_forever.                                         *)
CheckQuit(d) ==
  /\ pc[d] = "check"
  /\ At(d, IF quit[d] THEN "leave" ELSE "accept")
  /\ UNCHANGED <<quit, backlog, job, path, file, historyVars, callerVars,
                 reply>>

(* Faulty variant: the event is set before the answer is sent.              *)
ShutdownBeforeSend(d, e) ==
  /\ quit' = [quit EXCEPT ![d] = TRUE]
  /\ Send(e, "ok")
  /\ At(d, "check")
  /\ UNCHANGED job

(* SHUTDOWN in _handle_client: the event is set after the answer is sent,   *)
(* so not when the client has gone and the send raises.                     *)
HandleShutdown(d, e) ==
  /\ quit' = [quit EXCEPT ![d] = Delivered(e)]
  /\ Send(e, "ok")
  /\ At(d, "check")
  /\ UNCHANGED job

(* accept() and _handle_client.                                             *)
Accept(d) ==
  /\ pc[d] = "accept"
  /\ backlog[d] # <<>>
  /\ LET e == Head(backlog[d])
     IN  IF quit[d]
         THEN Send(e, "closed") /\ At(d, "leave") /\ UNCHANGED <<quit, job>>
         ELSE \/ /\ e.cmd \in {"ping", "poke"}     \* nobody hears a poke
                 /\ Send(e, "ok") /\ At(d, "check") /\ UNCHANGED <<quit, job>>
              \/ e.cmd = "shutdown" /\ HandleShutdown(d, e)
              \/ /\ e.cmd = "parse"
                 /\ job' = [job EXCEPT ![d] = e]
                 /\ At(d, "parse") /\ UNCHANGED <<quit, reply>>
  /\ backlog' = [backlog EXCEPT ![d] = Tail(@)]
  /\ UNCHANGED <<path, file, historyVars, callerVars>>

(* Faulty variant: after an exception the client hears nothing.             *)
FinishParseSilent(d) ==
  /\ pc[d] = "parse"
  /\ Send(job[d], "ok") \/ UNCHANGED reply
  /\ job' = [job EXCEPT ![d] = NoConnection]
  /\ At(d, "check")
  /\ UNCHANGED <<quit, backlog, path, file, historyVars, callerVars>>

(* _do_parse ends, with a result or an exception, and is answered.          *)
FinishParse(d) ==
  /\ pc[d] = "parse"
  /\ \E r \in {"ok", "error"} : Send(job[d], r)
  /\ job' = [job EXCEPT ![d] = NoConnection]
  /\ At(d, "check")
  /\ UNCHANGED <<quit, backlog, path, file, historyVars, callerVars>>

(* The finally block of run: the state is rewritten ...                     *)
Leave(d) ==
  /\ pc[d] = "leave"
  /\ Record(d, "shutting_down")
  /\ At(d, "close")
  /\ UNCHANGED <<quit, backlog, job, path, historyVars, callerVars, reply>>

(* ... the socket closed and whatever is at its path removed ...            *)
TeardownSocket(d) ==
  /\ pc[d] = "close"
  /\ HangUp(d)
  /\ path' = Nobody
  /\ At(d, "clear")
  /\ UNCHANGED <<quit, file, historyVars, callerVars>>

(* ... and the state file removed, whoever wrote it.                        *)
ClearState(d) ==
  /\ pc[d] = "clear"
  /\ file' = NoFile
  /\ At(d, "dead")
  /\ UNCHANGED <<quit, backlog, job, path, historyVars, callerVars, reply>>

(* The process dies before its clean-up (out of memory, kill -9).           *)
Crash(d) ==
  /\ crashes < CrashBound
  /\ Alive(d)
  /\ Die(d)
  /\ crashes' = crashes + 1
  /\ UNCHANGED <<quit, path, file, deaths, hasty, callerVars>>

DaemonStep(d) ==
  \/ Boot(d) \/ WriteInitialState(d) \/ LoadEngine(d) \/ OpenSocket(d)
  \/ Announce(d) \/ CheckQuit(d) \/ Accept(d) \/ FinishParse(d)
  \/ Leave(d) \/ TeardownSocket(d) \/ ClearState(d)
-----------------------------------------------------------------------------
(* The caller's side of PEKClient._call.                                    *)

Go(c, s) == stage' = [stage EXCEPT ![c] = s]

(* The node ends: with an answer, or (ok = FALSE) by raising.               *)
End(c, node, ok, pid) ==
  /\ Go(c, "idle")
  /\ answer' = [answer EXCEPT ![c] = [node |-> node, ok |-> ok, pid |-> pid]]
  /\ UNCHANGED <<seen, own>>

Keep == UNCHANGED <<seen, own, answer>>

(* connect and send; a full listen queue blocks.                            *)
Connect(c, cmd, next) ==
  /\ Reachable /\ HasRoom
  /\ backlog' = [backlog EXCEPT ![path] = Append(@, [from |-> c, cmd |-> cmd])]
  /\ reply' = [reply EXCEPT ![c] = "none"]
  /\ Go(c, next) /\ Keep
  /\ UNCHANGED <<pc, quit, job, path, file, historyVars>>

(* FileNotFoundError or ConnectionRefusedError: a DaemonError.              *)
Refused == ~Reachable /\ UNCHANGED <<daemonVars, file, historyVars, reply>>

(* The caller's connection, wherever it is, loses its other end.            *)
Abandon(c) ==
  LET Cut(e) == IF e.from = c THEN [e EXCEPT !.from = Nobody] ELSE e
  IN  /\ backlog' = [d \in Pids |-> [i \in 1..Len(backlog[d]) |-> Cut(backlog[d][i])]]
      /\ job' = [d \in Pids |-> Cut(job[d])]
      /\ UNCHANGED <<pc, quit, path>>

(* socket.timeout, which is not a DaemonError.                              *)
GiveUp(c) ==
  /\ stage[c] \in Connecting \cup Calling
  /\ stage[c] \in Connecting => Reachable /\ ~HasRoom
  /\ stage[c] \in Calling => reply[c] = "none"
  /\ Abandon(c)
  /\ End(c, CASE stage[c] \in {"start_connect", "pinging"} -> "start"
              [] stage[c] \in {"stop_connect", "stopping"} -> "stop"
              [] OTHER -> "parse", FALSE, Nobody)
  /\ UNCHANGED <<file, historyVars, reply>>

(* The process that executes the node is killed: by the runner, when the    *)
(* node runs into its time-out, or with the whole pipeline.  No finally     *)
(* block runs; the kernel closes the connection.                            *)
Killed(c) ==
  /\ deaths < DeathBound
  /\ stage[c] # "idle"
  /\ Abandon(c)
  /\ End(c, "none", FALSE, Nobody)
  /\ deaths' = deaths + 1
  /\ UNCHANGED <<file, crashes, hasty, reply>>

Delivers(c, s, r) ==
  /\ stage[c] = s /\ reply[c] = r
  /\ UNCHANGED <<daemonVars, file, historyVars, reply>>
-----------------------------------------------------------------------------
(* pek_start.                                                               *)

(* History: the node begins while a daemon comes up or goes down.           *)
Haste == hasty' = (hasty \/ \E d \in Pids : Halfway(d)) /\ UNCHANGED <<crashes, deaths>>

(* Is there a daemon on record, and alive?                                  *)
StartRead(c) ==
  /\ stage[c] = "idle" /\ Haste
  /\ \E d \in Pids : pc[d] = "unborn"
  /\ IF Alive(file.pid)
     THEN Go(c, "start_connect") /\ seen' = [seen EXCEPT ![c] = file.pid]
     ELSE Go(c, "spawn") /\ UNCHANGED seen
  /\ UNCHANGED <<own, answer, reply, daemonVars, file>>

StartConnect(c) ==
  /\ stage[c] = "start_connect"
  /\ \/ Connect(c, "ping", "pinging")
     \/ Refused /\ Go(c, "spawn") /\ Keep

(* The ping succeeded: reuse.  An EOF is no DaemonError and fails the node. *)
StartReuse(c) ==
  \/ Delivers(c, "pinging", "ok") /\ End(c, "start", TRUE, seen[c])
  \/ Delivers(c, "pinging", "closed") /\ End(c, "start", FALSE, Nobody)

StartSpawn(c) ==
  /\ stage[c] = "spawn"
  /\ \E d \in Pids : /\ pc[d] = "unborn"
                     /\ At(d, "boot")
                     /\ own' = [own EXCEPT ![c] = d]
  /\ Go(c, "poll")
  /\ UNCHANGED <<seen, answer, reply, quit, backlog, job, path, file, historyVars>>

(* A turn of _wait_until_ready: has the child exited ...                    *)
StartPoll(c) ==
  /\ stage[c] = "poll"
  /\ IF Alive(own[c]) THEN Go(c, "read") /\ Keep
     ELSE End(c, "start", FALSE, Nobody)
  /\ UNCHANGED <<daemonVars, file, historyVars, reply>>

(* ... and then, what is on record?                                         *)
StartReadState(c) ==
  /\ stage[c] = "read"
  /\ CASE file.status = "ready" -> End(c, "start", TRUE, file.pid)
       [] file.status = "failed" -> Go(c, "terminate") /\ Keep
       [] OTHER -> Go(c, "poll") /\ Keep
  /\ UNCHANGED <<daemonVars, file, historyVars, reply>>

StartTimeout(c) ==
  /\ stage[c] = "poll"
  /\ Go(c, "terminate") /\ Keep
  /\ UNCHANGED <<daemonVars, file, historyVars, reply>>

(* _terminate: SIGTERM, wait, SIGKILL.                                      *)
StartTerminate(c) ==
  /\ stage[c] = "terminate"
  /\ Go(c, "reap") /\ Keep
  /\ IF Alive(own[c]) THEN Signal(own[c]) ELSE UNCHANGED <<daemonVars, reply>>
  /\ UNCHANGED <<file, historyVars>>

StartReap(c) ==
  /\ stage[c] = "reap"
  /\ End(c, "start", FALSE, Nobody)
  /\ ~Alive(own[c])
  /\ UNCHANGED <<daemonVars, file, historyVars, reply>>

StartKill(c) ==
  /\ stage[c] = "reap"
  /\ Alive(own[c])
  /\ Die(own[c])
  /\ End(c, "start", FALSE, Nobody)
  /\ UNCHANGED <<quit, path, file, historyVars>>
-----------------------------------------------------------------------------
(* pek_stop.                                                                *)

StopRead(c) ==
  /\ stage[c] = "idle" /\ Haste
  /\ \/ file = NoFile /\ End(c, "stop", TRUE, Nobody) /\ UNCHANGED file
     \/ /\ file # NoFile /\ ~Alive(file.pid)
        /\ file' = NoFile
        /\ End(c, "stop", TRUE, file.pid)
     \/ /\ Alive(file.pid)
        /\ Go(c, "stop_connect")
        /\ seen' = [seen EXCEPT ![c] = file.pid]
        /\ UNCHANGED <<own, answer, file>>
  /\ UNCHANGED <<daemonVars, reply>>

StopConnect(c) ==
  /\ stage[c] = "stop_connect"
  /\ \/ Connect(c, "shutdown", "stopping")
     \/ Refused /\ Go(c, "grace") /\ Keep

StopAnswered(c) ==
  \/ Delivers(c, "stopping", "ok") /\ Go(c, "grace") /\ Keep
  \/ Delivers(c, "stopping", "closed") /\ End(c, "stop", FALSE, Nobody)

(* _wait_dead saw the process go.                                           *)
StopSeesDead(c) ==
  /\ stage[c] \in {"grace", "kill"}
  /\ ~Alive(seen[c])
  /\ Go(c, "cleared") /\ Keep
  /\ UNCHANGED <<daemonVars, file, historyVars, reply>>

(* It did not within grace_seconds: SIGTERM; and then SIGKILL.              *)
StopSignal(c) ==
  /\ stage[c] = "grace" /\ Alive(seen[c])
  /\ Signal(seen[c])
  /\ Go(c, "kill") /\ Keep
  /\ UNCHANGED <<file, historyVars>>

StopKill(c) ==
  /\ stage[c] = "kill" /\ Alive(seen[c])
  /\ Die(seen[c])
  /\ Go(c, "cleared") /\ Keep
  /\ UNCHANGED <<quit, path, file, historyVars>>

(* Faulty variant: the record is left when the daemon is gone.              *)
StopKeepsRecord(c) ==
  /\ stage[c] = "cleared"
  /\ End(c, "stop", TRUE, seen[c])
  /\ UNCHANGED <<daemonVars, file, historyVars, reply>>

(* clear_state, always.                                                     *)
StopClear(c) ==
  /\ stage[c] = "cleared"
  /\ file' = NoFile
  /\ End(c, "stop", TRUE, seen[c])
  /\ UNCHANGED <<daemonVars, historyVars, reply>>
-----------------------------------------------------------------------------
(* pek_parse.  The pipelines pass the socket path pek_start answered;       *)
(* without one, _resolve_socket reads the state file.                       *)

ParseBegin(c) ==
  /\ stage[c] = "idle"
  /\ \/ Go(c, "parse_connect") /\ Keep
     \/ ~Alive(file.pid) /\ End(c, "parse", FALSE, Nobody)
  /\ UNCHANGED <<daemonVars, file, historyVars, reply>>

(* Every error of the call becomes an empty result.                         *)
ParseConnect(c) ==
  /\ stage[c] = "parse_connect"
  /\ \/ Connect(c, "parse", "parsing")
     \/ Refused /\ End(c, "parse", FALSE, Nobody)

ParseAnswered(c) ==
  \/ Delivers(c, "parsing", "ok") /\ End(c, "parse", TRUE, Nobody)
  \/ \E r \in {"error", "closed"} :
       Delivers(c, "parsing", r) /\ End(c, "parse", FALSE, Nobody)

CallerStep(c) ==
  \/ StartConnect(c) \/ StartReuse(c) \/ StartSpawn(c) \/ StartPoll(c)
  \/ StartReadState(c) \/ StartTerminate(c) \/ StartReap(c)
  \/ StopConnect(c) \/ StopAnswered(c) \/ StopSeesDead(c) \/ StopClear(c)
  \/ ParseConnect(c) \/ ParseAnswered(c)

Next ==
  \/ \E d \in Pids : DaemonStep(d) \/ Crash(d)
  \/ \E c \in Callers :
       \/ CallerStep(c)
       \/ StartRead(c) \/ StopRead(c) \/ ParseBegin(c)
       \/ GiveUp(c) \/ StartTimeout(c) \/ StartKill(c)
       \/ StopSignal(c) \/ StopKill(c) \/ Killed(c)

(* Processes run and the engine returns; nobody has to give up, to begin a  *)
(* node, to crash or to be killed.                                          *)
Spec ==
  /\ Init /\ [][Next]_vars
  /\ \A d \in Pids : WF_vars(DaemonStep(d))
  /\ \A c \in Callers : WF_vars(CallerStep(c))
-----------------------------------------------------------------------------
(* Properties.                                                              *)

Serving(d) == d \in Pids /\ path = d /\ pc[d] \in Listening

(* "If the pid is dead or unreachable, the stale state is overwritten and a *)
(* fresh daemon is started": a pek_start that spawned a daemon and answers  *)
(* ok names that daemon, and not one whose record was there before.         *)
StartedIsFresh ==
  [][\A c \in Callers :
       stage[c] = "read" /\ stage'[c] = "idle" /\ answer'[c].ok
         => answer'[c].pid = own[c]]_vars

(* One GPU, one path: there are never two daemons.  pek_start checks the    *)
(* liveness of the one on record before it spawns, which is not enough when *)
(* a node before it was killed and its daemon is still loading.             *)
NeverTwoDaemons == Cardinality({d \in Pids : Alive(d)}) <= 1

(* There is one at most, whatever times out, crashes, is killed or is       *)
(* abandoned, when the daemon that a killed node left half-way, or a node   *)
(* that a stale record misled, is given the time to come up or to go.       *)
OneDaemon == ~hasty => NeverTwoDaemons

(* pek_stop answers "stopped" only when no daemon is left and none is on    *)
(* record, so that the next pek_start boots a fresh one.                    *)
StoppedMeansGone ==
  ~hasty
    => \A c \in Callers :
         stage[c] = "idle" /\ answer[c].node = "stop" /\ answer[c].ok
           => file = NoFile /\ \A d \in Pids : ~Alive(d)

(* "Single source of truth": a live daemon on record as ready serves, and   *)
(* one that serves is on record, whatever the caller does to it meanwhile   *)
(* and wherever it is killed.                                               *)
RecordIsTrue ==
  ~hasty
    => \A d \in Pids :
         /\ file = [pid |-> d, status |-> "ready"] /\ Alive(d) => Serving(d)
         /\ pc[d] \in {"check", "accept", "parse"}
              => file = [pid |-> d, status |-> "ready"]

(* A daemon told to quit exits, even when it sits in accept() at that time, *)
(* nobody escalates to SIGKILL, and the node that told it is killed.        *)
QuitLeadsToExit ==
  [](~hasty) => \A d \in Pids : quit[d] ~> pc[d] = "dead"

(* Every node ends without its time-out, also when the engine fails, the    *)
(* daemon crashes or is shut down under it, or is busy with abandoned work. *)
NodesEnd ==
  [](~hasty) => \A c \in Callers : stage[c] # "idle" ~> stage[c] = "idle"
=============================================================================
