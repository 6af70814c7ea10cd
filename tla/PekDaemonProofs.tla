-------------------------- MODULE PekDaemonProofs ---------------------------
(***************************************************************************)
(* Proofs about the PEK daemon and one caller, for any number of daemons   *)
(* spawned and crashed, of nodes killed, any backlog, and nodes run in any *)
(* order.  With two callers they would not hold: nothing keeps two         *)
(* pek_start from spawning a daemon each.                                  *)
(***************************************************************************)
EXTENDS PekDaemon, FiniteSetTheorems, SequenceTheorems, TLAPS

Caller == CHOOSE c \in Callers : TRUE
OneCaller == Callers = {Caller}

DaemonStages ==
  {"unborn", "boot", "write", "load", "bind", "clear", "dead"} \cup Listening
CallerStages ==
  {"idle", "spawn", "poll", "read", "terminate", "reap", "grace", "kill", "cleared"}
    \cup Connecting \cup Calling
Connections ==
  [from : Callers \cup {Nobody}, cmd : {"ping", "poke", "shutdown", "parse"}]
Records ==
  [pid : Pids \cup {Nobody},
   status : {"absent", "starting", "ready", "failed", "shutting_down"}]

Answers ==
  [node : {"none", "start", "stop", "parse"}, ok : BOOLEAN,
   pid : Pids \cup {Nobody}]

Typed ==
  /\ pc \in [Pids -> DaemonStages] /\ quit \in [Pids -> BOOLEAN]
  /\ backlog \in [Pids -> Seq(Connections)] /\ job \in [Pids -> Connections]
  /\ path \in Pids \cup {Nobody} /\ file \in Records
  /\ hasty \in BOOLEAN
  /\ stage \in [Callers -> CallerStages]
  /\ seen \in [Callers -> Pids \cup {Nobody}]
  /\ own \in [Callers -> Pids \cup {Nobody}]
  /\ reply \in [Callers -> {"none", "ok", "error", "closed"}]
  /\ answer \in [Callers -> Answers]

(* The connections daemon d holds: its job, and the backlog.                *)
Slots(d) == 0..Len(backlog[d])
Held(d, i) == IF i = 0 THEN job[d] ELSE backlog[d][i]
Mine(d, i) == Held(d, i).from = Caller

(* A connection of the caller is the only one, and the caller waits for its *)
(* answer: nobody answers a node for another one.                           *)
Awaited(d, i) ==
  /\ stage[Caller] \in Calling /\ reply[Caller] = "none"
  /\ Held(d, i).cmd = "shutdown" => stage[Caller] = "stopping"
ConnectionsAwaited ==
  \A d \in Pids : \A i \in Slots(d) :
    Mine(d, i) =>
      /\ Awaited(d, i)
      /\ \A e \in Pids : \A j \in Slots(e) : Mine(e, j) => d = e /\ i = j

(* What the socket path and the record say of a daemon, by where it stands. *)
(* Until it writes its own, the record may be a dead one's, and say ready.  *)
Recorded(d) ==
  CASE pc[d] = "boot" -> file.pid # d
    [] pc[d] = "write" -> path = Nobody /\ file.pid # d
    [] pc[d] \in {"load", "bind"} ->
         path = Nobody /\ file = [pid |-> d, status |-> "starting"]
    [] pc[d] = "announce" -> path = d /\ file = [pid |-> d, status |-> "starting"]
    [] pc[d] \in {"check", "accept", "parse", "leave"} ->
         path = d /\ file = [pid |-> d, status |-> "ready"]
    [] pc[d] = "close" -> path = d /\ file = [pid |-> d, status |-> "shutting_down"]
    [] pc[d] = "clear" -> path = Nobody /\ file = [pid |-> d, status |-> "shutting_down"]

(* What the caller knows of a daemon, by the node it executes: the one it   *)
(* spawned, or is stopping, or one that serves and was not told to quit.    *)
(* One that a killed or misled node left on its way up or down finds the    *)
(* caller between two nodes, or in a pek_parse.                             *)
Starting == {"poll", "read", "terminate", "reap"}
Stopping == {"stop_connect", "stopping", "grace", "kill"}
Elsewhere == {"idle", "parse_connect", "parsing"}
Known(d) ==
  /\ stage[Caller] \notin {"spawn", "cleared"}
  /\ stage[Caller] \in Starting => d = own[Caller]
  /\ stage[Caller] = "reap" => pc[d] \notin {"boot", "write"}
  /\ stage[Caller] \in Stopping => d = seen[Caller]
  /\ pc[d] \in {"boot", "write", "load", "bind"}
       => stage[Caller] \in Starting \cup Elsewhere
  /\ pc[d] \in {"leave", "close", "clear"} => quit[d]
  /\ quit[d] => \/ stage[Caller] \in {"reap", "grace", "kill"} \cup Elsewhere
                \/ stage[Caller] = "stopping" /\ reply[Caller] = "ok"

DaemonKnown ==
  /\ \A d \in Pids : Alive(d) => Recorded(d) /\ Known(d)
  /\ \A d, e \in Pids : Alive(d) /\ Alive(e) => d = e
  /\ \A d \in Pids : pc[d] = "unborn" => ~quit[d] /\ file.pid # d

IInv ==
  /\ Typed /\ ConnectionsAwaited
  /\ ~hasty => DaemonKnown /\ StoppedMeansGone
-----------------------------------------------------------------------------
(* Processes and connections.                                               *)

(* Connections are well-formed, and so are the queues of a listener.        *)
LEMMA TypedAppend ==
  ASSUME NEW b \in [Pids -> Seq(Connections)], NEW d \in Pids, NEW e \in Connections
  PROVE  [b EXCEPT ![d] = Append(@, e)] \in [Pids -> Seq(Connections)]
<1>1. Append(b[d], e) \in Seq(Connections)
  OBVIOUS
<1> QED BY <1>1

(* Accepting takes a connection off the queue.                              *)
LEMMA TypedTail ==
  ASSUME NEW b \in [Pids -> Seq(Connections)], NEW d \in Pids, b[d] # <<>>
  PROVE  /\ [b EXCEPT ![d] = Tail(@)] \in [Pids -> Seq(Connections)]
         /\ Head(b[d]) \in Connections
BY SMT

(* A closed connection, as _poke_self leaves one, is a connection.          *)
LEMMA NoConnectionTyped == NoConnection \in Connections
BY DEF NoConnection, Connections

(* A process that ends keeps the types of what it leaves.                   *)
LEMMA TypedHangUp ==
  ASSUME Typed, NEW d \in Pids, HangUp(d)
  PROVE  /\ backlog' \in [Pids -> Seq(Connections)]
         /\ job' \in [Pids -> Connections]
         /\ reply' \in [Callers -> {"none", "ok", "error", "closed"}]
<1>1. <<>> \in Seq(Connections)
  OBVIOUS
<1>2. backlog' \in [Pids -> Seq(Connections)]
  BY <1>1 DEF Typed, HangUp
<1>3. job' \in [Pids -> Connections]
  BY NoConnectionTyped DEF Typed, HangUp
<1>4. reply' \in [Callers -> {"none", "ok", "error", "closed"}]
  BY DEF Typed, HangUp
<1> QED BY <1>2, <1>3, <1>4

(* SIGTERM keeps the types, killing or not.                                 *)
LEMMA TypedSignal ==
  ASSUME Typed, NEW d \in Pids, Signal(d)
  PROVE  /\ backlog' \in [Pids -> Seq(Connections)]
         /\ job' \in [Pids -> Connections]
         /\ reply' \in [Callers -> {"none", "ok", "error", "closed"}]
         /\ pc' \in [Pids -> DaemonStages]
         /\ quit' \in [Pids -> BOOLEAN]
         /\ path' = path
<1>1. CASE pc[d] \in {"boot", "write"}
  BY <1>1, TypedHangUp DEF Signal, Typed, Die, At, DaemonStages
<1>2. CASE pc[d] \notin {"boot", "write"}
  <2>1. backlog' \in [Pids -> Seq(Connections)]
    <3>1. CASE Reachable /\ HasRoom
      <4>1. backlog' = [backlog EXCEPT ![path] = Append(@, NoConnection)]
        BY <1>2, <3>1 DEF Signal
      <4>2. path \in Pids /\ backlog \in [Pids -> Seq(Connections)]
        BY <3>1 DEF Reachable, Typed
      <4> QED BY <4>1, <4>2, NoConnectionTyped, TypedAppend
    <3>2. CASE ~(Reachable /\ HasRoom)
      BY <1>2, <3>2 DEF Signal, Typed
    <3> QED BY <3>1, <3>2
  <2>2. quit' \in [Pids -> BOOLEAN]
    BY <1>2 DEF Signal, Typed
  <2> QED BY <1>2, <2>1, <2>2 DEF Signal, Typed
<1> QED BY <1>1, <1>2

(* A caller that goes away keeps the daemons' types.                        *)
LEMMA TypedAbandon ==
  ASSUME Typed, NEW c \in Callers, Abandon(c)
  PROVE  /\ backlog' \in [Pids -> Seq(Connections)]
         /\ job' \in [Pids -> Connections]
         /\ UNCHANGED <<pc, quit, path>>
<1> DEFINE Cut(e) == IF e.from = c THEN [e EXCEPT !.from = Nobody] ELSE e
<1>1. \A e \in Connections : Cut(e) \in Connections
  BY DEF Connections
<1>2. /\ backlog' = [d \in Pids |-> [i \in 1..Len(backlog[d]) |-> Cut(backlog[d][i])]]
      /\ job' = [d \in Pids |-> Cut(job[d])]
      /\ UNCHANGED <<pc, quit, path>>
  BY DEF Abandon
<1> HIDE DEF Cut
<1>3. ASSUME NEW d \in Pids
      PROVE  [i \in 1..Len(backlog[d]) |-> Cut(backlog[d][i])] \in Seq(Connections)
  BY <1>1 DEF Typed
<1>4. \A d \in Pids : job[d] \in Connections
  BY DEF Typed
<1> QED BY <1>1, <1>2, <1>3, <1>4

(* connect and send keep the types.                                         *)
LEMMA TypedConnect ==
  ASSUME Typed, NEW c \in Callers, NEW cmd \in {"ping", "shutdown", "parse"},
         NEW next \in Calling, Connect(c, cmd, next)
  PROVE  Typed'
<1>1. [from |-> c, cmd |-> cmd] \in Connections
  BY DEF Connections
<1>2. backlog' \in [Pids -> Seq(Connections)]
  BY <1>1, TypedAppend DEF Connect, Reachable, Typed
<1>3. reply' \in [Callers -> {"none", "ok", "error", "closed"}]
  BY DEF Connect, Typed
<1>4. stage' \in [Callers -> CallerStages]
  BY DEF Connect, Go, Typed, CallerStages
<1> QED BY <1>2, <1>3, <1>4 DEF Connect, Keep, Typed, historyVars

(* A node that ends keeps the types.                                        *)
LEMMA TypedEnd ==
  ASSUME Typed, NEW c \in Callers, NEW node \in {"none", "start", "stop", "parse"},
         NEW ok \in BOOLEAN, NEW pid \in Pids \cup {Nobody}, End(c, node, ok, pid)
  PROVE  /\ stage' \in [Callers -> CallerStages]
         /\ seen' \in [Callers -> Pids \cup {Nobody}]
         /\ own' \in [Callers -> Pids \cup {Nobody}]
         /\ answer' \in [Callers -> Answers]
<1>1. [node |-> node, ok |-> ok, pid |-> pid] \in Answers
  BY DEF Answers
<1> QED BY <1>1 DEF Typed, End, Go, CallerStages

(* Typed is kept by the daemons ...                                         *)
LEMMA DaemonTyped ==
  ASSUME Typed, NEW d \in Pids, DaemonStep(d) \/ Crash(d)
  PROVE  Typed'
<1> USE DEF At, Record, DaemonStages, Listening, callerVars, historyVars
<1>0. /\ \A s \in {"starting", "ready", "failed", "shutting_down"} :
           [pid |-> d, status |-> s] \in Records
      /\ NoFile \in Records
  BY DEF Records, NoFile
<1>1. CASE Boot(d) BY <1>1 DEF Typed, Boot
<1>2. CASE WriteInitialState(d) BY <1>0, <1>2 DEF Typed, WriteInitialState
<1>3. CASE LoadEngine(d) BY <1>0, <1>3 DEF Typed, LoadEngine
<1>4. CASE OpenSocket(d) BY <1>0, <1>4 DEF Typed, OpenSocket
<1>5. CASE Announce(d) BY <1>0, <1>5 DEF Typed, Announce
<1>6. CASE CheckQuit(d) BY <1>6 DEF Typed, CheckQuit
<1>7. CASE Accept(d)
  <2> DEFINE e == Head(backlog[d])
  <2>1. backlog' \in [Pids -> Seq(Connections)] /\ e \in Connections
    BY <1>7, TypedTail DEF Accept, Typed
  <2>2. job' \in [Pids -> Connections]
    BY <1>7, <2>1 DEF Accept, HandleShutdown, Typed
  <2>3. reply' \in [Callers -> {"none", "ok", "error", "closed"}]
    BY <1>7 DEF Accept, HandleShutdown, Typed, Send
  <2>4. pc' \in [Pids -> DaemonStages]
    BY <1>7 DEF Accept, HandleShutdown, Typed
  <2>5. quit' \in [Pids -> BOOLEAN]
    <3>1. \/ UNCHANGED quit
          \/ quit' = [quit EXCEPT ![d] = Delivered(e)]
      BY <1>7 DEF Accept, HandleShutdown
    <3>2. Delivered(e) \in BOOLEAN
      BY DEF Delivered
    <3> QED BY <3>1, <3>2 DEF Typed
  <2> QED BY <1>7, <2>1, <2>2, <2>3, <2>4, <2>5 DEF Accept, Typed
<1>8. CASE FinishParse(d)
  BY <1>8, NoConnectionTyped DEF FinishParse, Typed, Send
<1>9. CASE Leave(d) BY <1>0, <1>9 DEF Typed, Leave
<1>10. CASE TeardownSocket(d)
  BY <1>10, TypedHangUp DEF Typed, TeardownSocket
<1>11. CASE ClearState(d) BY <1>0, <1>11 DEF Typed, ClearState
<1>12. CASE Crash(d)
  BY <1>12, TypedHangUp DEF Typed, Crash, Die
<1> QED BY <1>1, <1>2, <1>3, <1>4, <1>5, <1>6, <1>7, <1>8, <1>9, <1>10, <1>11,
           <1>12 DEF DaemonStep

(* ... and by the callers.                                                  *)
LEMMA CallerTyped ==
  ASSUME Typed, NEW c \in Callers,
         \/ CallerStep(c) \/ StartRead(c) \/ StopRead(c) \/ ParseBegin(c)
         \/ GiveUp(c) \/ StartTimeout(c) \/ StartKill(c)
         \/ StopSignal(c) \/ StopKill(c) \/ Killed(c)
  PROVE  Typed'
<1> USE DEF daemonVars, historyVars
<1>0. /\ file.pid \in Pids \cup {Nobody} /\ seen[c] \in Pids \cup {Nobody}
      /\ own[c] \in Pids \cup {Nobody} /\ Nobody \notin Pids
      /\ NoFile \in Records
  BY PekAssumption DEF Typed, Records, NoFile
<1>g. ASSUME NEW s \in CallerStages, Go(c, s)
      PROVE  stage' \in [Callers -> CallerStages]
  BY <1>g DEF Go, Typed
<1>s. \A s \in {"idle", "spawn", "poll", "read", "terminate", "reap", "grace", "kill",
                "cleared", "start_connect", "stop_connect", "parse_connect"} :
        s \in CallerStages
  BY DEF CallerStages, Connecting
<1>1. CASE StartRead(c)
  BY <1>0, <1>1, <1>g, <1>s DEF Typed, StartRead, Haste, Alive
<1>2. CASE StartConnect(c)
  BY <1>2, <1>g, <1>s, TypedConnect DEF Typed, StartConnect, Refused, Keep, Calling
<1>3. CASE StartReuse(c)
  BY <1>0, <1>3, TypedEnd DEF Typed, StartReuse, Delivers
<1>4. CASE StartSpawn(c)
  BY <1>4, <1>g, <1>s DEF Typed, StartSpawn, At, DaemonStages
<1>5. CASE StartPoll(c)
  BY <1>0, <1>5, <1>g, <1>s, TypedEnd DEF Typed, StartPoll, Keep
<1>21. CASE StartReadState(c)
  BY <1>0, <1>21, <1>g, <1>s, TypedEnd DEF Typed, StartReadState, Keep
<1>6. CASE StartTimeout(c)
  BY <1>6, <1>g, <1>s DEF Typed, StartTimeout, Keep
<1>7. CASE StartTerminate(c)
  BY <1>0, <1>7, <1>g, <1>s, TypedSignal DEF Typed, StartTerminate, Keep, Alive
<1>8. CASE StartReap(c)
  BY <1>0, <1>8, TypedEnd DEF Typed, StartReap
<1>9. CASE StartKill(c)
  BY <1>0, <1>9, TypedEnd, TypedHangUp
     DEF Typed, StartKill, Die, At, DaemonStages, Alive
<1>10. CASE StopRead(c)
  BY <1>0, <1>10, <1>g, <1>s, TypedEnd DEF Typed, StopRead, Haste
<1>11. CASE StopConnect(c)
  BY <1>11, <1>g, <1>s, TypedConnect DEF Typed, StopConnect, Refused, Keep, Calling
<1>12. CASE StopAnswered(c)
  BY <1>12, <1>g, <1>s, TypedEnd DEF Typed, StopAnswered, Delivers, Keep
<1>13. CASE StopSeesDead(c)
  BY <1>13, <1>g, <1>s DEF Typed, StopSeesDead, Keep
<1>14. CASE StopSignal(c)
  BY <1>0, <1>14, <1>g, <1>s, TypedSignal DEF Typed, StopSignal, Keep, Alive
<1>15. CASE StopKill(c)
  BY <1>0, <1>15, <1>g, <1>s, TypedHangUp
     DEF Typed, StopKill, Die, At, DaemonStages, Alive, Keep
<1>16. CASE StopClear(c)
  BY <1>0, <1>16, TypedEnd DEF Typed, StopClear
<1>17. CASE ParseBegin(c)
  BY <1>17, <1>g, <1>s, TypedEnd DEF Typed, ParseBegin, Keep
<1>18. CASE ParseConnect(c)
  BY <1>18, TypedConnect, TypedEnd DEF Typed, ParseConnect, Refused, Calling
<1>19. CASE ParseAnswered(c)
  BY <1>19, TypedEnd DEF Typed, ParseAnswered, Delivers
<1>20. CASE GiveUp(c)
  BY <1>20, TypedEnd, TypedAbandon DEF Typed, GiveUp
<1>22. CASE Killed(c)
  BY <1>22, TypedEnd, TypedAbandon DEF Typed, Killed
<1> QED BY <1>1, <1>2, <1>3, <1>4, <1>5, <1>6, <1>7, <1>8, <1>9, <1>10, <1>11,
           <1>12, <1>13, <1>14, <1>15, <1>16, <1>17, <1>18, <1>19, <1>20,
           <1>21, <1>22 DEF CallerStep
-----------------------------------------------------------------------------
(* The caller's connection.                                                 *)

(* The one caller is a caller, is somebody, and is the only one.            *)
LEMMA TheCaller ==
  ASSUME OneCaller
  PROVE  Caller \in Callers /\ Caller # Nobody /\ \A c \in Callers : c = Caller
<1>1. \A c \in Callers : c = Caller
  BY DEF OneCaller
<1>2. Caller \in Callers
  BY DEF OneCaller
<1> QED BY <1>1, <1>2, PekAssumption

(* A step after which the caller's connection, if there is one, is one that *)
(* was there, with its caller still waiting.                                *)
LEMMA StillAwaited ==
  ASSUME ConnectionsAwaited,
         \A d \in Pids : \A i \in Slots(d)' :
           Mine(d, i)' => /\ i \in Slots(d) /\ Held(d, i)' = Held(d, i)
                          /\ reply'[Caller] = reply[Caller]
                          /\ stage'[Caller] = stage[Caller]
  PROVE  ConnectionsAwaited'
<1>1. \A d \in Pids : \A i \in Slots(d)' :
        Mine(d, i)' => i \in Slots(d) /\ Mine(d, i) /\ Awaited(d, i)'
  BY DEF ConnectionsAwaited, Mine, Awaited
<1>2. ASSUME NEW d \in Pids, NEW i \in Slots(d)', Mine(d, i)',
             NEW e \in Pids, NEW j \in Slots(e)', Mine(e, j)'
      PROVE  d = e /\ i = j
  BY <1>1, <1>2 DEF ConnectionsAwaited
<1> QED BY <1>1, <1>2 DEF ConnectionsAwaited

(* Nobody waits: a caller that is not calling, or has its answer.           *)
LEMMA NoneOpen ==
  ASSUME ConnectionsAwaited, NEW d \in Pids, NEW i \in Slots(d),
         stage[Caller] \notin Calling \/ reply[Caller] # "none"
  PROVE  ~Mine(d, i)
BY DEF ConnectionsAwaited, Awaited

(* A step that leaves the connections alone, of a caller that does not wait *)
(* for an answer unless the step leaves the caller alone too.               *)
LEMMA QuietAwaited ==
  ASSUME ConnectionsAwaited, UNCHANGED <<backlog, job>>,
         \/ UNCHANGED <<stage, reply>>
         \/ stage[Caller] \notin Calling \/ reply[Caller] # "none"
  PROVE  ConnectionsAwaited'
<1>1. \A d \in Pids : Slots(d)' = Slots(d) /\ \A i : Held(d, i)' = Held(d, i)
  BY DEF Slots, Held
<1>2. \A d \in Pids : \A i : Mine(d, i)' <=> Mine(d, i)
  BY <1>1 DEF Mine
<1> QED BY <1>1, <1>2, NoneOpen, StillAwaited

(* A process's end: the caller reads an EOF only when the connection was its.*)
LEMMA HangUpAwaited ==
  ASSUME OneCaller, Typed, ConnectionsAwaited, NEW h \in Pids, HangUp(h),
         UNCHANGED stage \/ stage[Caller] \notin Calling
  PROVE  ConnectionsAwaited'
<1>1. ASSUME NEW d \in Pids, NEW i \in Slots(d)', Mine(d, i)'
      PROVE  d # h /\ i \in Slots(d) /\ Held(d, i)' = Held(d, i)
  <2>1. d # h
    <3>1. SUFFICES ASSUME d = h PROVE FALSE
      OBVIOUS
    <3>2. backlog'[d] = <<>> /\ job'[d] = NoConnection
      BY <3>1 DEF HangUp, Typed
    <3>3. i = 0
      BY <3>2 DEF Slots
    <3> QED BY <1>1, <3>2, <3>3, TheCaller DEF Mine, Held, NoConnection
  <2>2. backlog'[d] = backlog[d] /\ job'[d] = job[d]
    BY <2>1 DEF HangUp, Typed
  <2> QED BY <2>1, <2>2 DEF Slots, Held
<1>2. ASSUME NEW d \in Pids, NEW i \in Slots(d)', Mine(d, i)'
      PROVE  /\ reply'[Caller] = reply[Caller]
             /\ stage'[Caller] = stage[Caller]
  <2>1. d # h /\ i \in Slots(d) /\ Mine(d, i)
    BY <1>1, <1>2 DEF Mine
  <2>2. \A j \in Slots(h) : ~Mine(h, j)
    BY <2>1 DEF ConnectionsAwaited
  <2>3. job[h].from # Caller
    <3>1. 0 \in Slots(h)
      BY DEF Slots, Typed
    <3> QED BY <2>2, <3>1 DEF Mine, Held
  <2>4. \A j \in 1..Len(backlog[h]) : backlog[h][j].from # Caller
    BY <2>2 DEF Mine, Held, Slots
  <2>5. Caller \notin PeersOf(h)
    BY <2>3, <2>4 DEF PeersOf
  <2>6. reply'[Caller] = reply[Caller]
    BY <2>5, TheCaller DEF HangUp
  <2>7. stage[Caller] \in Calling
    BY <2>1 DEF ConnectionsAwaited, Awaited
  <2> QED BY <2>6, <2>7
<1> QED BY <1>1, <1>2, StillAwaited

(* SIGTERM: the poke it queues is nobody's connection.                      *)
LEMMA SignalAwaited ==
  ASSUME OneCaller, Typed, ConnectionsAwaited, NEW h \in Pids, Signal(h),
         stage[Caller] \notin Calling
  PROVE  ConnectionsAwaited'
<1>1. CASE pc[h] \in {"boot", "write"}
  BY <1>1, HangUpAwaited DEF Signal, Die
<1>2. CASE pc[h] \notin {"boot", "write"} /\ Reachable /\ HasRoom
  <2>1. ASSUME NEW d \in Pids, NEW i \in Slots(d)', Mine(d, i)'
        PROVE  i \in Slots(d) /\ Mine(d, i)
    <3>1. job'[d] = job[d]
      BY <1>2 DEF Signal
    <3>2. CASE d # path
      <4>1. backlog'[d] = backlog[d]
        BY <1>2, <3>2 DEF Signal, Typed
      <4> QED BY <2>1, <3>1, <4>1 DEF Slots, Mine, Held
    <3>3. CASE d = path
      <4>1. /\ backlog'[d] = Append(backlog[d], NoConnection)
            /\ backlog[d] \in Seq(Connections)
        BY <1>2, <3>3 DEF Signal, Typed
      <4>2. /\ Len(backlog'[d]) = Len(backlog[d]) + 1
            /\ backlog'[d][Len(backlog[d]) + 1] = NoConnection
            /\ \A k \in 1..Len(backlog[d]) : backlog'[d][k] = backlog[d][k]
            /\ Len(backlog[d]) \in Nat
        BY <4>1, NoConnectionTyped
      <4>3. i # Len(backlog[d]) + 1
        BY <2>1, <4>2, TheCaller DEF Mine, Held, NoConnection
      <4> QED BY <2>1, <3>1, <4>2, <4>3 DEF Slots, Mine, Held
    <3> QED BY <3>2, <3>3
  <2> QED BY <2>1, NoneOpen, StillAwaited
<1>3. CASE pc[h] \notin {"boot", "write"} /\ ~(Reachable /\ HasRoom)
  BY <1>3, QuietAwaited DEF Signal
<1> QED BY <1>1, <1>2, <1>3

(* The end of a parse: its connection is answered and closed.               *)
LEMMA FinishParseAwaited ==
  ASSUME OneCaller, Typed, ConnectionsAwaited, NEW h \in Pids, FinishParse(h)
  PROVE  ConnectionsAwaited'
<1>1. backlog' = backlog /\ job' = [job EXCEPT ![h] = NoConnection] /\ stage' = stage
  BY DEF FinishParse, callerVars
<1>2. ASSUME NEW d \in Pids, NEW i \in Slots(d)', Mine(d, i)'
      PROVE  i \in Slots(d) /\ Held(d, i)' = Held(d, i) /\ (d # h \/ i # 0)
  <2>1. d # h \/ i # 0
    BY <1>1, <1>2, TheCaller DEF Mine, Held, NoConnection, Typed
  <2> QED BY <1>1, <2>1 DEF Slots, Held, Typed
<1>3. ASSUME NEW d \in Pids, NEW i \in Slots(d)', Mine(d, i)'
      PROVE  reply'[Caller] = reply[Caller]
  <2>1. i \in Slots(d) /\ Mine(d, i) /\ (d # h \/ i # 0)
    BY <1>2, <1>3 DEF Mine
  <2>2. 0 \in Slots(h)
    BY DEF Slots, Typed
  <2>3. ~Mine(h, 0)
    BY <2>1, <2>2 DEF ConnectionsAwaited
  <2> QED BY <2>3, TheCaller DEF FinishParse, Send, Mine, Held
<1> QED BY <1>1, <1>2, <1>3, StillAwaited

(* A caller that gives up has no connection left.                           *)
LEMMA AbandonAwaited ==
  ASSUME OneCaller, Typed, Abandon(Caller)
  PROVE  ConnectionsAwaited'
<1> DEFINE Cut(e) == IF e.from = Caller THEN [e EXCEPT !.from = Nobody] ELSE e
<1>1. \A e \in Connections : Cut(e).from # Caller
  BY TheCaller DEF Connections
<1>2. /\ backlog' = [d \in Pids |-> [i \in 1..Len(backlog[d]) |-> Cut(backlog[d][i])]]
      /\ job' = [d \in Pids |-> Cut(job[d])]
  BY DEF Abandon
<1> HIDE DEF Cut
<1>3. ASSUME NEW d \in Pids, NEW i \in Slots(d)'
      PROVE  ~Mine(d, i)'
  <2>1. /\ backlog[d] \in Seq(Connections) /\ job[d] \in Connections
    BY DEF Typed
  <2>2. CASE i = 0
    BY <1>1, <1>2, <2>1, <2>2 DEF Mine, Held
  <2>3. CASE i # 0
    <3>1. backlog'[d] = [k \in 1..Len(backlog[d]) |-> Cut(backlog[d][k])]
      BY <1>2
    <3>2. Len(backlog'[d]) = Len(backlog[d])
      <4>1. backlog'[d] \in Seq(Connections) /\ DOMAIN backlog'[d] = 1..Len(backlog[d])
        BY <3>1, TypedAbandon, TheCaller
      <4> QED BY <4>1, <2>1
    <3>3. i \in 1..Len(backlog[d])
      BY <2>3, <3>2 DEF Slots
    <3>4. backlog'[d][i] = Cut(backlog[d][i]) /\ backlog[d][i] \in Connections
      BY <2>1, <3>1, <3>3
    <3> QED BY <1>1, <2>3, <3>4 DEF Mine, Held
  <2> QED BY <2>2, <2>3
<1> QED BY <1>3 DEF ConnectionsAwaited

(* connect: the new connection is the only one, for none was open.          *)
LEMMA ConnectAwaited ==
  ASSUME OneCaller, Typed, ConnectionsAwaited,
         NEW cmd \in {"ping", "shutdown", "parse"}, NEW next \in Calling,
         Connect(Caller, cmd, next), stage[Caller] \notin Calling,
         cmd = "shutdown" => next = "stopping"
  PROVE  ConnectionsAwaited'
<1> DEFINE e == [from |-> Caller, cmd |-> cmd]
<1>1. /\ path \in Pids /\ backlog' = [backlog EXCEPT ![path] = Append(@, e)]
      /\ job' = job
  BY DEF Connect, Reachable
<1>2. reply'[Caller] = "none" /\ stage'[Caller] = next
  BY TheCaller DEF Connect, Go, Typed
<1>3. ASSUME NEW d \in Pids, NEW i \in Slots(d)', Mine(d, i)'
      PROVE  d = path /\ i = Len(backlog[path]) + 1 /\ Held(d, i)' = e
  <2>1. job'[d] = job[d] /\ 0 \in Slots(d) /\ backlog[d] \in Seq(Connections)
    BY <1>1 DEF Slots, Typed
  <2>2. i # 0
    BY <1>3, <2>1, NoneOpen DEF Mine, Held
  <2>3. d = path
    <3>1. SUFFICES ASSUME d # path PROVE FALSE
      OBVIOUS
    <3>2. backlog'[d] = backlog[d]
      BY <1>1, <3>1 DEF Typed
    <3> QED BY <1>3, <2>2, <3>2, NoneOpen DEF Slots, Mine, Held
  <2>4. backlog'[d] = Append(backlog[d], e) /\ e \in Connections
    BY <1>1, <2>3, TheCaller DEF Typed, Connections
  <2> HIDE DEF e
  <2>5. /\ Len(backlog'[d]) = Len(backlog[d]) + 1
        /\ backlog'[d][Len(backlog[d]) + 1] = e
        /\ \A k \in 1..Len(backlog[d]) : backlog'[d][k] = backlog[d][k]
        /\ Len(backlog[d]) \in Nat
    BY <2>1, <2>4
  <2>6. i \notin 1..Len(backlog[d])
    <3>1. SUFFICES ASSUME i \in 1..Len(backlog[d]) PROVE FALSE
      OBVIOUS
    <3>2. i \in Slots(d) /\ Mine(d, i)
      BY <1>3, <2>2, <2>5, <3>1 DEF Slots, Mine, Held
    <3> QED BY <3>2, NoneOpen
  <2>7. i = Len(backlog[d]) + 1
    BY <2>2, <2>5, <2>6 DEF Slots
  <2> QED BY <2>2, <2>3, <2>5, <2>7 DEF Held
<1>4. ASSUME NEW d \in Pids, NEW i \in Slots(d)', Mine(d, i)'
      PROVE  Awaited(d, i)'
  BY <1>2, <1>3, <1>4 DEF Awaited
<1> HIDE DEF e
<1>5. ASSUME NEW d \in Pids, NEW i \in Slots(d)', Mine(d, i)',
             NEW f \in Pids, NEW j \in Slots(f)', Mine(f, j)'
      PROVE  d = f /\ i = j
  BY <1>3, <1>5
<1> QED BY <1>4, <1>5 DEF ConnectionsAwaited

(* accept: the connection at the head moves to the job or is answered, the  *)
(* others move up.                                                          *)
LEMMA AcceptAwaited ==
  ASSUME OneCaller, Typed, ConnectionsAwaited, NEW h \in Pids, Accept(h)
  PROVE  ConnectionsAwaited'
<1> DEFINE e == Head(backlog[h])
<1>1. /\ backlog[h] # <<>> /\ backlog' = [backlog EXCEPT ![h] = Tail(@)]
      /\ stage' = stage
  BY DEF Accept, callerVars
<1>2. /\ backlog[h] \in Seq(Connections) /\ Len(backlog[h]) \in Nat \ {0}
      /\ e = backlog[h][1]
  BY <1>1 DEF Typed
<1>3. /\ backlog'[h] = Tail(backlog[h])
      /\ \A d \in Pids : d # h => backlog'[d] = backlog[d]
  BY <1>1 DEF Typed
<1>4. /\ Len(backlog'[h]) = Len(backlog[h]) - 1
      /\ \A k \in 1..(Len(backlog[h]) - 1) : backlog'[h][k] = backlog[h][k+1]
  BY <1>2, <1>3
<1>5. \/ job' = job
      \/ job' = [job EXCEPT ![h] = e] /\ reply' = reply
  BY DEF Accept, HandleShutdown
<1>6. reply' = reply \/ \E r : Send(e, r)
  BY DEF Accept, HandleShutdown
<1> HIDE DEF e
<1> DEFINE parse == job'[h] # job[h]
           Old(d, i) == IF d = h /\ (i # 0 \/ parse) THEN i + 1 ELSE i
<1>7. parse => job'[h] = e /\ reply' = reply
  BY <1>5 DEF Typed
<1>8. \A d \in Pids : d # h => job'[d] = job[d]
  BY <1>5 DEF Typed
<1>9. ASSUME NEW d \in Pids, NEW i \in Slots(d)'
      PROVE  Old(d, i) \in Slots(d) /\ Held(d, i)' = Held(d, Old(d, i))
  <2>1. CASE d # h
    BY <1>3, <1>8, <2>1 DEF Slots, Held
  <2>2. CASE d = h
    <3>1. i \in 0..(Len(backlog[h]) - 1)
      BY <1>4, <2>2 DEF Slots
    <3>2. CASE i # 0
      BY <1>2, <1>4, <2>2, <3>1, <3>2 DEF Slots, Held
    <3>3. CASE i = 0 /\ parse
      BY <1>2, <1>7, <2>2, <3>3 DEF Slots, Held
    <3>4. CASE i = 0 /\ ~parse
      BY <1>2, <2>2, <3>4 DEF Slots, Held
    <3> QED BY <3>2, <3>3, <3>4
  <2> QED BY <2>1, <2>2
<1>10. ASSUME NEW d \in Pids, NEW i \in Slots(d)', NEW j \in Slots(d)',
              Old(d, i) = Old(d, j)
       PROVE  i = j
  BY <1>10 DEF Slots
<1>11. ASSUME NEW d \in Pids, NEW i \in Slots(d)', ~parse
       PROVE  d # h \/ Old(d, i) # 1
  BY <1>11 DEF Slots
<1> HIDE DEF Old
<1>12. ASSUME NEW d \in Pids, NEW i \in Slots(d)', Mine(d, i)'
       PROVE  Old(d, i) \in Slots(d) /\ Mine(d, Old(d, i))
  BY <1>9, <1>12 DEF Mine
<1>13. ASSUME NEW d \in Pids, NEW i \in Slots(d)', Mine(d, i)'
       PROVE  reply'[Caller] = reply[Caller]
  <2>1. CASE parse
    BY <2>1, <1>7
  <2>2. CASE ~parse
    <3>1. d # h \/ Old(d, i) # 1
      BY <1>11, <2>2
    <3>2. 1 \in Slots(h)
      BY <1>2 DEF Slots
    <3>3. ~Mine(h, 1)
      BY <1>12, <1>13, <3>1, <3>2 DEF ConnectionsAwaited
    <3>4. e.from # Caller
      BY <1>2, <3>3 DEF Mine, Held
    <3> QED BY <1>6, <3>4, TheCaller DEF Send
  <2> QED BY <2>1, <2>2
<1> HIDE DEF parse
<1>14. ASSUME NEW d \in Pids, NEW i \in Slots(d)', Mine(d, i)'
       PROVE  Awaited(d, i)'
  <2>1. Awaited(d, Old(d, i))
    BY <1>12, <1>14 DEF ConnectionsAwaited
  <2> QED BY <1>1, <1>9, <1>13, <1>14, <2>1 DEF Awaited
<1>15. ASSUME NEW d \in Pids, NEW i \in Slots(d)', Mine(d, i)',
              NEW f \in Pids, NEW j \in Slots(f)', Mine(f, j)'
       PROVE  d = f /\ i = j
  <2>1. d = f /\ Old(d, i) = Old(f, j)
    BY <1>12, <1>15 DEF ConnectionsAwaited
  <2> QED BY <1>10, <2>1
<1> QED BY <1>14, <1>15 DEF ConnectionsAwaited

(* Connections are awaited after a daemon's step ...                        *)
LEMMA DaemonAwaited ==
  ASSUME OneCaller, Typed, ConnectionsAwaited, NEW d \in Pids,
         DaemonStep(d) \/ Crash(d)
  PROVE  ConnectionsAwaited'
<1> USE DEF callerVars
<1>1. CASE \/ Boot(d) \/ WriteInitialState(d) \/ LoadEngine(d) \/ OpenSocket(d)
           \/ Announce(d) \/ CheckQuit(d) \/ Leave(d) \/ ClearState(d)
  BY <1>1, QuietAwaited
     DEF Boot, WriteInitialState, LoadEngine, OpenSocket, Announce, CheckQuit,
         Leave, ClearState
<1>2. CASE Accept(d) BY <1>2, AcceptAwaited
<1>3. CASE FinishParse(d) BY <1>3, FinishParseAwaited
<1>4. CASE TeardownSocket(d) BY <1>4, HangUpAwaited DEF TeardownSocket
<1>5. CASE Crash(d) BY <1>5, HangUpAwaited DEF Crash, Die
<1> QED BY <1>1, <1>2, <1>3, <1>4, <1>5 DEF DaemonStep

(* ... and after a caller's.                                                *)
LEMMA CallerAwaited ==
  ASSUME OneCaller, Typed, ConnectionsAwaited, NEW c \in Callers,
         \/ CallerStep(c) \/ StartRead(c) \/ StopRead(c) \/ ParseBegin(c)
         \/ GiveUp(c) \/ StartTimeout(c) \/ StartKill(c)
         \/ StopSignal(c) \/ StopKill(c) \/ Killed(c)
  PROVE  ConnectionsAwaited'
<1> USE DEF daemonVars, historyVars
<1>0. c = Caller
  BY TheCaller
<1>1. CASE StartConnect(c)
  BY <1>0, <1>1, ConnectAwaited, QuietAwaited DEF StartConnect, Refused, Calling
<1>2. CASE StopConnect(c)
  BY <1>0, <1>2, ConnectAwaited, QuietAwaited DEF StopConnect, Refused, Calling
<1>3. CASE ParseConnect(c)
  BY <1>0, <1>3, ConnectAwaited, QuietAwaited DEF ParseConnect, Refused, Calling
<1>4. CASE \/ StartRead(c) \/ StartSpawn(c) \/ StartPoll(c) \/ StartReadState(c)
           \/ StartTimeout(c) \/ StartReap(c) \/ StopRead(c) \/ StopSeesDead(c) \/ StopClear(c)
           \/ ParseBegin(c)
  BY <1>0, <1>4, QuietAwaited
     DEF StartRead, StartSpawn, StartPoll, StartReadState, StartTimeout,
         StartReap, StopRead, StopSeesDead, StopClear, ParseBegin, Calling
<1>5. CASE StartReuse(c) \/ StopAnswered(c) \/ ParseAnswered(c)
  BY <1>0, <1>5, QuietAwaited DEF StartReuse, StopAnswered, ParseAnswered, Delivers
<1>6. CASE StartTerminate(c)
  BY <1>0, <1>6, SignalAwaited, QuietAwaited DEF StartTerminate, Alive, Calling
<1>7. CASE StopSignal(c)
  BY <1>0, <1>7, SignalAwaited DEF StopSignal, Alive, Calling
<1>8. CASE StartKill(c) \/ StopKill(c)
  BY <1>0, <1>8, HangUpAwaited DEF StartKill, StopKill, Die, Alive, Calling
<1>9. CASE GiveUp(c) \/ Killed(c)
  BY <1>0, <1>9, AbandonAwaited DEF GiveUp, Killed
<1> QED BY <1>1, <1>2, <1>3, <1>4, <1>5, <1>6, <1>7, <1>8, <1>9 DEF CallerStep
-----------------------------------------------------------------------------
(* The daemons.                                                             *)

(* Nothing is known of a process that does not live: a step of the one that *)
(* does has to account for that one only.                                   *)
LEMMA TheOneAlive ==
  ASSUME DaemonKnown, NEW d \in Pids, Alive(d),
         \A e \in Pids : e # d => pc'[e] = pc[e] /\ quit'[e] = quit[e],
         pc'[d] # "unborn", file'.pid \in {file.pid, d, Nobody},
         Alive(d)' => Recorded(d)' /\ Known(d)'
  PROVE  DaemonKnown'
<1>1. \A e \in Pids : e # d => ~Alive(e)
  BY DEF DaemonKnown
<1>2. \A e \in Pids : e # d => ~Alive(e)'
  BY <1>1 DEF Alive
<1>3. \A e \in Pids : pc'[e] = "unborn" => ~quit'[e] /\ file'.pid # e
  BY PekAssumption DEF DaemonKnown
<1> QED BY <1>2, <1>3 DEF DaemonKnown

(* A daemon that is neither on its way up nor down serves, and is on record.*)
LEMMA ServesThen ==
  ASSUME Typed, DaemonKnown, NEW d \in Pids, Alive(d), ~Halfway(d)
  PROVE  /\ pc[d] \in {"announce", "check", "accept", "parse"} /\ ~quit[d]
         /\ path = d /\ file.pid = d /\ Reachable
<1>1. Recorded(d) /\ pc[d] \in DaemonStages
  BY DEF DaemonKnown, Typed
<1>2. pc[d] \in {"announce", "check", "accept", "parse"} /\ ~quit[d]
  BY <1>1 DEF Halfway, Alive, DaemonStages, Listening
<1>3. path = d /\ \E s : file = [pid |-> d, status |-> s]
  <2>1. CASE pc[d] = "announce"
    BY <1>1, <2>1 DEF Recorded
  <2>2. CASE pc[d] \in {"check", "accept", "parse"}
    BY <1>1, <2>2 DEF Recorded
  <2> QED BY <1>2, <2>1, <2>2
<1>4. file.pid = d
  BY <1>3
<1> QED BY <1>2, <1>3, <1>4 DEF Reachable, Listening

(* So does one that a caller connects to, to ping it or to stop it.         *)
LEMMA AskedServes ==
  ASSUME DaemonKnown, NEW d \in Pids, Alive(d),
         stage[Caller] \in {"start_connect", "stop_connect"}
  PROVE  ~Halfway(d)
BY DEF DaemonKnown, Known, Halfway, Starting, Elsewhere

(* A live daemon on record as ready serves.                                 *)
LEMMA ReadyServes ==
  ASSUME Typed, DaemonKnown, NEW d \in Pids, Alive(d),
         file = [pid |-> d, status |-> "ready"]
  PROVE  Serving(d)
<1>1. Recorded(d) /\ pc[d] \in DaemonStages
  BY DEF DaemonKnown, Typed
<1>2. file.pid = d /\ file.status # "starting" /\ file.status # "shutting_down"
  OBVIOUS
<1>3. /\ file # [pid |-> d, status |-> "starting"]
      /\ file # [pid |-> d, status |-> "shutting_down"]
  BY <1>2
<1>4. pc[d] \in {"check", "accept", "parse", "leave"}
  BY <1>1, <1>2, <1>3 DEF Recorded, Alive, DaemonStages, Listening
<1> QED BY <1>1, <1>4 DEF Recorded, Serving, Listening

(* A daemon's own step keeps what is known of it ...                        *)
LEMMA DaemonStepKnown ==
  ASSUME OneCaller, Typed, ConnectionsAwaited, DaemonKnown,
         NEW d \in Pids, DaemonStep(d) \/ Crash(d)
  PROVE  DaemonKnown' /\ Alive(d)
<1> USE DEF At, callerVars, Listening
<1>0. /\ pc \in [Pids -> DaemonStages] /\ quit \in [Pids -> BOOLEAN]
      /\ Nobody \notin Pids
  BY PekAssumption DEF Typed
<1>1. Alive(d)
  BY DEF DaemonStep, Boot, WriteInitialState, LoadEngine, OpenSocket, Announce,
         CheckQuit, Accept, FinishParse, Leave, TeardownSocket, ClearState,
         Crash, Alive
<1>2. Recorded(d) /\ Known(d)
  BY <1>1 DEF DaemonKnown
<1>3. \A e \in Pids : e # d => pc'[e] = pc[e] /\ quit'[e] = quit[e]
  BY <1>0 DEF DaemonStep, Boot, WriteInitialState, LoadEngine, OpenSocket,
         Announce, CheckQuit, Accept, HandleShutdown, FinishParse, Leave,
         TeardownSocket, ClearState, Crash, Die
<1>4. pc'[d] # "unborn"
  BY <1>0 DEF DaemonStep, Boot, WriteInitialState, LoadEngine, OpenSocket,
         Announce, CheckQuit, Accept, HandleShutdown, FinishParse, Leave,
         TeardownSocket, ClearState, Crash, Die
<1>6. file'.pid \in {file.pid, d, Nobody}
  BY DEF DaemonStep, Boot, WriteInitialState, LoadEngine, OpenSocket, Announce,
         CheckQuit, Accept, FinishParse, Leave, TeardownSocket, ClearState,
         Crash, Record, NoFile
<1>5. ASSUME Alive(d)'
      PROVE  Recorded(d)' /\ Known(d)'
  <2>1. CASE Boot(d)
    BY <1>0, <1>2, <2>1 DEF Boot, Recorded, Known
  <2>2. CASE WriteInitialState(d)
    BY <1>0, <1>2, <2>2 DEF WriteInitialState, Record, Recorded, Known
  <2>3. CASE LoadEngine(d)
    BY <1>0, <1>2, <1>5, <2>3 DEF LoadEngine, Record, Recorded, Known, Alive
  <2>4. CASE OpenSocket(d)
    BY <1>0, <1>2, <1>5, <2>4 DEF OpenSocket, Record, Recorded, Known, Alive
  <2>5. CASE Announce(d)
    BY <1>0, <1>2, <2>5 DEF Announce, Record, Recorded, Known
  <2>6. CASE CheckQuit(d)
    BY <1>0, <1>2, <2>6 DEF CheckQuit, Recorded, Known
  <2>9. CASE Leave(d)
    BY <1>0, <1>2, <2>9 DEF Leave, Record, Recorded, Known
  <2>10. CASE TeardownSocket(d)
    BY <1>0, <1>2, <2>10, TheCaller DEF TeardownSocket, HangUp, Recorded, Known
  <2>11. CASE ClearState(d) \/ Crash(d)
    BY <1>0, <1>5, <2>11 DEF ClearState, Crash, Die, Alive
  <2>7. CASE Accept(d)
    <3> DEFINE e == Head(backlog[d])
    <3>1. pc[d] = "accept" /\ 1 \in Slots(d) /\ e = Held(d, 1)
      BY <2>7 DEF Accept, Typed, Slots, Held
    <3>2. /\ file' = file /\ path' = path /\ stage' = stage
          /\ own' = own /\ seen' = seen
      BY <2>7 DEF Accept
    <3> HIDE DEF e
    <3>3. e.from = Caller => Awaited(d, 1)
      BY <3>1 DEF ConnectionsAwaited, Mine
    <3>4. CASE quit[d]
      <4>1. pc'[d] = "leave" /\ quit' = quit /\ Send(e, "closed")
        BY <1>0, <2>7, <3>4 DEF Accept, e
      <4>2. stage[Caller] \in {"stopping"} => reply'[Caller] = reply[Caller]
        BY <1>2, <3>3, <3>4, <4>1, TheCaller DEF Known, Elsewhere, Send, Awaited
      <4> QED BY <1>2, <3>1, <3>2, <3>4, <4>1, <4>2 DEF Recorded, Known
    <3>5. CASE ~quit[d] /\ HandleShutdown(d, e) /\ e.cmd = "shutdown"
      <4>1. pc'[d] = "check" /\ quit'[d] = Delivered(e) /\ Send(e, "ok")
        BY <1>0, <3>5 DEF HandleShutdown
      <4>2. CASE Delivered(e)
        <5>1. e.from = Caller
          BY <4>2, TheCaller DEF Delivered
        <5>2. stage[Caller] = "stopping" /\ reply'[Caller] = "ok"
          BY <3>1, <3>3, <3>5, <4>1, <5>1, TheCaller DEF Awaited, Send
        <5> QED BY <1>2, <3>1, <3>2, <4>1, <5>2 DEF Recorded, Known, Starting
      <4>3. CASE ~Delivered(e)
        BY <1>2, <3>1, <3>2, <4>1, <4>3 DEF Recorded, Known
      <4> QED BY <4>2, <4>3
    <3>6. CASE ~quit[d] /\ pc'[d] \in {"check", "parse"} /\ quit' = quit
      BY <1>2, <3>1, <3>2, <3>6 DEF Recorded, Known
    <3>7. \/ ~quit[d] /\ HandleShutdown(d, e) /\ e.cmd = "shutdown"
          \/ ~quit[d] /\ pc'[d] \in {"check", "parse"} /\ quit' = quit
          \/ quit[d]
      BY <1>0, <2>7 DEF Accept, e
    <3> QED BY <3>4, <3>5, <3>6, <3>7
  <2>8. CASE FinishParse(d)
    <3>1. /\ file' = file /\ path' = path /\ stage' = stage /\ quit' = quit
          /\ own' = own /\ seen' = seen /\ pc[d] = "parse" /\ pc'[d] = "check"
      BY <1>0, <2>8 DEF FinishParse
    <3>2. stage[Caller] = "stopping" /\ reply[Caller] = "ok"
            => reply'[Caller] = reply[Caller]
      <4>1. SUFFICES ASSUME reply[Caller] = "ok" PROVE reply'[Caller] = reply[Caller]
        OBVIOUS
      <4>2. 0 \in Slots(d)
        BY DEF Slots, Typed
      <4>3. job[d].from # Caller
        BY <4>1, <4>2, NoneOpen DEF Mine, Held
      <4> QED BY <2>8, <4>3, TheCaller DEF FinishParse, Send
    <3> QED BY <1>2, <3>1, <3>2 DEF Recorded, Known
  <2> QED BY <2>1, <2>2, <2>3, <2>4, <2>5, <2>6, <2>7, <2>8, <2>9, <2>10, <2>11
          DEF DaemonStep
<1> QED BY <1>1, <1>3, <1>4, <1>5, <1>6, TheOneAlive

(* ... and so does a step of the caller that leaves them alone.             *)
LEMMA CallerKnown ==
  ASSUME DaemonKnown, UNCHANGED <<pc, quit>>, file' \in {file, NoFile},
         \A d \in Pids : Alive(d) => Recorded(d)' /\ Known(d)'
  PROVE  DaemonKnown'
<1>1. \A d \in Pids : Alive(d)' = Alive(d)
  BY DEF Alive
<1>2. \A d \in Pids : pc'[d] = "unborn" => ~quit'[d] /\ file'.pid # d
  BY PekAssumption DEF DaemonKnown, NoFile
<1> QED BY <1>1, <1>2 DEF DaemonKnown

(* SIGTERM by a caller that is done with the daemon.                        *)
LEMMA SignalKnown ==
  ASSUME Typed, DaemonKnown, NEW d \in Pids, Alive(d), Signal(d),
         UNCHANGED <<file, own, seen>>,
         \/ stage[Caller] \in Starting /\ stage'[Caller] = "reap"
         \/ stage[Caller] \in Stopping /\ stage'[Caller] = "kill"
  PROVE  DaemonKnown'
<1>0. /\ pc \in [Pids -> DaemonStages] /\ quit \in [Pids -> BOOLEAN]
      /\ Recorded(d) /\ Known(d)
  BY DEF DaemonKnown, Typed
<1>1. CASE pc[d] \in {"boot", "write"}
  <2>1. pc'[d] = "dead" /\ \A e \in Pids : e # d => pc'[e] = pc[e] /\ quit'[e] = quit[e]
    BY <1>0, <1>1 DEF Signal, Die, At
  <2> QED BY <2>1, TheOneAlive DEF Alive
<1>2. CASE pc[d] \notin {"boot", "write"}
  <2>1. /\ pc' = pc /\ path' = path /\ quit'[d]
        /\ \A e \in Pids : e # d => pc'[e] = pc[e] /\ quit'[e] = quit[e]
    BY <1>0, <1>2 DEF Signal
  <2>2. Recorded(d)'
    BY <1>0, <2>1 DEF Recorded
  <2>3. Known(d)'
    BY <1>0, <1>2, <2>1 DEF Known, Starting, Stopping, Elsewhere
  <2>4. pc'[d] # "unborn"
    BY <2>1 DEF Alive
  <2> QED BY <2>1, <2>2, <2>3, <2>4, TheOneAlive
<1> QED BY <1>1, <1>2

(* SIGKILL.                                                                 *)
LEMMA DieKnown ==
  ASSUME Typed, DaemonKnown, NEW d \in Pids, Alive(d), Die(d),
         UNCHANGED <<quit, file>>
  PROVE  DaemonKnown'
<1>1. pc'[d] = "dead" /\ \A e \in Pids : e # d => pc'[e] = pc[e] /\ quit'[e] = quit[e]
  BY DEF Typed, Die, At
<1> QED BY <1>1, TheOneAlive DEF Alive

(* A step of the caller's keeps what is known of the daemons.               *)
LEMMA StartStepKnown ==
  ASSUME OneCaller, Typed, DaemonKnown, ~hasty', NEW c \in Callers,
         \/ StartRead(c) \/ StartConnect(c) \/ StartReuse(c) \/ StartSpawn(c)
         \/ StartPoll(c) \/ StartReadState(c) \/ StartTimeout(c)
         \/ StartTerminate(c) \/ StartReap(c) \/ StartKill(c)
  PROVE  DaemonKnown'
<1> USE DEF daemonVars, historyVars, Go, Keep, End, Starting, Stopping, Elsewhere, Delivers
<1>0. /\ c = Caller /\ stage \in [Callers -> CallerStages]
      /\ seen \in [Callers -> Pids \cup {Nobody}] /\ own \in [Callers -> Pids \cup {Nobody}]
      /\ pc \in [Pids -> DaemonStages] /\ quit \in [Pids -> BOOLEAN]
      /\ Nobody \notin Pids /\ Caller \in Callers
  BY PekAssumption, TheCaller DEF Typed
<1>a. ASSUME NEW d \in Pids, Alive(d)
      PROVE  Recorded(d) /\ Known(d) /\ \A e \in Pids : Alive(e) => d = e
  BY <1>a DEF DaemonKnown
<1>1. CASE StartRead(c)
  <2>1. ASSUME NEW d \in Pids, Alive(d)
        PROVE  Recorded(d)' /\ Known(d)'
    <3>1. Recorded(d) /\ Known(d) /\ ~Halfway(d)
      BY <1>1, <1>a, <2>1 DEF StartRead, Haste
    <3>2. /\ pc[d] \in {"announce", "check", "accept", "parse"} /\ ~quit[d]
          /\ Alive(file.pid)
      BY <2>1, <3>1, ServesThen
    <3>3. stage'[Caller] = "start_connect" /\ UNCHANGED <<pc, quit, path, file>>
      BY <1>0, <1>1, <3>2 DEF StartRead
    <3> QED BY <3>1, <3>2, <3>3 DEF Recorded, Known
  <2> QED BY <1>1, <2>1, CallerKnown DEF StartRead
<1>2. CASE StartConnect(c)
  <2>1. ASSUME NEW d \in Pids, Alive(d)
        PROVE  Recorded(d)' /\ Known(d)'
    <3>1. Recorded(d) /\ Known(d) /\ ~Halfway(d)
      BY <1>0, <1>2, <1>a, <2>1, AskedServes DEF StartConnect
    <3>2. /\ pc[d] \in {"announce", "check", "accept", "parse"} /\ ~quit[d]
          /\ Reachable
      BY <2>1, <3>1, ServesThen
    <3>3. stage'[Caller] = "pinging" /\ UNCHANGED <<pc, quit, path, file>>
      BY <1>0, <1>2, <3>2 DEF StartConnect, Connect, Refused
    <3> QED BY <3>1, <3>2, <3>3 DEF Recorded, Known
  <2> QED BY <1>2, <2>1, CallerKnown DEF StartConnect, Connect, Refused
<1>3. CASE StartReuse(c)
  <2>1. ASSUME NEW d \in Pids, Alive(d)
        PROVE  Recorded(d)' /\ Known(d)'
    <3>1. Recorded(d) /\ Known(d) /\ stage[Caller] = "pinging"
      BY <1>0, <1>3, <1>a, <2>1 DEF StartReuse
    <3>2. stage'[Caller] = "idle" /\ UNCHANGED <<pc, quit, path, file>>
      BY <1>0, <1>3 DEF StartReuse
    <3> QED BY <3>1, <3>2 DEF Recorded, Known
  <2> QED BY <1>3, <2>1, CallerKnown DEF StartReuse
<1>4. CASE StartSpawn(c)
  <2>1. PICK d \in Pids : /\ pc[d] = "unborn" /\ At(d, "boot")
                          /\ own' = [own EXCEPT ![c] = d]
    BY <1>4 DEF StartSpawn
  <2>2. /\ pc' = [pc EXCEPT ![d] = "boot"] /\ own'[Caller] = d /\ quit' = quit
        /\ stage'[Caller] = "poll" /\ file' = file /\ file.pid # d
    BY <1>0, <1>4, <2>1 DEF StartSpawn, At, DaemonKnown
  <2>3. \A e \in Pids : ~Alive(e)
    BY <1>0, <1>4, <1>a DEF StartSpawn, Known
  <2>4. ~quit[d]
    BY <2>1 DEF DaemonKnown
  <2>5. Recorded(d)' /\ Known(d)'
    BY <1>0, <2>2, <2>4 DEF Recorded, Known
  <2>6. \A e \in Pids : Alive(e)' => e = d
    BY <1>0, <2>2, <2>3 DEF Alive
  <2>7. \A e \in Pids : pc'[e] = "unborn" => ~quit'[e] /\ file'.pid # e
    BY <1>0, <2>2 DEF DaemonKnown
  <2> QED BY <2>5, <2>6, <2>7 DEF DaemonKnown
<1>5. CASE StartPoll(c) \/ StartReadState(c) \/ StartTimeout(c)
  <2>1. UNCHANGED <<pc, quit, path, file, own, seen>>
    BY <1>5 DEF StartPoll, StartReadState, StartTimeout
  <2>2. ASSUME NEW d \in Pids, Alive(d)
        PROVE  Recorded(d)' /\ Known(d)'
    <3>1. /\ Recorded(d) /\ Known(d) /\ d = own[Caller]
          /\ stage[Caller] \in {"poll", "read"}
      BY <1>0, <1>5, <1>a, <2>2 DEF StartPoll, StartReadState, StartTimeout, Known
    <3>2. stage'[Caller] \in {"idle", "poll", "read", "terminate"}
      BY <1>0, <1>5 DEF StartPoll, StartReadState, StartTimeout
    <3> QED BY <2>1, <3>1, <3>2 DEF Recorded, Known
  <2> QED BY <2>1, <2>2, CallerKnown
<1>6. CASE StartTerminate(c)
  <2>1. CASE Alive(own[c])
    <3>1. /\ own[c] \in Pids /\ Recorded(own[c]) /\ Known(own[c]) /\ Signal(own[c])
          /\ stage[Caller] = "terminate" /\ stage'[Caller] = "reap"
          /\ UNCHANGED <<file, own, seen>>
      BY <1>0, <1>6, <1>a, <2>1 DEF StartTerminate, Alive
    <3> QED BY <1>0, <2>1, <3>1, SignalKnown
  <2>2. CASE ~Alive(own[c])
    <3>1. \A d \in Pids : ~Alive(d)
      BY <1>0, <1>6, <1>a, <2>2 DEF StartTerminate, Known
    <3> QED BY <1>6, <2>2, <3>1, CallerKnown DEF StartTerminate
  <2> QED BY <2>1, <2>2
<1>7. CASE StartReap(c)
  <2>1. \A d \in Pids : ~Alive(d)
    BY <1>0, <1>7, <1>a DEF StartReap, Known
  <2> QED BY <1>7, <2>1, CallerKnown DEF StartReap
<1>8. CASE StartKill(c)
  <2>1. own[c] \in Pids /\ Alive(own[c]) /\ Die(own[c]) /\ UNCHANGED <<quit, file>>
    BY <1>8 DEF StartKill, Alive
  <2> QED BY <2>1, DieKnown
<1> QED BY <1>1, <1>2, <1>3, <1>4, <1>5, <1>6, <1>7, <1>8

(* The same for the operations of pek_stop and pek_parse.                   *)
LEMMA StopStepKnown ==
  ASSUME OneCaller, Typed, DaemonKnown, ~hasty', NEW c \in Callers,
         \/ StopRead(c) \/ StopConnect(c) \/ StopAnswered(c) \/ StopSeesDead(c)
         \/ StopSignal(c) \/ StopKill(c) \/ StopClear(c)
         \/ ParseBegin(c) \/ ParseConnect(c) \/ ParseAnswered(c) \/ GiveUp(c)
         \/ Killed(c)
  PROVE  DaemonKnown'
<1> USE DEF daemonVars, historyVars, Go, Keep, End, Starting, Stopping, Elsewhere, Delivers
<1>0. /\ c = Caller /\ stage \in [Callers -> CallerStages]
      /\ seen \in [Callers -> Pids \cup {Nobody}] /\ own \in [Callers -> Pids \cup {Nobody}]
      /\ pc \in [Pids -> DaemonStages] /\ quit \in [Pids -> BOOLEAN]
      /\ Nobody \notin Pids /\ Caller \in Callers
  BY PekAssumption, TheCaller DEF Typed
<1>a. ASSUME NEW d \in Pids, Alive(d)
      PROVE  Recorded(d) /\ Known(d) /\ \A e \in Pids : Alive(e) => d = e
  BY <1>a DEF DaemonKnown
<1>1. CASE StopRead(c)
  <2>1. ASSUME NEW d \in Pids, Alive(d)
        PROVE  Recorded(d)' /\ Known(d)'
    <3>1. Recorded(d) /\ Known(d) /\ ~Halfway(d)
      BY <1>1, <1>a, <2>1 DEF StopRead, Haste
    <3>2. /\ pc[d] \in {"announce", "check", "accept", "parse"} /\ ~quit[d]
          /\ Alive(file.pid) /\ file.pid = d /\ file # NoFile
      BY <1>0, <2>1, <3>1, ServesThen DEF NoFile
    <3>3. /\ stage'[Caller] = "stop_connect" /\ seen'[Caller] = d
          /\ UNCHANGED <<pc, quit, path, file>>
      BY <1>0, <1>1, <3>2 DEF StopRead
    <3> QED BY <3>1, <3>2, <3>3 DEF Recorded, Known
  <2> QED BY <1>1, <2>1, CallerKnown DEF StopRead
<1>2. CASE StopConnect(c)
  <2>1. ASSUME NEW d \in Pids, Alive(d)
        PROVE  Recorded(d)' /\ Known(d)'
    <3>1. Recorded(d) /\ Known(d) /\ stage[Caller] = "stop_connect" /\ ~Halfway(d)
      BY <1>0, <1>2, <1>a, <2>1, AskedServes DEF StopConnect
    <3>2. /\ pc[d] \in {"announce", "check", "accept", "parse"} /\ ~quit[d]
          /\ Reachable
      BY <2>1, <3>1, ServesThen
    <3>3. stage'[Caller] = "stopping" /\ UNCHANGED <<pc, quit, path, file, seen>>
      BY <1>0, <1>2, <3>2 DEF StopConnect, Connect, Refused
    <3> QED BY <3>1, <3>2, <3>3 DEF Recorded, Known
  <2> QED BY <1>2, <2>1, CallerKnown DEF StopConnect, Connect, Refused
<1>3. CASE StopAnswered(c)
  <2>1. ASSUME NEW d \in Pids, Alive(d)
        PROVE  Recorded(d)' /\ Known(d)'
    <3>1. Recorded(d) /\ Known(d) /\ stage[Caller] = "stopping"
      BY <1>0, <1>3, <1>a, <2>1 DEF StopAnswered
    <3>2. /\ \/ stage'[Caller] = "grace"
             \/ stage'[Caller] = "idle" /\ reply[Caller] # "ok"
          /\ UNCHANGED <<pc, quit, path, file, seen, own>>
      BY <1>0, <1>3 DEF StopAnswered
    <3> QED BY <3>1, <3>2 DEF Recorded, Known
  <2> QED BY <1>3, <2>1, CallerKnown DEF StopAnswered
<1>4. CASE StopSeesDead(c)
  <2>1. \A d \in Pids : ~Alive(d)
    BY <1>0, <1>4, <1>a DEF StopSeesDead, Known
  <2> QED BY <1>4, <2>1, CallerKnown DEF StopSeesDead
<1>5. CASE StopSignal(c)
  <2>1. /\ seen[c] \in Pids /\ Recorded(seen[c]) /\ Known(seen[c]) /\ Signal(seen[c])
        /\ stage[Caller] = "grace" /\ Alive(seen[c])
        /\ stage'[Caller] = "kill" /\ UNCHANGED <<file, own, seen>>
    BY <1>0, <1>5, <1>a DEF StopSignal, Alive
  <2> QED BY <1>0, <2>1, SignalKnown
<1>6. CASE StopKill(c)
  <2>1. seen[c] \in Pids /\ Alive(seen[c]) /\ Die(seen[c]) /\ UNCHANGED <<quit, file>>
    BY <1>6 DEF StopKill, Alive
  <2> QED BY <2>1, DieKnown
<1>7. CASE StopClear(c)
  <2>1. \A d \in Pids : ~Alive(d)
    BY <1>0, <1>7, <1>a DEF StopClear, Known
  <2> QED BY <1>7, <2>1, CallerKnown DEF StopClear
<1>8. CASE ParseBegin(c) \/ ParseConnect(c) \/ ParseAnswered(c)
           \/ GiveUp(c) \/ Killed(c)
  <2>2. stage'[Caller] \in {"idle", "parse_connect", "parsing"}
    BY <1>0, <1>8 DEF ParseBegin, ParseConnect, ParseAnswered, GiveUp, Killed,
       Connect
  <2>3. UNCHANGED <<pc, quit, path, file>>
    BY <1>8 DEF ParseBegin, ParseConnect, ParseAnswered, GiveUp, Killed, Connect,
       Refused, Abandon
  <2>4. ASSUME NEW d \in Pids, Alive(d)
        PROVE  Recorded(d)' /\ Known(d)'
    <3>1. Recorded(d) /\ Known(d)
      BY <1>a, <2>4
    <3> QED BY <2>2, <2>3, <3>1 DEF Recorded, Known
  <2> QED BY <2>3, <2>4, CallerKnown
<1> QED BY <1>1, <1>2, <1>3, <1>4, <1>5, <1>6, <1>7, <1>8

(* pek_stop says "stopped" of no daemon that still lives.                   *)
LEMMA StoppedStep ==
  ASSUME OneCaller, Typed, DaemonKnown, StoppedMeansGone, ~hasty,
         NEW c \in Callers,
         \/ CallerStep(c) \/ StartRead(c) \/ StopRead(c) \/ ParseBegin(c)
         \/ GiveUp(c) \/ StartTimeout(c) \/ StartKill(c)
         \/ StopSignal(c) \/ StopKill(c) \/ Killed(c)
  PROVE  StoppedMeansGone'
<1> USE DEF daemonVars, historyVars, Go, Keep, End, Delivers
<1>0. /\ c = Caller /\ \A b \in Callers : b = Caller
      /\ stage \in [Callers -> CallerStages] /\ answer \in [Callers -> Answers]
      /\ Caller \in Callers /\ Nobody \notin Pids
  BY TheCaller, PekAssumption DEF Typed
<1>1. CASE StopRead(c)
  <2>1. ASSUME NEW d \in Pids, Alive(d), ~hasty'
        PROVE  stage'[Caller] # "idle"
    <3>1. ~Halfway(d)
      BY <1>1, <2>1 DEF StopRead, Haste
    <3>2. Alive(file.pid) /\ file.pid = d /\ file # NoFile
      BY <1>0, <2>1, <3>1, ServesThen DEF NoFile
    <3> QED BY <1>0, <1>1, <3>2 DEF StopRead
  <2>2. stage'[Caller] = "idle" => file' = NoFile
    BY <1>0, <1>1 DEF StopRead
  <2>3. UNCHANGED pc
    BY <1>1 DEF StopRead
  <2> QED BY <1>0, <2>1, <2>2, <2>3 DEF StoppedMeansGone, Alive
<1>2. CASE StopClear(c)
  <2>1. \A d \in Pids : ~Alive(d)
    BY <1>0, <1>2 DEF StopClear, DaemonKnown, Known
  <2> QED BY <1>2, <2>1 DEF StopClear, StoppedMeansGone, Alive
<1>3. CASE \/ StartConnect(c) \/ StopConnect(c) \/ ParseConnect(c) \/ StartSpawn(c)
           \/ StartRead(c) \/ StartTimeout(c) \/ StartTerminate(c)
           \/ StopSeesDead(c) \/ StopSignal(c) \/ StopKill(c)
  <2>1. stage'[Caller] # "idle" \/ answer'[Caller].node = "parse"
    BY <1>0, <1>3
       DEF StartConnect, StopConnect, ParseConnect, Connect, Refused, StartSpawn,
           StartRead, StartTimeout, StartTerminate, StopSeesDead, StopSignal, StopKill
  <2> QED BY <1>0, <2>1 DEF StoppedMeansGone
<1>4. CASE \/ StartReuse(c) \/ StartPoll(c) \/ StartReadState(c) \/ StartReap(c)
           \/ StartKill(c) \/ StopAnswered(c) \/ ParseAnswered(c)
           \/ ParseBegin(c) \/ GiveUp(c) \/ Killed(c)
  <2>1. \/ stage'[Caller] # "idle"
        \/ answer'[Caller].node # "stop" \/ ~answer'[Caller].ok
    BY <1>0, <1>4
       DEF StartReuse, StartPoll, StartReadState, StartReap, StartKill,
           StopAnswered, ParseAnswered, ParseBegin, GiveUp, Killed
  <2> QED BY <1>0, <2>1 DEF StoppedMeansGone
<1> QED BY <1>1, <1>2, <1>3, <1>4 DEF CallerStep

(* At no step of a daemon's is there a caller to whom "stopped" was said.   *)
LEMMA DaemonStoppedStep ==
  ASSUME StoppedMeansGone, ~hasty, NEW d \in Pids, Alive(d),
         UNCHANGED <<stage, answer, hasty>>
  PROVE  StoppedMeansGone'
BY DEF StoppedMeansGone
-----------------------------------------------------------------------------
(* Theorems.                                                                *)

(* The invariant holds at first.                                            *)
LEMMA Start ==
  ASSUME OneCaller, Init
  PROVE  IInv
<1>1. Typed
  <2>1. \A d \in Pids : <<>> \in Seq(Connections)
    OBVIOUS
  <2>2. NoFile \in Records
    BY DEF NoFile, Records
  <2>3. [node |-> "none", ok |-> TRUE, pid |-> Nobody] \in Answers
    BY DEF Answers
  <2> QED BY <2>1, <2>2, <2>3, NoConnectionTyped
          DEF Typed, Init, DaemonStages, CallerStages
<1>2. ConnectionsAwaited
  <2>1. \A d \in Pids : \A i \in Slots(d) : Held(d, i) = NoConnection
    BY DEF Init, Slots, Held
  <2> QED BY <2>1, TheCaller DEF ConnectionsAwaited, Mine, NoConnection
<1>3. DaemonKnown
  BY PekAssumption DEF Init, DaemonKnown, Alive, NoFile
<1>4. StoppedMeansGone
  BY DEF Init, StoppedMeansGone
<1> QED BY <1>1, <1>2, <1>3, <1>4 DEF IInv

(* What holds of every step: its states are typed, a connection is awaited, *)
(* and the daemons are known until a node is hasty.                         *)
LEMMA Step ==
  ASSUME OneCaller, IInv, [Next]_vars
  PROVE  IInv'
<1>1. CASE UNCHANGED vars
  <2>1. Typed'
    BY <1>1 DEF vars, daemonVars, callerVars, historyVars, IInv, Typed
  <2>2. ConnectionsAwaited'
    BY <1>1, QuietAwaited DEF vars, daemonVars, callerVars, IInv
  <2>3. hasty' = hasty /\ (StoppedMeansGone => StoppedMeansGone')
    BY <1>1 DEF vars, daemonVars, callerVars, historyVars, StoppedMeansGone, Alive
  <2>4. ASSUME DaemonKnown PROVE DaemonKnown'
    <3>1. UNCHANGED <<pc, quit, path, file, stage, seen, own, reply>>
      BY <1>1 DEF vars, daemonVars, callerVars
    <3>2. \A d \in Pids : Alive(d) => Recorded(d)' /\ Known(d)'
      BY <2>4, <3>1 DEF DaemonKnown, Recorded, Known
    <3> QED BY <2>4, <3>1, <3>2, CallerKnown
  <2> QED BY <2>1, <2>2, <2>3, <2>4 DEF IInv
<1>2. ASSUME NEW d \in Pids, DaemonStep(d) \/ Crash(d)
      PROVE  IInv'
  <2>1. Typed' /\ ConnectionsAwaited'
    BY <1>2, DaemonTyped, DaemonAwaited DEF IInv
  <2>2. UNCHANGED <<stage, answer, hasty>>
    BY <1>2 DEF DaemonStep, Boot, WriteInitialState, LoadEngine, OpenSocket,
       Announce, CheckQuit, Accept, FinishParse, Leave, TeardownSocket,
       ClearState, Crash, callerVars, historyVars
  <2>3. ASSUME ~hasty PROVE DaemonKnown' /\ StoppedMeansGone'
    BY <1>2, <2>2, <2>3, DaemonStepKnown, DaemonStoppedStep DEF IInv
  <2> QED BY <2>1, <2>2, <2>3 DEF IInv
<1>3. ASSUME NEW c \in Callers,
             \/ CallerStep(c) \/ StartRead(c) \/ StopRead(c) \/ ParseBegin(c)
             \/ GiveUp(c) \/ StartTimeout(c) \/ StartKill(c)
             \/ StopSignal(c) \/ StopKill(c) \/ Killed(c)
      PROVE  IInv'
  <2>1. Typed' /\ ConnectionsAwaited'
    BY <1>3, CallerTyped, CallerAwaited DEF IInv
  <2>2. ~hasty' => ~hasty
    BY <1>3 DEF CallerStep, StartConnect, StartReuse, StartSpawn, StartPoll,
       StartTerminate, StartReap, StopConnect, StopAnswered, StopSeesDead,
       StopClear, ParseConnect, ParseAnswered, StartRead, StopRead, ParseBegin,
       GiveUp, StartTimeout, StartKill, StopSignal, StopKill, Killed, Connect,
       Refused, Delivers, StartReadState, Haste, historyVars
  <2>3. ASSUME ~hasty' PROVE DaemonKnown'
    BY <1>3, <2>2, <2>3, StartStepKnown, StopStepKnown DEF IInv, CallerStep
  <2>4. ASSUME ~hasty' PROVE StoppedMeansGone'
    BY <1>3, <2>2, <2>4, StoppedStep DEF IInv
  <2> QED BY <2>1, <2>3, <2>4 DEF IInv
<1> QED BY <1>1, <1>2, <1>3 DEF Next

(* For one pipeline, run again and again, whatever dies, is killed, times   *)
(* out or is abandoned: the invariant below which the properties hold.      *)
THEOREM Inductive ==
  ASSUME OneCaller
  PROVE  Spec => []IInv
<1>1. Init => IInv
  BY Start
<1>2. IInv /\ [Next]_vars => IInv'
  BY Step
<1> QED BY <1>1, <1>2, PTL DEF Spec

(* OneDaemon: nodes that run one after the other never have two daemons on  *)
(* one GPU and one path, also when some are killed, unless one begins to    *)
(* start or stop a daemon before the one left half-way has come up or gone. *)
THEOREM AtMostOneDaemon ==
  ASSUME OneCaller
  PROVE  Spec => []OneDaemon
<1>1. IInv => OneDaemon
  <2>1. SUFFICES ASSUME DaemonKnown PROVE Cardinality({d \in Pids : Alive(d)}) <= 1
    BY DEF IInv, OneDaemon, NeverTwoDaemons
  <2> DEFINE A == {d \in Pids : Alive(d)}
  <2>2. CASE A = {}
    BY <2>2, FS_EmptySet
  <2>3. CASE A # {}
    <3>1. PICK d : d \in A
      BY <2>3
    <3>2. \A e \in A : e = d
      BY <3>1, <2>1 DEF DaemonKnown
    <3>3. A = {d}
      BY <3>1, <3>2
    <3> QED BY <3>3, FS_Singleton
  <2> QED BY <2>2, <2>3
<1> QED BY <1>1, Inductive, PTL

(* RecordIsTrue: a live daemon on record as ready serves at the socket      *)
(* path, and one that serves is on record.                                  *)
THEOREM TheRecordIsTrue ==
  ASSUME OneCaller
  PROVE  Spec => []RecordIsTrue
<1>1. IInv => RecordIsTrue
  <2>1. SUFFICES ASSUME DaemonKnown, NEW d \in Pids, Typed
                 PROVE  /\ file = [pid |-> d, status |-> "ready"] /\ Alive(d) => Serving(d)
                        /\ pc[d] \in {"check", "accept", "parse"}
                             => file = [pid |-> d, status |-> "ready"]
    BY DEF IInv, RecordIsTrue
  <2>2. ASSUME file = [pid |-> d, status |-> "ready"], Alive(d)
        PROVE  Serving(d)
    BY <2>1, <2>2, ReadyServes
  <2>3. ASSUME pc[d] \in {"check", "accept", "parse"}
        PROVE  file = [pid |-> d, status |-> "ready"]
    BY <2>1, <2>3 DEF DaemonKnown, Recorded, Alive
  <2> QED BY <2>2, <2>3
<1> QED BY <1>1, Inductive, PTL

(* StoppedMeansGone: pek_stop answers "stopped" only when no daemon lives   *)
(* and none is on record.                                                   *)
THEOREM StoppedIsGone ==
  ASSUME OneCaller
  PROVE  Spec => []StoppedMeansGone
<1>1. IInv => StoppedMeansGone
  BY DEF IInv, StoppedMeansGone
<1> QED BY <1>1, Inductive, PTL
=============================================================================
