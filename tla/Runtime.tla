------------------------------ MODULE Runtime ------------------------------
(***************************************************************************)
(* What the dev server does to the containers: the docker compose commands  *)
(* that follow an edit (server/scaffold.js rebuild, replicaGroup.js         *)
(* scaleRebuild, serviceLb.js, remove.js, etcd.js), under the system's lock *)
(* or outside it; the activation of a system (server/systemsApi.js); the    *)
(* simulated outages (server/outage.js); and a restart of the server.       *)
(*                                                                         *)
(* A compose command reads the system's docker-compose.yml when it starts   *)
(* and has its effect when it ends; edits of the file come in between.      *)
(* Docker itself is external: `up -d` starts what the file it read has,     *)
(* `--remove-orphans` removes the rest, and the host port of the load       *)
(* balancer belongs to one system at a time.                                *)
(***************************************************************************)
EXTENDS Naturals, Sequences, FiniteSets

CONSTANTS System, Container, Lb, NoSystem,
          Setups,      \* what a behaviour is about, and its bounds
          OutageId     \* names of the outage requests

ASSUME LbIsAContainer == Lb \in Container
ASSUME NoSystemIsNone == NoSystem \notin System
\* Every compose file has the load balancer, and one system at most is active at first.
ASSUME SetupsAreSystems ==
  \A x \in Setups : /\ x.active \in System \union {NoSystem}
                    /\ x.file \in [System -> SUBSET Container] /\ \A s \in System : Lb \in x.file[s]

VARIABLES
  file,        \* the containers in a system's compose file
  up,          \* the containers running
  chain,       \* the system's lock: the commands that hold and await it
  loose,       \* commands run outside the lock
  marker,      \* the active-system marker file
  activations, \* the chain of activations; the first is under way
  step,        \* how far it is
  entry,       \* the outages known: the request that set a node's
  timers,      \* the timers armed, by request
  asked,       \* outage requests: system, container and progress
  starting,    \* `docker compose start` commands in flight
  scope,       \* what the behaviour may do
  struck       \* history: systems hit by a named struck

runtimeVars == <<file, up, chain, loose, marker, activations, step, entry, timers, asked, starting, scope, struck>>
dockerVars == <<chain, loose>>
activeVars == <<marker, activations, step>>
outageVars == <<entry, timers, asked, starting>>

Unread == [read |-> FALSE]
\* Of kind "up", "down", or "prune": up with --remove-orphans.
Command(kind, caller) == [kind |-> kind, caller |-> caller, snap |-> Unread]

RuntimeInit ==
  /\ scope \in Setups
  /\ file = scope.file
  /\ up = [s \in System |-> IF s = scope.active THEN file[s] ELSE {}]
  /\ chain = [s \in System |-> <<>>] /\ loose = <<>>
  /\ marker = scope.active
  /\ activations = <<>> /\ step = "idle"
  /\ entry = <<>> /\ timers = {} /\ asked = <<>> /\ starting = {}
  /\ struck = {}

-----------------------------------------------------------------------------
(* Compose commands. *)

Busy(s) == chain[s] # <<>> \/ \E i \in DOMAIN loose : loose[i].system = s
Spend == scope.edits > 0 /\ scope' = [scope EXCEPT !.edits = @ - 1]
UnlockedOn == {loose[i].system : i \in DOMAIN loose}
\* A command runs beside another of the same system, one of them unlocked; or
\* it brings up a system that is not the active one, or is to be another's turn.
Strays(s, unlocked) ==
  IF (unlocked /\ Busy(s)) \/ s \in UnlockedOn \/ marker # s \/ (\E i \in DOMAIN activations : activations[i] # s) THEN {s} ELSE {}

\* An edit that adds a container or takes one out, and waits for its command
\* under the lock: creating a service, scaling a group.
Locked(s, names, kind) ==
  /\ "edits" \in scope.session /\ Spend
  /\ file' = [file EXCEPT ![s] = names]
  /\ chain' = [chain EXCEPT ![s] = Append(@, Command(kind, "edit"))]
  /\ struck' = struck \union Strays(s, FALSE)
  /\ UNCHANGED <<up, loose, activeVars, outageVars>>

AddService(s, c) == c \notin file[s] /\ Locked(s, file[s] \union {c}, "up")
ScaleIn(s, c) == c \in file[s] \ {Lb} /\ Locked(s, file[s] \ {c}, "prune")

\* An edit whose command does not take the lock: deleting a node, resizing etcd.
Unlocked(s, names, kind) ==
  /\ "edits" \in scope.session /\ Spend
  /\ file' = [file EXCEPT ![s] = names]
  /\ loose' = Append(loose, [system |-> s, command |-> Command(kind, "edit")])
  /\ struck' = struck \union Strays(s, TRUE)
  /\ UNCHANGED <<up, chain, activeVars, outageVars>>

DeleteNode(s, c) == c \in file[s] \ {Lb} /\ Unlocked(s, file[s] \ {c}, "prune")
AddDatabase(s, c) == c \notin file[s] /\ Unlocked(s, file[s] \union {c}, "up")

\* The reset of an interview: the file is reseeded, then the lock taken.
ResetSystem(s) ==
  /\ file[s] # {Lb} /\ "reset" \in scope.session /\ Spend
  /\ file' = [file EXCEPT ![s] = {Lb}]
  /\ chain' = [chain EXCEPT ![s] = Append(@, Command("prune", "edit"))]
  /\ struck' = struck \union Strays(s, FALSE)
  \* clearOutages, before the reset: what is down is about to go or to be started
  /\ LET gone == {k \in DOMAIN entry : k[1] = s}
     IN /\ entry' = [k \in DOMAIN entry \ gone |-> entry[k]]
        /\ timers' = timers \ {entry[k] : k \in gone}
  /\ UNCHANGED <<up, loose, activeVars, asked, starting>>

OutageUnderWay(s) ==
  \/ \E k \in DOMAIN entry : k[1] = s
  \/ \E r \in DOMAIN asked : asked[r].system = s /\ asked[r].stage # "set"

Read(s, command) == [command EXCEPT !.snap = [read |-> TRUE, names |-> file[s]]]
\* The port of the load balancer is taken.
PortTaken(s) == \E t \in System \ {s} : Lb \in up[t]

\* What a command does to a system's running containers, done or failed.
Applied(s, command) ==
  LET names == command.snap.names
      free == names \ (IF PortTaken(s) THEN {Lb} ELSE {})
  IN CASE command.kind = "down" -> up[s] \ names
       [] command.kind = "prune" -> free \union (up[s] \intersect {Lb})
       [] OTHER -> up[s] \union free
Succeeds(s, command) == command.kind = "down" \/ Lb \in up[s] \/ ~PortTaken(s)

Begin(s) ==
  /\ chain[s] # <<>> /\ ~chain[s][1].snap.read
  /\ chain' = [chain EXCEPT ![s][1] = Read(s, @)]
  /\ UNCHANGED <<file, up, loose, activeVars, outageVars, scope, struck>>

BeginLoose(i) ==
  /\ ~loose[i].command.snap.read
  /\ loose' = [loose EXCEPT ![i].command = Read(loose[i].system, @)]
  /\ UNCHANGED <<file, up, chain, activeVars, outageVars, scope, struck>>

\* The end of a command under the lock: the next in the chain may begin
\* whether this one succeeded or not.  An activation goes by the outcome.
\* A rebuild starts a node that is meant to be out: `up -d` does not know.
End(s) ==
  /\ chain[s] # <<>> /\ chain[s][1].snap.read
  /\ LET command == chain[s][1]
         fails == ~Succeeds(s, command)
     IN /\ up' = [up EXCEPT ![s] = Applied(s, command)]
        /\ chain' = [chain EXCEPT ![s] = Tail(@)]
        /\ struck' = struck \union
             (IF fails \/ OutageUnderWay(s) THEN {s} ELSE {})
        /\ IF command.caller = "edit" THEN UNCHANGED activeVars
           ELSE IF command.kind = "down"
           THEN /\ step' = "down done" /\ UNCHANGED <<marker, activations>>
           ELSE /\ marker' = IF fails THEN NoSystem ELSE s
                /\ activations' = Tail(activations)
                /\ step' = "idle"
  /\ UNCHANGED <<file, loose, outageVars, scope>>

EndLoose(i) ==
  /\ loose[i].command.snap.read
  /\ LET s == loose[i].system
     IN /\ up' = [up EXCEPT ![s] = Applied(s, loose[i].command)]
        /\ struck' = struck \union
             (IF ~Succeeds(s, loose[i].command) \/ OutageUnderWay(s) THEN {s} ELSE {})
  /\ loose' = SubSeq(loose, 1, i - 1) \o SubSeq(loose, i + 1, Len(loose))
  /\ UNCHANGED <<file, chain, activeVars, outageVars, scope>>

\* A command fails for a reason of docker's own, having done nothing.
Fail(s) ==
  /\ "failures" \in scope.session
  /\ chain[s] # <<>> /\ chain[s][1].snap.read
  /\ LET command == chain[s][1]
     IN /\ chain' = [chain EXCEPT ![s] = Tail(@)]
        /\ IF command.caller = "edit" THEN UNCHANGED activeVars
           ELSE IF command.kind = "down" THEN step' = "down done" /\ UNCHANGED <<marker, activations>>
           ELSE marker' = NoSystem /\ activations' = Tail(activations) /\ step' = "idle"
  /\ struck' = struck \union {s}
  /\ UNCHANGED <<file, up, loose, outageVars, scope>>

-----------------------------------------------------------------------------
(* Activation. *)

Activate(s) ==
  /\ "activate" \in scope.session /\ Spend
  /\ activations' = Append(activations, s)
  /\ struck' = struck \union UnlockedOn
  /\ UNCHANGED <<file, up, chain, loose, marker, step, outageVars>>

\* One activation at a time.  The marker is trusted only if the load balancer
\* is up; another system is taken down first.
BeginActivation ==
  /\ activations # <<>> /\ step = "idle"
  /\ LET s == Head(activations)
     IN IF marker = s /\ Lb \in up[s]
        THEN activations' = Tail(activations) /\ UNCHANGED <<chain, step>>
        ELSE LET downs == marker # NoSystem /\ marker # s
             IN /\ chain' = IF downs THEN [chain EXCEPT ![marker] = Append(@, Command("down", "activation"))]
                                     ELSE [chain EXCEPT ![s] = Append(@, Command("up", "activation"))]
                /\ step' = IF downs THEN "down" ELSE "up"
                /\ UNCHANGED activations
  /\ struck' = struck \union (UnlockedOn \intersect {marker, Head(activations)})
  /\ UNCHANGED <<file, up, loose, marker, outageVars, scope>>

\* The previous system is down, or could not be taken down: either way the next comes up.
BringUp ==
  /\ step = "down done"
  /\ LET s == Head(activations)
     IN chain' = [chain EXCEPT ![s] = Append(@, Command("up", "activation"))]
  /\ step' = "up"
  /\ struck' = struck \union (UnlockedOn \intersect {Head(activations)})
  /\ UNCHANGED <<file, up, loose, marker, activations, outageVars, scope>>

-----------------------------------------------------------------------------
(* Outages. *)

Forget(f, k) == [x \in DOMAIN f \ {k} |-> f[x]]
\* Mutant of Cleared: the timer of an outage that is over stays armed.
ClearedNone(k) == {}
Cleared(k) == IF k \in DOMAIN entry THEN {entry[k]} ELSE {}
\* A request for a node while another for it has not been answered.
Crosses(s, c) ==
  IF (\E r \in DOMAIN asked : asked[r].system = s /\ asked[r].node = c /\ asked[r].stage # "set")
       \/ <<s, c>> \in starting
  THEN {s} ELSE {}

\* startOutage: a node whose outage is set again loses the timer of the first.
StartOutage(r, s, c) ==
  /\ "outages" \in scope.session
  /\ r \notin DOMAIN asked /\ c \in file[s] \ {Lb} /\ marker = s
  /\ entry' = Forget(entry, <<s, c>>)
  /\ timers' = timers \ Cleared(<<s, c>>)
  /\ asked' = [x \in DOMAIN asked \union {r} |->
                IF x = r THEN [system |-> s, node |-> c, stage |-> "kill"] ELSE asked[x]]
  /\ struck' = struck \union Crosses(s, c) \union (IF Busy(s) THEN {s} ELSE {})
  /\ UNCHANGED <<file, up, dockerVars, activeVars, starting, scope>>

\* `docker compose kill` has its effect,
Kill(r) ==
  /\ asked[r].stage = "kill"
  /\ up' = [up EXCEPT ![asked[r].system] = @ \ {asked[r].node}]
  /\ asked' = [asked EXCEPT ![r].stage = "killed"]
  /\ UNCHANGED <<file, dockerVars, activeVars, entry, timers, starting, scope, struck>>

\* and returns: the timer is armed and the entry set, over any other's.
Killed(r) ==
  /\ asked[r].stage = "killed"
  /\ LET k == <<asked[r].system, asked[r].node>>
     IN entry' = [x \in DOMAIN entry \union {k} |-> IF x = k THEN r ELSE entry[x]]
  /\ timers' = timers \union {r}
  /\ asked' = [asked EXCEPT ![r].stage = "set"]
  /\ UNCHANGED <<file, up, dockerVars, activeVars, starting, scope, struck>>

\* It fails, with the node down or not: what was known of an earlier outage is gone by now.
KillFails(r) ==
  /\ "failures" \in scope.session
  /\ asked[r].stage \in {"kill", "killed"}
  /\ asked' = [asked EXCEPT ![r].stage = "set"]
  /\ struck' = struck \union (IF asked[r].node \in up[asked[r].system] THEN {} ELSE {asked[r].system})
  /\ UNCHANGED <<file, up, dockerVars, activeVars, entry, timers, starting, scope>>

\* The time is up: the node is started, and its entry goes if it is this one's.
TimeUp(r) ==
  /\ r \in timers
  /\ LET k == <<asked[r].system, asked[r].node>>
     IN /\ starting' = starting \union {k}
        /\ entry' = IF k \in DOMAIN entry /\ entry[k] = r THEN Forget(entry, k) ELSE entry
  /\ timers' = timers \ {r}
  /\ UNCHANGED <<file, up, dockerVars, activeVars, asked, scope, struck>>

\* endOutage: the Restore button.
EndOutage(s, c) ==
  /\ <<s, c>> \in DOMAIN entry
  /\ entry' = Forget(entry, <<s, c>>)
  /\ timers' = timers \ Cleared(<<s, c>>)
  /\ starting' = starting \union {<<s, c>>}
  /\ struck' = struck \union Crosses(s, c)
  /\ UNCHANGED <<file, up, dockerVars, activeVars, asked, scope>>

\* The system's containers exist: it is active and has not been taken down.
Exists(s) == marker = s /\ (step \in {"down done", "up"} => Head(activations) = s)

\* `docker compose start` returns; a container that is no more cannot start.
Started(k) ==
  /\ k \in starting
  /\ starting' = starting \ {k}
  /\ up' = [up EXCEPT ![k[1]] = @ \union (IF k[2] \in file[k[1]] /\ Exists(k[1]) THEN {k[2]} ELSE {})]
  /\ UNCHANGED <<file, dockerVars, activeVars, entry, timers, asked, scope, struck>>

\* The dev server closes: its timers go, and every node that is out is started.
Shutdown ==
  /\ "restart" \in scope.session /\ scope.edits > 0 /\ scope' = [scope EXCEPT !.edits = 0]
  /\ starting' = starting \union DOMAIN entry
  /\ entry' = <<>> /\ timers' = {}
  /\ asked' = [r \in DOMAIN asked |-> [asked[r] EXCEPT !.stage = "set"]]
  /\ chain' = [s \in System |-> <<>>] /\ loose' = <<>>
  /\ activations' = <<>> /\ step' = "idle"
  /\ struck' = struck \union {s \in System : Busy(s) \/ step # "idle"}
                      \union {asked[r].system : r \in {x \in DOMAIN asked : asked[x].stage # "set"}}
  /\ UNCHANGED <<file, up, marker>>

-----------------------------------------------------------------------------
RuntimeNext ==
  \/ \E s \in System :
       \/ \E c \in Container :
            AddService(s, c) \/ ScaleIn(s, c) \/ DeleteNode(s, c) \/ AddDatabase(s, c) \/ EndOutage(s, c)
            \/ \E r \in OutageId : StartOutage(r, s, c)
       \/ ResetSystem(s) \/ Begin(s) \/ End(s) \/ Fail(s) \/ Activate(s)
  \/ \E i \in DOMAIN loose : BeginLoose(i) \/ EndLoose(i)
  \/ BeginActivation \/ BringUp
  \/ \E r \in DOMAIN asked : Kill(r) \/ Killed(r) \/ KillFails(r) \/ TimeUp(r)
  \/ \E k \in starting : Started(k)
  \/ Shutdown

RuntimeSpec == RuntimeInit /\ [][RuntimeNext]_runtimeVars

-----------------------------------------------------------------------------
\* Nothing is under way that could still touch a system's containers.
Settled(s) ==
  /\ ~Busy(s) /\ step = "idle"
  /\ \A k \in starting : k[1] # s
  /\ \A r \in DOMAIN asked : asked[r].system = s => asked[r].stage = "set"

Out(s) == {k[2] : k \in {x \in DOMAIN entry : x[1] = s}}

\* When things have settled, the active system runs exactly what its compose
\* file has, except the nodes that are out, and no other system runs anything;
\* a node that is out has a timer to bring it back.  The systems in `struck`
\* are those with a command that failed, or ran beside another or an
\* activation outside the lock, or on a system that is not active, or beside
\* an outage, with two requests at once about one outage, or with a kill
\* that failed and left its node down.
RunsWhatIsDeclared ==
  \A s \in System \ struck :
    /\ Settled(s) => up[s] = IF marker = s THEN file[s] \ Out(s) ELSE {}
    /\ \A k \in DOMAIN entry : k[1] = s => entry[k] \in timers
=============================================================================
