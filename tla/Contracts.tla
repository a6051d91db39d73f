----------------------------- MODULE Contracts -----------------------------
(***************************************************************************)
(* What callers agree on: the models bank, the endpoints of each service,  *)
(* which of them the load balancer hides, the functions of client scripts  *)
(* and the end-to-end processes that run them.                             *)
(*                                                                         *)
(* A path is a sequence of tokens: that one path is a textual prefix of    *)
(* another is that it is a prefix of the sequence.                         *)
(***************************************************************************)
EXTENDS Streams, SequencesExt

CONSTANTS Method, Path, Alias, Process

VARIABLES
  models,     \* models.json
  endpoints,  \* endpoints.json: the records of each service
  hidden,     \* the locations nginx.conf answers with 403: <<service, method, path>>
  scripts,    \* a client's script: the calls its functions make
  scenarios,  \* scenarios.json: the functions of clients, with the calls found in them
  processes,  \* endtoend.json: the <<client, function>> pairs of each process
  running     \* the process the system runs, None if none
bankVars == <<models, endpoints, hidden>>
clientVars == <<scripts, scenarios>>
processVars == <<processes, running>>
contractVars == <<bankVars, clientVars, processVars>>

Endpoint == [method : Method, path : Path, alias : Alias \union {None},
             models : SUBSET Model, downstream : SUBSET Name, internal : BOOLEAN]

ContractsType ==
  /\ models \subseteq Model
  /\ \A s \in Name : endpoints[s] \subseteq Endpoint
  /\ hidden \subseteq Name \X Method \X Path
  /\ \A f \in scenarios : f.client \in Name /\ f.name \in Fn
  /\ DOMAIN processes \subseteq Process
  /\ running \in Process \union {None}

systemRest == <<fileVars, pending, streamVars>>

Host(n) == kind[n] \in Standalone \union {"lb", "external"}
At(s, m, p) == {e \in endpoints[s] : e.method = m /\ e.path = p}

---------------------------------------------------------------------------
UpsertModel(m) ==
  /\ Request /\ models' = models \union {m}
  /\ UNCHANGED <<systemRest, mishaps, endpoints, hidden, clientVars, processVars>>

\* Whatever endpoints.json lists refers to a model, its service deleted or not.
ModelUsed(m) ==
  \/ \E s \in Name : \E e \in endpoints[s] : m \in e.models
  \/ \E k \in Clusters, t \in Topic : streams[k][t].schema = m

RemoveModel(m) ==
  /\ Request /\ ~ModelUsed(m)
  /\ models' = models \ {m}
  /\ UNCHANGED <<systemRest, mishaps, endpoints, hidden, clientVars, processVars>>

SetTopicSchema(k, t, m) ==
  /\ Request /\ k \in Clusters /\ t \in Topics(k) /\ m \in models \union {None}
  /\ streams' = [streams EXCEPT ![k][t].schema = m]
  /\ UNCHANGED <<fileVars, pending, mishaps, partitions, paused, consumers, groupOf, policy, contractVars>>

---------------------------------------------------------------------------
\* The locations that hide the internal endpoints of a registry.
InternalRules(reg) ==
  UNION {{<<s, e.method, e.path>> : e \in {d \in reg[s] : d.internal}} : s \in Name}

\* A function name is used once in a service, and every model is in the bank.
ValidEndpoint(s, e) ==
  /\ Host(s)
  /\ \A d \in endpoints[s] : d.alias = e.alias => d.method = e.method /\ d.path = e.path
  /\ e.models \subseteq models

\* The record is merged over the one there: what the request does not name stays.
UpsertEndpoint(s, e) ==
  LET prev == At(s, e.method, e.path)
      record == [e EXCEPT !.internal = \E d \in prev : d.internal,
                          !.downstream = @ \intersect Nodes]
  IN /\ Request /\ ValidEndpoint(s, e)
     /\ endpoints' = [endpoints EXCEPT ![s] = (@ \ prev) \union {record}]
     /\ UNCHANGED <<systemRest, mishaps, models, hidden, clientVars, processVars>>

\* Who calls the endpoint is not looked at.
RemoveEndpoint(s, m, p) ==
  /\ Request /\ Host(s)
  /\ endpoints' = [endpoints EXCEPT ![s] = @ \ At(s, m, p)]
  /\ hidden' = IF \E e \in At(s, m, p) : e.internal THEN InternalRules(endpoints') ELSE hidden
  /\ mishaps' = IF \E c \in Nodes : \E d \in scripts[c] : d.service = s /\ d.method = m /\ d.path = p
                THEN mishaps \union {"removed"} ELSE mishaps
  /\ UNCHANGED <<systemRest, models, clientVars, processVars>>

\* An endpoint only the code knows of gets a stub of a record.
SetInternal(s, m, p, on) ==
  LET prev == At(s, m, p)
      stub == [method |-> m, path |-> p, alias |-> None, models |-> {}, downstream |-> {},
               internal |-> on]
  IN /\ Request /\ Host(s)
     /\ endpoints' = [endpoints EXCEPT ![s] = (@ \ prev) \union
                        IF prev = {} THEN {stub} ELSE {[e EXCEPT !.internal = on] : e \in prev}]
     /\ hidden' = InternalRules(endpoints')
     /\ UNCHANGED <<systemRest, mishaps, models, clientVars, processVars>>

\* The literal swap of `/service/old` for `/service/new` in a script.
Swap(calls, s, old, new) ==
  {IF c.service = s /\ IsPrefix(old, c.path)
   THEN [c EXCEPT !.path = new \o SubSeq(@, Len(old) + 1, Len(@))] ELSE c : c \in calls}

Renamable(s, e, path, alias) ==
  /\ e \in endpoints[s]
  /\ path # e.path => At(s, e.method, path) = {}
  /\ \A d \in endpoints[s] \ {e} : d.alias # alias
  /\ e.models \subseteq models

\* A call of another method, or of a longer path, that the swap changes too.
Swaps(s, e) == \E c \in Nodes : \E d \in scripts[c] :
  d.service = s /\ IsPrefix(e.path, d.path) /\ ~(d.method = e.method /\ d.path = e.path)

\* The registry, every client's script and, for a hidden endpoint, nginx.conf.
RenameEndpoint(s, e, path, alias) ==
  LET record == [e EXCEPT !.path = path, !.alias = alias]
  IN /\ Request /\ Host(s) /\ Renamable(s, e, path, alias)
     /\ endpoints' = [endpoints EXCEPT ![s] = (@ \ {e}) \union {record}]
     /\ scripts' = [c \in Name |-> IF kind[c] = "client" THEN Swap(scripts[c], s, e.path, path)
                                   ELSE scripts[c]]
     /\ hidden' = IF e.internal /\ path # e.path THEN InternalRules(endpoints') ELSE hidden
     /\ mishaps' = IF path # e.path /\ Swaps(s, e) THEN mishaps \union {"overwritten"} ELSE mishaps
     /\ UNCHANGED <<systemRest, models, scenarios, processVars>>

---------------------------------------------------------------------------
CreateClient(n) == CreateClientNode(n) /\ UNCHANGED <<streamVars, contractVars>>

\* Its script goes with it; the functions and the processes that name it do not.
DeleteClient(n) ==
  /\ DeleteClientNode(n)
  /\ scripts' = [scripts EXCEPT ![n] = {}]
  /\ UNCHANGED <<streamVars, bankVars, scenarios, processVars>>

\* The author of a client's code writes a call into a function: not an operation
\* of the server, which finds it when it next lists the functions.
WriteCall(c, f, call) ==
  /\ Request /\ c \in Nodes /\ \E g \in scenarios : g.client = c /\ g.name = f
  /\ scripts' = [scripts EXCEPT ![c] = @ \union {call}]
  /\ call.fn = f
  /\ UNCHANGED <<systemRest, mishaps, bankVars, scenarios, processVars>>

\* The calls of every function are read again from its client's script.
ListFunctions ==
  /\ Request
  /\ scenarios' = {[g EXCEPT !.steps = {d \in scripts[g.client] : d.fn = g.name}] : g \in scenarios}
  /\ UNCHANGED <<systemRest, mishaps, bankVars, scripts, processVars>>

UpsertFunction(c, f) ==
  /\ Request /\ kind[c] = "client"
  /\ scenarios' = IF \E g \in scenarios : g.client = c /\ g.name = f THEN scenarios
                  ELSE scenarios \union {[client |-> c, name |-> f, steps |-> {}]}
  /\ UNCHANGED <<systemRest, mishaps, bankVars, scripts, processVars>>

\* The client, the code and the processes that call it are left alone.
DeleteFunction(c, f) ==
  /\ Request
  /\ scenarios' = {g \in scenarios : ~(g.client = c /\ g.name = f)}
  /\ UNCHANGED <<systemRest, mishaps, bankVars, scripts, processVars>>

---------------------------------------------------------------------------
ValidProcess(pairs) ==
  /\ pairs # {}
  /\ \A x \in pairs : /\ kind[x[1]] = "client"
                      /\ \E g \in scenarios : g.client = x[1] /\ g.name = x[2]

UpsertProcess(i, pairs) ==
  /\ Request /\ ValidProcess(pairs) /\ running # i
  /\ processes' = [j \in DOMAIN processes \union {i} |-> IF j = i THEN pairs ELSE processes[j]]
  /\ UNCHANGED <<systemRest, mishaps, bankVars, clientVars, running>>

DeleteProcess(i) ==
  /\ Request /\ running # i
  /\ processes' = [j \in DOMAIN processes \ {i} |-> processes[j]]
  /\ UNCHANGED <<systemRest, mishaps, bankVars, clientVars, running>>

\* One process at a time; its rows are not looked at again.
StartRun(i) ==
  /\ Request /\ i \in DOMAIN processes /\ running = None
  /\ running' = i
  /\ UNCHANGED <<systemRest, mishaps, bankVars, clientVars, processes>>

\* The browser stops it, or the server's timer does when the browser is gone.
StopRun ==
  /\ Request /\ running # None /\ running' = None
  /\ UNCHANGED <<systemRest, mishaps, bankVars, clientVars, processes>>
=============================================================================
