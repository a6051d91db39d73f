----------------------------- MODULE SystemEdit -----------------------------
(***************************************************************************)
(* One system under all the dev server's add and edit operations, and the  *)
(* delete handler, which alone has to know every file the others write.    *)
(*                                                                         *)
(* A behaviour starts in one of Setups: what the system already has, kept  *)
(* in every file the way the handlers would have, and the domains whose    *)
(* requests come, and how many (bound: the other domains are quiet).       *)
(***************************************************************************)
EXTENDS Contracts, CustomTypes, WebsocketTier, Policies

CONSTANT Setups

VARIABLE session
customVars == <<readers, tierVars>>
systemEditVars == <<systemVars, streamVars, contractVars, etcdVars, cdc, customVars, policed, session>>

---------------------------------------------------------------------------
(* What a node owns in the files of the scaffolding. *)

\* The containers the operation that made the node wrote.
Footprint(n) ==
  CASE kind[n] \in {"client", "wsclient"} -> {}
    [] kind[n] \in {"tokens", "wsredis"} -> RedisServices(n)
    [] kind[n] = "stream"    -> StreamServices(n)
    [] kind[n] = "etcd"      -> Members(n, etcdNode.members)
    [] kind[n] \in Engine    -> DbServices(n, kind[n])
    [] kind[n] = "replica"   -> ReplicaServices(n)
    [] OTHER                 -> {n}

\* Behind the load balancer: an instance of a load-balanced service is not.
Routed(n) ==
  \/ kind[n] \in Standalone \union {"external", "lb"}
  \/ kind[n] = "instance" /\ kind[parent[n]] \in Replicated
Scraped(n) == kind[n] \notin {"absent", "external", "client", "wsclient"}

\* Mutant of Owned: every node has one container, called as it is.
OwnedById(n, k, members) == {n}

\* The containers the delete handler takes a node to own.
Owned(n, k, members) ==
  CASE k[n] \in Engine \union {"replica", "stream", "tokens"} -> {n, Sub(n, "exporter"), Sub(n, "init")}
    [] k[n] = "etcd" -> Members(n, members)
    [] k[n] = "wsredis" -> RedisServices(n)
    [] OTHER -> {n}

---------------------------------------------------------------------------
(* Delete. *)

\* Clients are another handler's; the other kinds go with what they belong to.
Deletable(n) == kind[n] \notin {"absent", "client", "scaler", "instance", "cdc", "tokens"}
                               \union (TierKind \ {"wslb"})

\* Mutant of CallsTo: only the functions of clients are searched.
CallsOfClients(id, gone) ==
  \E g \in scenarios : g.client \in Nodes \ gone /\ \E d \in g.steps : d.service = id

\* The calls of other live nodes to this one: `gone` is what the delete takes along.
CallsTo(id, gone) ==
  \/ \E s \in Nodes \ gone : \E e \in endpoints[s] : id \in e.downstream
  \/ \E g \in scenarios : g.client \in Nodes \ gone /\ \E d \in g.steps : d.service = id

\* What persists what it has streamed, or into it; the peers of a coordinator.
Persisted(id, gone) ==
  \E r \in readers : r.service \in Nodes \ gone /\ id \in {r.worker, Tokens(r.worker), r.db}
Joined(id, gone) == kind[id] = "coordinator" /\ Peers(id) \ gone # {}

Watched(id, gone) == \E ks \in Keyspaces(id) : ks.listeners \intersect (Nodes \ gone) # {}

Dependents(id, gone) ==
  \/ CallsTo(id, gone) \/ Persisted(id, gone) \/ Joined(id, gone)
  \/ /\ kind[id] = "stream"
     /\ \E t \in Topic : ( streams[id][t].producers
                           \union UNION {e.members : e \in streams[id][t].groups} )
                         \intersect (Nodes \ gone) # {}
  \/ IF kind[id] = "etcd"
     THEN \E ks \in registry.keyspaces : ({ks.id} \union ks.listeners) \intersect (Nodes \ gone) # {}
     ELSE Watched(id, gone)

Gone(id, m) == {id} \union {n \in Name : m.kind[n] # "absent" /\ m.parent[n] = id}

\* What nobody looked for: a call to a child, a call its client's functions do not
\* list yet, one that a deleted service or client still lists, another node's container.
Unchecked(gone, id, owned) ==
  (IF \E n \in gone \ {id} : CallsTo(n, gone) \/ Watched(n, gone) \/ Persisted(n, gone) THEN {"cascaded"} ELSE {})
  \union (IF \E c \in Nodes : \E d \in scripts[c] : d.service \in gone THEN {"unseen"} ELSE {})
  \union (IF \/ \E s \in Name \ Nodes : \E e \in endpoints[s] : e.downstream \intersect gone # {}
             \/ \E g \in scenarios : g.client \notin Nodes /\ \E d \in g.steps : d.service \in gone
          THEN {"ghost"} ELSE {})
  \union (IF \E c \in owned : compose[c].owner \notin gone \union {None} THEN {"collided"} ELSE {})

\* Every file, from the manifest m that was loaded.
DeleteFiles(id, m) ==
  LET gone == Gone(id, m)
      services == {n \in gone : m.kind[n] \in Standalone \union {"lb", "external", "instance"}}
      workers == {n \in gone : m.kind[n] = "cdc"}
      owned == Name \intersect UNION {Owned(n, m.kind, m.etcdNode.members) : n \in gone}
      nothing == [t \in Topic |-> NoTopic]
      scrubbed(topic) == [topic EXCEPT !.producers = @ \ workers,
                                       !.groups = {e \in @ : e.members \intersect services = {}}]
      kept == {ks \in registry.keyspaces : ks.id \notin gone}
  IN /\ compose' = Without(compose, owned)
     /\ routes' = Less(routes, services)
     /\ jobs' = Less(jobs, gone)
     /\ WriteManifest([kind |-> [n \in Name |-> IF n \in gone THEN "absent" ELSE m.kind[n]],
                       parent |-> [n \in Name |-> IF n \in gone THEN None ELSE m.parent[n]],
                       edges |-> {e \in m.edges : gone \intersect {e[1], e[2]} = {}},
                       groupOf |-> [n \in Name |-> IF n \in gone THEN NoGroup ELSE m.groupOf[n]],
                       etcdNode |-> IF m.kind[id] = "etcd" THEN NoCluster ELSE m.etcdNode])
     /\ streams' = [k \in Name |-> IF k \in gone THEN nothing
                                   ELSE [t \in Topic |-> scrubbed(streams[k][t])]]
     /\ partitions' = [k \in Name |-> IF k \in gone THEN [t \in Topic |-> 0] ELSE partitions[k]]
     /\ paused' = paused \ gone
     /\ consumers' = {c \in consumers : c.service \notin gone /\ c.cluster \notin gone}
     /\ policy' = [n \in Name |-> IF n \in gone THEN None ELSE policy[n]]
     /\ registry' = IF m.kind[id] = "etcd" THEN NoRegistry
                    ELSE [registry EXCEPT !.keyspaces =
                            {[ks EXCEPT !.listeners = @ \ gone] : ks \in kept}]
     /\ kv' = IF m.kind[id] = "etcd" THEN Empty ELSE kv
     /\ cdc' = [n \in Name |-> IF n \in gone THEN {} ELSE cdc[n]]
     /\ readers' = {r \in readers : r.service \notin gone}
     /\ DropTier(gone)
     /\ mishaps' = mishaps \union Unchecked(gone, id, owned) \union Stale(m)
     /\ UNCHANGED contractVars

\* A member of a replica set is taken out of it first.
Delete(id) ==
  /\ Request /\ Deletable(id) /\ ~Dependents(id, Gone(id, Manifest))
  /\ IF kind[id] = "replica" /\ kind[parent[id]] = "mongo"
     THEN /\ Await([op |-> "delete", id |-> ops, node |-> id, manifest |-> Manifest])
          /\ UNCHANGED <<fileVars, mishaps, streamVars, contractVars, etcdVars, cdc, customVars>>
     ELSE DeleteFiles(id, Manifest) /\ UNCHANGED pending

DeleteSave(r) ==
  /\ r.op = "delete" /\ pending' = pending \ {r}
  /\ DeleteFiles(r.node, r.manifest)
  /\ UNCHANGED clock

---------------------------------------------------------------------------
(* All the requests. *)

\* Behind a load balancer a service's functions keep the group members they had.
Balance(s) ==
  /\ \/ \E count \in DOMAIN Ordinals : EnableLb(s, count)
     \/ ScaleLbUp(s) \/ ScaleLbDown(s) \/ DisableLb(s)
  /\ mishaps' = IF \E c \in consumers : c.service \in CodeContainers(s) \union {s}
                THEN mishaps \union {"balanced"} ELSE mishaps

NodesNext ==
  /\ \/ \E n \in Chosen : CreateService(n) \/ CreateExternal(n)
     \/ \E s \in Nodes : Balance(s)
  /\ UNCHANGED <<streamVars, contractVars, etcdVars, cdc, customVars>>

BankNext ==
  \/ \E m \in Model : UpsertModel(m) \/ RemoveModel(m)
  \/ \E k \in Clusters, t \in Topic, m \in Model \union {None} : SetTopicSchema(k, t, m)
  \/ \E s \in Nodes, h \in Method, p \in Path, a \in Alias, ms \in SUBSET Model :
       \E calls \in {{}} \union {{n} : n \in Nodes} :
         UpsertEndpoint(s, [method |-> h, path |-> p, alias |-> a, models |-> ms,
                            downstream |-> calls, internal |-> FALSE])
  \/ \E s \in Nodes, h \in Method, p \in Path :
       RemoveEndpoint(s, h, p) \/ \E on \in BOOLEAN : SetInternal(s, h, p, on)

\* An author calls an endpoint there is.
CallsNext ==
  \/ \E n \in Chosen : CreateClient(n) \/ DeleteClient(n)
  \/ \E c \in Nodes, f \in Fn : UpsertFunction(c, f)
  \/ \E g \in scenarios : DeleteFunction(g.client, g.name)
  \/ \E g \in scenarios, s \in Nodes : \E e \in endpoints[s] :
       WriteCall(g.client, g.name, [fn |-> g.name, service |-> s, method |-> e.method, path |-> e.path])
  \/ ListFunctions
  \/ \E s \in Nodes : \E e \in endpoints[s] : \E p \in Path, a \in Alias : RenameEndpoint(s, e, p, a)

ProcessesNext ==
  \/ \E i \in Process : \/ DeleteProcess(i) \/ StartRun(i)
                        \/ \E x \in Nodes \X Fn : UpsertProcess(i, {x})
  \/ StopRun

\* The answers that requests await.
Answers == \E r \in pending :
  \/ (AlterKafka(r) \/ AlterFails(r) \/ AlterSave(r)) /\ UNCHANGED <<contractVars, etcdVars, cdc, customVars>>
  \/ EtcdAwaits(r) /\ UNCHANGED <<streamVars, contractVars, cdc, customVars>>
  \/ DatabaseAwaits(r) /\ UNCHANGED <<contractVars, customVars>>
  \/ CustomAwaits(r) /\ UNCHANGED <<contractVars, tierVars>>
  \/ DeleteSave(r)

Requests ==
  \/ "nodes" \in session /\ NodesNext
  \/ "streams" \in session /\ StreamsNext /\ UNCHANGED <<contractVars, etcdVars, cdc, customVars>>
  \/ "functions" \in session /\ ConsumersNext /\ UNCHANGED <<contractVars, etcdVars, cdc, customVars>>
  \/ "bank" \in session /\ BankNext /\ UNCHANGED <<etcdVars, cdc, customVars>>
  \/ "calls" \in session /\ CallsNext /\ UNCHANGED <<etcdVars, cdc, customVars>>
  \/ "processes" \in session /\ ProcessesNext /\ UNCHANGED <<etcdVars, cdc, customVars>>
  \/ "etcd" \in session /\ EtcdNext /\ UNCHANGED <<streamVars, contractVars, cdc, customVars>>
  \/ "values" \in session /\ ValuesNext /\ UNCHANGED <<streamVars, contractVars, cdc, customVars>>
  \/ "data" \in session /\ DatabasesNext /\ UNCHANGED <<contractVars, customVars>>
  \/ "customs" \in session /\ CustomsNext /\ UNCHANGED <<contractVars, tierVars>>
  \/ "tier" \in session /\ TierNext /\ UNCHANGED <<streamVars, contractVars, etcdVars, cdc, readers>>
  \/ \E id \in Nodes : Delete(id)

Policing == ops > 0 /\ "policies" \in session /\ PoliciesNext /\ UNCHANGED <<contractVars, etcdVars, cdc, customVars>>

Next == ((((ops > 0 /\ Requests) \/ Answers) /\ ArrowsKept) \/ Policing) /\ UNCHANGED session

\* What a setup has, in every file the handlers keep it in.
Init ==
  \E s \in Setups :
    /\ session = s.session
    /\ kind = [n \in Name |-> IF n \in DOMAIN s.kind THEN s.kind[n] ELSE "absent"]
    /\ parent = [n \in Name |-> IF n \in DOMAIN s.parent THEN s.parent[n] ELSE None]
    /\ edges = {<<c.service, c.cluster>> : c \in s.consumers}
               \union {<<parent[n], n>> : n \in {m \in Nodes : parent[m] # None /\
                                                   (kind[parent[m]] = "lb" \/ kind[m] = "tokens")}}
    /\ registry = s.registry
    /\ etcdNode = [size |-> s.registry.size, members |-> s.registry.size]
    /\ kv = [c \in Config |-> IF Keyspaces(c) = {} THEN NoValues
                              ELSE (CHOOSE ks \in Keyspaces(c) : TRUE).values]
    /\ compose = [c \in Name |->
         IF \E n \in Nodes : c \in Footprint(n)
         THEN LET n == CHOOSE n \in Nodes : c \in Footprint(n)
                  role == IF kind[n] = "instance" THEN parent[n] ELSE n
              IN IF kind[n] = "lb" THEN Entry(n)
                 ELSE [owner |-> n, worker |-> Registers(registry.keyspaces, role),
                       endpoints |-> IF HasRole(registry.keyspaces, role) THEN etcdNode.members ELSE 0]
         ELSE Entry(None)]
    /\ routes = [n \in Name |-> IF Routed(n) THEN 1 ELSE 0]
    /\ jobs = [n \in Name |-> IF Scraped(n) THEN 1 ELSE 0]
    /\ consumers = s.consumers
    /\ streams = [k \in Name |-> [t \in Topic |->
         IF kind[k] # "stream" THEN NoTopic
         ELSE [NoTopic EXCEPT !.partitions = 1,
                              !.groups = {[id |-> c.group, members |-> CodeContainers(c.service)] :
                                            c \in {d \in consumers : d.cluster = k /\ d.topic = t}}]]]
    /\ partitions = [k \in Name |-> [t \in Topic |-> streams[k][t].partitions]]
    /\ paused = {}
    /\ groupOf = [n \in Name |-> IF kind[n] = "group"
                    THEN LET c == CHOOSE c \in consumers : c.service = n
                         IN [cluster |-> c.cluster, group |-> c.group]
                    ELSE NoGroup]
    /\ policy = [n \in Name |-> groupOf[n].group]
    /\ models = s.models
    /\ endpoints = [n \in Name |-> IF n \in DOMAIN s.endpoints THEN s.endpoints[n] ELSE {}]
    /\ hidden = InternalRules(endpoints)
    /\ scenarios = s.scenarios
    /\ scripts = [n \in Name |-> UNION {g.steps : g \in {h \in scenarios : h.client = n}}]
    /\ processes = s.processes
    /\ running = None
    /\ cdc = [n \in Name |-> {}]
    /\ readers = {} /\ tier = NoTier /\ shared = {} /\ bare = {} /\ policed = {}
    /\ pending = {} /\ mishaps = {} /\ ops = s.requests /\ serial = TRUE

Spec == Init /\ [][Next]_systemEditVars
---------------------------------------------------------------------------
(* What must hold of the files together. *)

Except(set) == mishaps \intersect set # {}

\* Every file has the shape its readers expect; a route, a scrape job or a partition
\* is never removed more often than it was added.
TypeOK ==
  /\ FilesType /\ StreamsType /\ ContractsType /\ EtcdType /\ CdcType
  /\ ReadersType /\ TierType /\ PoliciesType

\* Whatever is renamed, deleted or listed again: a call a client's code makes is to an
\* endpoint of a service that is there.  Excepted are endpoints removed under a call
\* and renames that also match the text of another call.
CallsResolve ==
  \/ Except({"removed", "overwritten", "unseen", "cascaded", "ghost"})
  \/ \A c \in Nodes : \A d \in scripts[c] :
       Host(d.service) /\ At(d.service, d.method, d.path) # {}

\* Whatever is deleted, renamed or scaled in, in whatever order: no registry of what
\* is left names a node, a topic, a model or a process that is not there.  Excepted
\* are a manifest written back from before another request, and the calls that the
\* delete handler does not look for.
ReferencesResolve ==
  /\ CallsResolve
  /\ ~Except({"lost"}) =>
     /\ \A c \in consumers :
          \/ /\ c.service \in Nodes /\ c.cluster \in Clusters /\ c.topic \in Topics(c.cluster)
          \/ Except({"cascaded"})
     /\ \A k \in Clusters, t \in Topic :
          /\ streams[k][t].producers \subseteq Nodes \/ Except({"stale"})
          /\ UNION {e.members : e \in streams[k][t].groups} \subseteq Nodes
             \/ Except({"cascaded", "balanced", "unsynced"})
          /\ streams[k][t].schema \in models \union {None}
     /\ \A s \in Nodes : \A e \in endpoints[s] :
          /\ e.models \subseteq models
          /\ e.downstream \subseteq Nodes \/ Except({"cascaded", "ghost"})
     /\ \A g \in scenarios : g.client \in Nodes =>
          \A d \in g.steps : d.service \in Nodes \/ Except({"cascaded", "unseen", "ghost"})
     /\ \A ks \in registry.keyspaces :
          /\ Reachable
          /\ ({ks.id} \ Config) \union ks.listeners \subseteq Nodes \/ Except({"cascaded"})
     /\ \A r \in readers :
          /\ {r.service, r.worker, Tokens(r.worker)} \union r.members \subseteq Nodes
          /\ r.db \in Nodes \union {None} \/ Except({"cascaded"})
     /\ \A n \in Nodes : kind[n] = "peer" => \E c \in Nodes : n \in Peers(c)
     /\ tier.servers \subseteq Nodes /\ tier.lb \in Nodes \union {None}
     /\ {parent[n] : n \in Nodes} \subseteq Nodes \union {None}
     /\ edges \subseteq Nodes \X Nodes
     /\ running # None => running \in DOMAIN processes

\* The same fact written down in several files is the same in all: a function and its
\* consumer group, a group service and its scaler, the etcd roles and the environment
\* of every container of the service, the hidden endpoints and the 403s of nginx, the
\* capture rules and their worker, its topics and its arrows.
GroupsAgree ==
  /\ \A k \in Clusters : \A t \in Topics(k) :
       streams[k][t].groups = {[id |-> c.group, members |-> CodeContainers(c.service)] :
                                 c \in {d \in consumers : d.cluster = k /\ d.topic = t}}
  /\ Except({"undrawn"}) \/ \A c \in consumers : <<c.service, c.cluster>> \in edges
  /\ \A n \in Nodes : policy[n] = groupOf[n].group

RolesAgree ==
  /\ registry.size = etcdNode.size /\ etcdNode.size = etcdNode.members
  /\ \A s \in Nodes : Registrable(s) => \A c \in Composed(s) :
       /\ compose[c].worker = Registers(registry.keyspaces, s)
       /\ compose[c].endpoints = IF HasRole(registry.keyspaces, s) THEN etcdNode.members ELSE 0

CapturesAgree ==
  /\ \A w \in Nodes : kind[w] = "cdc" => cdc[parent[w]] # {}
  /\ \A d \in Nodes : \A x \in cdc[d] :
       /\ kind[Worker(d)] = "cdc" /\ <<Worker(d), x[1]>> \in edges
       /\ Worker(d) \in streams[x[1]][x[2]].producers
  /\ \A k \in Clusters, t \in Topic : \A w \in streams[k][t].producers :
       <<k, t>> \in cdc[parent[w]]

ReadersAgree ==
  \A n \in Nodes : kind[n] = "reader" =>
    {r.members : r \in {q \in readers : q.service = n}} = {CodeContainers(n)}

\* The hooks the servers of a tier mount, and the code of a service, are there.
TierWhole ==
  /\ \A n \in Nodes : kind[n] = "wslb" =>
       /\ tier = [lb |-> n, servers |-> {s \in Children(n) : kind[s] = "wsserver"}]
       /\ "hooks" \in shared
  /\ SharedDir \in Nodes => "code" \in shared

RegistriesAgree ==
  /\ Except({"lost"}) \/ ReadersAgree
  /\ Except({"lost", "namesake"}) \/ TierWhole
  /\ Except({"lost", "stale", "group taken", "balanced", "unsynced", "cascaded"}) \/ GroupsAgree
  /\ Except({"lost", "refused", "collided"}) \/ RolesAgree
  /\ Except({"lost", "stale"}) \/ CapturesAgree
  /\ hidden = InternalRules(endpoints)

\* Requests that do not overlap, and none of whose commands fails, leave etcd with the
\* values etcd.json lists and Kafka with the partitions streams.json lists.
LiveMatchesRegistry ==
  serial /\ pending = {} /\ ~Except({"failed"}) =>
    /\ \A c \in Config, k \in Key :
         kv[c][k] = IF Keyspaces(c) = {} THEN None ELSE (CHOOSE ks \in Keyspaces(c) : TRUE).values[k]
    /\ \A k \in Clusters, t \in Topic : partitions[k][t] = streams[k][t].partitions

\* After any sequence of adds, scalings and deletes every node owns exactly its
\* containers, one route if it is routed to and one scrape job if it is scraped, and
\* nothing is left of a node that is gone.
FootprintMatches ==
  \/ Except({"lost", "collided"})
  \/ /\ {compose[c].owner : c \in Name} \subseteq Nodes \union {None}
     /\ \A n \in Nodes : {c \in Name : compose[c].owner = n} = Footprint(n)
     /\ \A n \in Name :
          /\ routes[n] = IF Routed(n) THEN 1 ELSE 0
          /\ jobs[n] = IF Scraped(n) THEN 1 ELSE 0

\* Each handler's edits of the files run without an await between a load and a save,
\* so no edit of another request is ever written over.
NoLostUpdate == "lost" \notin mishaps
=============================================================================
