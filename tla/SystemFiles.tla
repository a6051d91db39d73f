---------------------------- MODULE SystemFiles ----------------------------
(***************************************************************************)
(* The files of one system that the dev server edits: the nodes and edges  *)
(* of manifest.json, the services of docker-compose.yml, the routes of     *)
(* nginx.conf and the scrape jobs of prometheus.yml.                       *)
(*                                                                         *)
(* One event loop handles the requests.  The file edits a handler makes    *)
(* without awaiting anything are one action; a handler that awaits between *)
(* a load and a save is two or three, with what it loaded in `pending`.    *)
(***************************************************************************)
EXTENDS Naturals, Sequences, FiniteSets

CONSTANTS Name,       \* the ids of nodes and of containers
          Chosen,     \* the ids a create request may ask for
          None,
          Sub(_, _),  \* the id derived from an id and a suffix: `${id}-${suffix}`
          Ordinals,   \* <<"1", "2", ...>>: the suffixes of members
          MaxOps,     \* bound: the most requests a behaviour has
          MaxPending  \* bound: requests that await something at the same time

ASSUME NamesAssumption ==
  Chosen \subseteq Name /\ None \notin Name /\ MaxOps \in Nat /\ MaxPending \in Nat

VARIABLES
  kind,     \* the type of each node, "absent" when manifest.json has no such node
  parent,   \* the node it belongs to: instanceOf, scalerOf, replicaOf, cdcOf
  edges,    \* the arrows of the diagram: <<from, to>>
  bare,     \* those that have no field but the two nodes and what Policies attaches
  compose,  \* the services of docker-compose.yml: whose it is, and its etcd environment
  routes,   \* how many locations nginx.conf has for an id
  jobs,     \* how many scrape jobs prometheus.yml has for an id
  pending,  \* the requests that await something between a load and a save
  mishaps,  \* what has gone wrong so far, for the properties to except
  ops,      \* how many more requests the behaviour sees
  serial    \* none of them came while another was awaiting

fileVars == <<kind, parent, edges, compose, routes, jobs>>
clock == <<ops, serial>>
systemVars == <<fileVars, bare, pending, mishaps, clock>>

Kind == {"absent", "service", "lb", "external", "client", "stream", "etcd", "group",
         "scaler", "instance", "mongo", "cassandra", "replica", "cdc", "llm", "tokens", "reader",
         "coordinator", "peer", "wslb", "wsserver", "wsredis", "wsclient"}

\* Nodes of type `service` that are no member of another, and those among them that
\* setGroupReplicas gives members.
Standalone == {"service", "group", "scaler", "llm", "reader", "coordinator", "peer"}
Replicated == {"group", "llm", "reader"}

Nodes == {n \in Name : kind[n] # "absent"}
Children(n) == {m \in Nodes : parent[m] = n}
Instances(n) == {m \in Children(n) : kind[m] = "instance"}

\* A container's ETCD_WORKER_ID, and of how many members its ETCD_ENDPOINTS are.
Entry(n) == [owner |-> n, worker |-> FALSE, endpoints |-> 0]

FilesType ==
  /\ kind \in [Name -> Kind]
  /\ parent \in [Name -> Name \union {None}]
  /\ edges \subseteq Name \X Name
  /\ compose \in [Name -> [owner : Name \union {None}, worker : BOOLEAN, endpoints : Nat]]
  /\ routes \in [Name -> Nat] /\ jobs \in [Name -> Nat]
  /\ ops \in 0..MaxOps /\ serial \in BOOLEAN /\ Cardinality(pending) <= MaxPending

\* A request arrives.  One that will await something keeps what it has loaded.
Request == ops > 0 /\ ops' = ops - 1 /\ serial' = (serial /\ pending = {})
Await(r) == Cardinality(pending) < MaxPending /\ pending' = pending \union {r}

\* The containers that run a node's code: a load balancer's instances without
\* itself, a group's base and its instances.
CodeContainers(n) == IF kind[n] = "lb" THEN Instances(n) ELSE {n} \union Instances(n)

\* A node with this id can be made.  What containers are called is not looked at.
Free(n) == n \in Name /\ kind[n] = "absent"

---------------------------------------------------------------------------
(* What the edits of the scaffolding do to each file. *)

AddNodes(ids, k, p) ==
  /\ kind' = [n \in Name |-> IF n \in ids THEN k ELSE kind[n]]
  /\ parent' = [n \in Name |-> IF n \in ids THEN p ELSE parent[n]]

\* `docker-compose.yml` has one service by a name: another node's is overwritten.
Overwrites(ids) == IF \E c \in ids : compose[c].owner # None THEN {"collided"} ELSE {}
AddServices(ids, entry) ==
  /\ compose' = [c \in Name |-> IF c \in ids THEN entry ELSE compose[c]]
  /\ mishaps' = mishaps \union Overwrites(ids)

Without(f, ids) == [c \in Name |-> IF c \in ids THEN Entry(None) ELSE f[c]]

\* Blind splices: a second one for the same id leaves two, and each removal takes
\* the first match only.
More(f, ids) == [n \in Name |-> IF n \in ids THEN f[n] + 1 ELSE f[n]]
\* Mutant of Less: a removal that takes a match for granted.
LessBlind(f, ids) == [n \in Name |-> IF n \in ids THEN f[n] - 1 ELSE f[n]]
Less(f, ids) == [n \in Name |-> IF n \in ids /\ f[n] > 0 THEN f[n] - 1 ELSE f[n]]

---------------------------------------------------------------------------
(* A service: folder, compose service, route, scrape job, node. *)
CreateService(n) ==
  /\ Request /\ Free(n)
  /\ AddNodes({n}, "service", None)
  /\ AddServices({n}, Entry(n))
  /\ routes' = More(routes, {n}) /\ jobs' = More(jobs, {n})
  /\ UNCHANGED <<edges, pending>>

\* A simulated third party: reached through the load balancer, not scraped.
CreateExternal(n) ==
  /\ Request /\ Free(n)
  /\ AddNodes({n}, "external", None)
  /\ AddServices({n}, Entry(n))
  /\ routes' = More(routes, {n})
  /\ UNCHANGED <<edges, jobs, pending>>

\* What owns no container: a client is a node and a script.
CreateClientNode(n) ==
  /\ Request /\ Free(n)
  /\ AddNodes({n}, "client", None)
  /\ UNCHANGED <<edges, compose, routes, jobs, pending, mishaps>>

\* No dependents are looked for.
DeleteClientNode(n) ==
  /\ Request /\ kind[n] = "client"
  /\ AddNodes({n}, "absent", None)
  /\ edges' = {e \in edges : n \notin {e[1], e[2]}}
  /\ UNCHANGED <<compose, routes, jobs, pending, mishaps>>

\* An event stream: broker, exporter and the init container that makes its topics.
StreamServices(n) == {n, Sub(n, "exporter"), Sub(n, "init")}

CreateStreamNode(n) ==
  /\ Request /\ Free(n) /\ StreamServices(n) \subseteq Name
  /\ AddNodes({n}, "stream", None)
  /\ AddServices(StreamServices(n), Entry(n))
  /\ jobs' = More(jobs, {n})
  /\ UNCHANGED <<edges, routes, pending>>

---------------------------------------------------------------------------
(***************************************************************************)
(* Members.  A replica group is a base and its instances, all running the  *)
(* base's code; a load-balanced service is a sidecar and its instances.    *)
(* Scaling up counts on from the largest ordinal there is and clones a     *)
(* container that runs the code; scaling down drops the last ones.         *)
(***************************************************************************)
Instance(b, o) == Sub(b, Ordinals[o])
OrdinalsOf(b) ==
  {o \in DOMAIN Ordinals : LET n == Instance(b, o) IN n \in Name /\ kind[n] = "instance" /\ parent[n] = b}
LastOrdinal(b) == CHOOSE o \in OrdinalsOf(b) : \A p \in OrdinalsOf(b) : p <= o

\* A worker that registers does it under its own id.
Cloned(n, from) == [compose[from] EXCEPT !.owner = n]

\* Instances made before there were routes to them get theirs.
Ensured(b) == More(routes, {m \in Instances(b) : routes[m] = 0})

\* Up: a clone of the base for each of the next ordinals.  Down: the last of the
\* members go, with their containers, routes, scrape jobs and arrows.
SetReplicas(b, total) ==
  LET present == OrdinalsOf(b)
      last == IF present = {} THEN 1 ELSE LastOrdinal(b)
      up == last + total - Cardinality(present) - 1
      fresh == {Instance(b, o) : o \in last + 1..up}
      kept(o) == Cardinality({p \in present : p <= o}) < total
      dropped == {Instance(b, o) : o \in {p \in present : ~kept(p)}}
  IN /\ up <= Len(Ordinals) /\ \A n \in fresh : Free(n)
     /\ kind' = [n \in Name |-> IF n \in fresh THEN "instance" ELSE IF n \in dropped THEN "absent" ELSE kind[n]]
     /\ parent' = [n \in Name |-> IF n \in fresh THEN b ELSE IF n \in dropped THEN None ELSE parent[n]]
     /\ compose' = [n \in Name |-> IF n \in fresh THEN Cloned(n, b)
                                   ELSE IF n \in dropped THEN Entry(None) ELSE compose[n]]
     /\ edges' = {e \in edges : dropped \intersect {e[1], e[2]} = {}}
     /\ jobs' = More(Less(jobs, dropped), fresh)
     /\ routes' = More(Less(Ensured(b), dropped), fresh)

\* Members go, with their scrape jobs and arrows.
DropMembers(ids) ==
  /\ AddNodes(ids, "absent", None)
  /\ edges' = {e \in edges : ids \intersect {e[1], e[2]} = {}}
  /\ jobs' = Less(jobs, ids)

\* The service becomes the sidecar of 1..count; the load balancer still routes to it.
EnableLb(s, count) ==
  LET ids == {Instance(s, o) : o \in 1..count}
  IN /\ Request /\ kind[s] = "service" /\ count > 1
     /\ \A n \in ids : Free(n) /\ compose[n].owner = None
     /\ kind' = [n \in Name |-> IF n \in ids THEN "instance" ELSE IF n = s THEN "lb" ELSE kind[n]]
     /\ parent' = [n \in Name |-> IF n \in ids THEN s ELSE parent[n]]
     /\ compose' = [n \in Name |-> IF n \in ids THEN Cloned(n, s)
                                   ELSE IF n = s THEN Entry(s) ELSE compose[n]]
     /\ jobs' = More(jobs, ids)
     /\ edges' = edges \union ({s} \X ids)
     /\ UNCHANGED <<routes, pending>>

ScaleLbUp(s) ==
  LET n == Instance(s, LastOrdinal(s) + 1)
      first == CHOOSE o \in OrdinalsOf(s) : \A p \in OrdinalsOf(s) : o <= p
  IN /\ Request /\ kind[s] = "lb" /\ LastOrdinal(s) + 1 \in DOMAIN Ordinals
     /\ Free(n) /\ compose[n].owner = None
     /\ AddNodes({n}, "instance", s)
     /\ compose' = [compose EXCEPT ![n] = Cloned(n, Instance(s, first))]
     /\ jobs' = More(jobs, {n})
     /\ edges' = edges \union {<<s, n>>}
     /\ UNCHANGED <<routes, pending>>

ScaleLbDown(s) ==
  LET n == Instance(s, LastOrdinal(s))
  IN /\ Request /\ kind[s] = "lb" /\ Cardinality(OrdinalsOf(s)) > 2
     /\ DropMembers({n})
     /\ compose' = Without(compose, {n})
     /\ UNCHANGED <<routes, pending>>

\* Back to one container, with the environment of the first instance.
DisableLb(s) ==
  LET ids == Instances(s)
      first == CHOOSE o \in OrdinalsOf(s) : \A p \in OrdinalsOf(s) : o <= p
  IN /\ Request /\ kind[s] = "lb"
     /\ kind' = [n \in Name |-> IF n \in ids THEN "absent" ELSE IF n = s THEN "service" ELSE kind[n]]
     /\ parent' = [n \in Name |-> IF n \in ids THEN None ELSE parent[n]]
     /\ compose' = [Without(compose, ids) EXCEPT ![s] = Cloned(s, Instance(s, first))]
     /\ edges' = {e \in edges : ids \intersect {e[1], e[2]} = {}}
     /\ jobs' = Less(jobs, ids)
     /\ UNCHANGED <<routes, pending>>
=============================================================================
