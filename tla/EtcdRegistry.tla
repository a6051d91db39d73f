---------------------------- MODULE EtcdRegistry ----------------------------
(***************************************************************************)
(* The etcd cluster of a system: which service registers itself under a    *)
(* keyspace, who watches it, and the config keyspaces whose values are     *)
(* kept both in etcd.json and in etcd.  What a service needs for its role  *)
(* is in the environment of every container that runs its code.            *)
(***************************************************************************)
EXTENDS SystemFiles, TLC

CONSTANTS Sizes,       \* the sizes a cluster can have
          Config,      \* names of config keyspaces
          Key, Value

VARIABLES
  registry,  \* etcd.json: the size it gives the cluster, and the keyspaces
  etcdNode,  \* manifest: the node's size, and of how many members it lists the names
  kv         \* what etcd holds under a config keyspace
etcdVars == <<registry, etcdNode, kv>>

NoRegistry == [size |-> 0, keyspaces |-> {}]
NoCluster == [size |-> 0, members |-> 0]
NoValues == [k \in Key |-> None]
Empty == [c \in Config |-> NoValues]

\* A discovery keyspace is its owner's; a config keyspace has values.
Discovery(s, ls) == [id |-> s, config |-> FALSE, listeners |-> ls, values |-> NoValues]
ConfigSpace(c, vs) == [id |-> c, config |-> TRUE, listeners |-> {}, values |-> vs]
Keyspace == [id : Name \union Config, config : BOOLEAN, listeners : SUBSET Name,
             values : [Key -> Value \union {None}]]

EtcdType ==
  /\ registry \in [size : Sizes \union {0}, keyspaces : SUBSET Keyspace]
  /\ etcdNode \in [size : Sizes \union {0}, members : Sizes \union {0}]
  /\ kv \in [Config -> [Key -> Value \union {None}]]

Cluster(n) == kind[n] = "etcd"
Members(n, size) == {Instance(n, o) : o \in 1..size}
Keyspaces(id) == {ks \in registry.keyspaces : ks.id = id}

\* A role: it registers, or it watches a keyspace.
HasRole(keyspaces, s) == \E ks \in keyspaces : (~ks.config /\ ks.id = s) \/ s \in ks.listeners
Registers(keyspaces, s) == \E ks \in keyspaces : ~ks.config /\ ks.id = s
Registrable(s) == kind[s] \in Standalone \union {"lb"}

\* etcdctl reaches a member.
Reachable == \E n \in Nodes : Cluster(n)

\* The containers of a service's code that docker-compose.yml has.
Composed(s) == {c \in CodeContainers(s) : compose[c].owner # None}

---------------------------------------------------------------------------
CreateCluster(n, size) ==
  /\ Request /\ Free(n) /\ ~\E m \in Nodes : Cluster(m)
  /\ Members(n, size) \subseteq Name
  /\ \A m \in Members(n, size) : Free(m) /\ compose[m].owner = None
  /\ registry' = [size |-> size, keyspaces |-> {}]
  /\ etcdNode' = [size |-> size, members |-> size]
  /\ kv' = Empty
  /\ AddNodes({n}, "etcd", None)
  /\ AddServices(Members(n, size), Entry(n))
  /\ jobs' = More(jobs, {n})
  /\ UNCHANGED <<edges, routes, pending>>

(***************************************************************************)
(* A new size.  etcd.json has it before the members' names are looked at:  *)
(* a refused request leaves it there, and the same request sent again then *)
(* only copies it into the node.  Otherwise the members are rewritten, the *)
(* environment of every role is, and the cluster is made anew; when it has *)
(* a leader, the values loaded at the start are put back into it.          *)
(***************************************************************************)
Resize(n, size) ==
  LET new == Members(n, size)
      old == Members(n, etcdNode.members)
      roles == {s \in Nodes : HasRole(registry.keyspaces, s)}
      touched == UNION {CodeContainers(s) : s \in roles}
  IN /\ Cluster(n) /\ Request /\ new \subseteq Name
     /\ registry' = [registry EXCEPT !.size = size]
     /\ \/ /\ registry.size = size
           /\ etcdNode' = [etcdNode EXCEPT !.size = size]
           /\ UNCHANGED <<compose, pending, mishaps>>
        \/ /\ registry.size # size /\ \E m \in new \ old : kind[m] # "absent"
           /\ mishaps' = mishaps \union {"refused"}
           /\ UNCHANGED <<compose, etcdNode, pending>>
        \/ /\ registry.size # size /\ \A m \in new \ old : kind[m] = "absent"
           /\ etcdNode' = [size |-> size, members |-> size]
           /\ compose' = [c \in Name |->
                            IF c \in new THEN Entry(n)
                            ELSE IF c \in old THEN Entry(None)
                            ELSE IF c \in touched /\ compose[c].owner # None
                                 THEN [compose[c] EXCEPT !.endpoints = size]
                                 ELSE compose[c]]
           /\ mishaps' = mishaps \union Overwrites(new \ old)
           /\ Await([op |-> "resize", id |-> ops, keyspaces |-> registry.keyspaces, up |-> FALSE])
     /\ UNCHANGED <<kind, parent, edges, routes, jobs, kv>>

\* The members are recreated with no data.
Recreate(r) ==
  /\ r.op = "resize" /\ ~r.up
  /\ kv' = Empty
  /\ pending' = (pending \ {r}) \union {[r EXCEPT !.up = TRUE]}
  /\ UNCHANGED <<fileVars, mishaps, clock, registry, etcdNode>>

\* Mutant of ReplayValues: the cluster comes back empty.
ReplayNothing(r) ==
  /\ r.op = "resize" /\ r.up
  /\ pending' = pending \ {r}
  /\ UNCHANGED <<fileVars, mishaps, clock, registry, etcdNode, kv>>

\* docker compose fails before, or the values are not put back: only reported.
ReplayValues(r) ==
  /\ r.op = "resize" /\ r.up
  /\ pending' = pending \ {r}
  /\ \/ LET values(c) == UNION {{ks.values} : ks \in {d \in r.keyspaces : d.config /\ d.id = c}}
        IN /\ Reachable
           /\ kv' = [c \in Config |-> [k \in Key |->
                       IF \E v \in values(c) : v[k] # None
                       THEN (CHOOSE v \in values(c) : v[k] # None)[k] ELSE kv[c][k]]]
           /\ UNCHANGED mishaps
     \/ mishaps' = mishaps \union {"failed"} /\ UNCHANGED kv
  /\ UNCHANGED <<fileVars, clock, registry, etcdNode>>

---------------------------------------------------------------------------
\* A service registers: an identity no config keyspace has, and the environment.
UpsertKeyspace(n, s) ==
  LET prev == Keyspaces(s)
      listeners == UNION {ks.listeners : ks \in prev}
  IN /\ Cluster(n) /\ Request /\ Registrable(s)
     /\ \A ks \in prev : ~ks.config
     /\ registry' = [registry EXCEPT !.keyspaces = (@ \ prev) \union {Discovery(s, listeners)}]
     /\ compose' = [c \in Name |-> IF c \in Composed(s)
                                   THEN [compose[c] EXCEPT !.worker = TRUE, !.endpoints = etcdNode.members]
                                   ELSE compose[c]]
     /\ UNCHANGED <<kind, parent, edges, routes, jobs, pending, mishaps, etcdNode, kv>>

\* Mutant of Scrubbed: the other role of the service is not looked at.
ScrubbedWhole(s, keyspaces, worker) ==
  [c \in Name |-> IF c \in Composed(s)
                  THEN [compose[c] EXCEPT !.worker = @ /\ ~worker, !.endpoints = 0] ELSE compose[c]]

\* Every role that is left keeps the endpoints.
Scrubbed(s, keyspaces, worker) ==
  [c \in Name |-> IF c \in Composed(s)
                  THEN [compose[c] EXCEPT !.worker = @ /\ ~worker,
                                          !.endpoints = IF HasRole(keyspaces, s) THEN @ ELSE 0]
                  ELSE compose[c]]

\* Refused while it is watched.  A config keyspace's keys are wiped later on.
DeleteKeyspace(n, id) ==
  LET rest == registry.keyspaces \ Keyspaces(id)
  IN /\ Cluster(n) /\ Request /\ Keyspaces(id) # {}
     /\ \A ks \in Keyspaces(id) : ks.listeners = {}
     /\ registry' = [registry EXCEPT !.keyspaces = rest]
     /\ IF id \in Config
        THEN Await([op |-> "wipe", id |-> ops, space |-> id]) /\ UNCHANGED compose
        ELSE compose' = Scrubbed(id, rest, TRUE) /\ UNCHANGED pending
     /\ UNCHANGED <<kind, parent, edges, routes, jobs, mishaps, etcdNode, kv>>

\* `del --prefix`: whatever is there now goes; its failing is not reported.
Wipe(r) ==
  /\ r.op = "wipe"
  /\ pending' = pending \ {r}
  /\ \/ Reachable /\ kv' = [kv EXCEPT ![r.space] = NoValues] /\ UNCHANGED mishaps
     \/ mishaps' = mishaps \union {"failed"} /\ UNCHANGED kv
  /\ UNCHANGED <<fileVars, clock, registry, etcdNode>>

\* A listener of another's keyspace gets the endpoints.
UpsertListener(n, id, s) ==
  /\ Cluster(n) /\ Request /\ Registrable(s) /\ Keyspaces(id) # {} /\ id # s
  /\ registry' = [registry EXCEPT !.keyspaces =
                    {IF ks.id = id THEN [ks EXCEPT !.listeners = @ \union {s}] ELSE ks : ks \in @}]
  /\ compose' = [c \in Name |-> IF c \in Composed(s)
                                THEN [compose[c] EXCEPT !.endpoints = etcdNode.members] ELSE compose[c]]
  /\ UNCHANGED <<kind, parent, edges, routes, jobs, pending, mishaps, etcdNode, kv>>

DeleteListener(n, id, s) ==
  LET rest == {IF ks.id = id THEN [ks EXCEPT !.listeners = @ \ {s}] ELSE ks : ks \in registry.keyspaces}
  IN /\ Cluster(n) /\ Request /\ \E ks \in Keyspaces(id) : s \in ks.listeners
     /\ registry' = [registry EXCEPT !.keyspaces = rest]
     /\ compose' = IF s \in Nodes THEN Scrubbed(s, rest, FALSE) ELSE compose
     /\ UNCHANGED <<kind, parent, edges, routes, jobs, pending, mishaps, etcdNode, kv>>

(***************************************************************************)
(* A value of a config keyspace, or the first values of a new one: etcd.json *)
(* is loaded, etcd is asked, and what was loaded is written back changed.  *)
(***************************************************************************)
PutStart(n, c, values) ==
  /\ Cluster(n) /\ Request /\ ~\E ks \in registry.keyspaces : ks.id = c /\ ~ks.config
  /\ \A k \in DOMAIN values : values[k] = None => \E ks \in Keyspaces(c) : ks.values[k] # None
  /\ Await([op |-> "put", id |-> ops, space |-> c, values |-> values, file |-> registry, done |-> FALSE])
  /\ UNCHANGED <<fileVars, mishaps, etcdVars>>

\* A new config keyspace without values awaits nothing.
CreateConfig(n, c) ==
  /\ Cluster(n) /\ Request /\ Keyspaces(c) = {}
  /\ registry' = [registry EXCEPT !.keyspaces = @ \union {ConfigSpace(c, NoValues)}]
  /\ UNCHANGED <<fileVars, pending, mishaps, etcdNode, kv>>

\* `values` says what becomes of a key: a value, None to delete it, or not in it.
Changed(values, by) == [k \in Key |-> IF k \in DOMAIN by THEN by[k] ELSE values[k]]

PutLive(r) ==
  /\ r.op = "put" /\ ~r.done /\ Reachable
  /\ kv' = [kv EXCEPT ![r.space] = Changed(@, r.values)]
  /\ pending' = (pending \ {r}) \union {[r EXCEPT !.done = TRUE]}
  /\ UNCHANGED <<fileVars, mishaps, clock, registry, etcdNode>>

\* No member answers: nothing is written, what etcd made of it or not.
PutFails(r) ==
  /\ r.op = "put" /\ ~r.done
  /\ pending' = pending \ {r}
  /\ \/ UNCHANGED <<kv, mishaps>>
     \/ /\ Reachable
        /\ kv' = [kv EXCEPT ![r.space] = Changed(@, r.values)]
        /\ mishaps' = mishaps \union {"failed"}
  /\ UNCHANGED <<fileVars, clock, registry, etcdNode>>

PutSave(r) ==
  LET prev == {ks \in r.file.keyspaces : ks.id = r.space}
      values == UNION {{ks.values} : ks \in prev}
      space == IF prev = {} THEN ConfigSpace(r.space, Changed(NoValues, r.values))
               ELSE LET ks == CHOOSE ks \in prev : TRUE
                    IN [ks EXCEPT !.values = Changed(@, r.values)]
  IN /\ r.op = "put" /\ r.done
     /\ pending' = pending \ {r}
     /\ registry' = [r.file EXCEPT !.keyspaces = (@ \ prev) \union {space}]
     /\ mishaps' = mishaps \union (IF registry = r.file THEN {} ELSE {"lost"})
     /\ UNCHANGED <<fileVars, clock, etcdNode, kv>>

\* A member is killed or started: the files stay as they are.
EtcdNext ==
  \/ \E n \in Chosen, size \in Sizes : CreateCluster(n, size)
  \/ \E n \in Nodes :
       \/ \E size \in Sizes : Resize(n, size)
       \/ \E s \in Nodes : UpsertKeyspace(n, s)
       \/ \E ks \in registry.keyspaces :
            \/ DeleteKeyspace(n, ks.id)
            \/ \E s \in Nodes : UpsertListener(n, ks.id, s)
            \/ \E s \in ks.listeners : DeleteListener(n, ks.id, s)

ValuesNext ==
  \E n \in Nodes, c \in Config :
    CreateConfig(n, c) \/ \E k \in Key, v \in Value \union {None} : PutStart(n, c, k :> v)

EtcdAwaits(r) == Recreate(r) \/ ReplayValues(r) \/ Wipe(r) \/ PutLive(r) \/ PutFails(r) \/ PutSave(r)
=============================================================================
