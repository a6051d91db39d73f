----------------------------- MODULE Databases -----------------------------
(***************************************************************************)
(* Databases, their read replicas and the workers that capture their       *)
(* changes into topics (CDC).  Adding a replica to Cassandra and adding a  *)
(* capture rule load manifest.json, await the database, and write what     *)
(* they loaded back.                                                       *)
(***************************************************************************)
EXTENDS Streams, EtcdRegistry

VARIABLE cdc   \* cdc.json of a database: the <<cluster, topic>> pairs it is captured into
CdcType == cdc \in [Name -> SUBSET (Name \X Topic)]

Engine == {"mongo", "cassandra"}
Primaries == {n \in Nodes : kind[n] \in Engine}

\* The whole of manifest.json, and what writing it puts there.
Manifest == [kind |-> kind, parent |-> parent, edges |-> edges, groupOf |-> groupOf,
             etcdNode |-> etcdNode]
WriteManifest(m) ==
  kind' = m.kind /\ parent' = m.parent /\ edges' = m.edges /\ groupOf' = m.groupOf /\ etcdNode' = m.etcdNode
Stale(m) == IF Manifest = m THEN {} ELSE {"lost"}

\* What the handlers of this module leave alone.
otherVars == <<consumers, policy, registry, kv>>

DbServices(n, engine) ==
  {n, Sub(n, "exporter")} \union IF engine = "cassandra" THEN {Sub(n, "init")} ELSE {}

CreateDb(n, engine) ==
  /\ Request /\ Free(n) /\ DbServices(n, engine) \subseteq Name
  /\ AddNodes({n}, engine, None)
  /\ AddServices(DbServices(n, engine), Entry(n))
  /\ jobs' = More(jobs, {n})
  /\ UNCHANGED <<edges, routes, pending, streamVars, etcdVars, cdc>>

---------------------------------------------------------------------------
\* The ordinal after the largest of any node called `<primary>-<ordinal>`.
NextOrdinal(p) ==
  LET used == {o \in DOMAIN Ordinals : Instance(p, o) \in Nodes}
  IN IF used = {} THEN 1 ELSE 1 + CHOOSE o \in used : \A k \in used : k <= o

ReplicaServices(n) == {n, Sub(n, "exporter")}

\* The files of a new replica n of p, in the manifest m that was loaded.
SaveReplica(p, n, m) ==
  /\ WriteManifest([m EXCEPT !.kind[n] = "replica", !.parent[n] = p])
  /\ compose' = [c \in Name |-> IF c \in ReplicaServices(n) THEN Entry(n) ELSE compose[c]]
  /\ mishaps' = mishaps \union Overwrites(ReplicaServices(n)) \union Stale(m)
  /\ jobs' = More(jobs, {n})
  /\ UNCHANGED <<routes, otherVars, streams, paused, partitions, cdc>>

ReplicaStart(p) ==
  LET n == Instance(p, NextOrdinal(p))
  IN /\ Request /\ p \in Primaries /\ NextOrdinal(p) \in DOMAIN Ordinals
     /\ ReplicaServices(n) \subseteq Name
     /\ \/ /\ kind[p] = "mongo"
           /\ SaveReplica(p, n, Manifest) /\ UNCHANGED pending
        \/ /\ kind[p] = "cassandra"    \* the replication factor is raised first
           /\ Await([op |-> "replica", id |-> ops, primary |-> p, node |-> n, manifest |-> Manifest])
           /\ UNCHANGED <<fileVars, mishaps, streamVars, etcdVars, cdc>>

ReplicaSave(r) ==
  /\ r.op = "replica" /\ pending' = pending \ {r}
  /\ SaveReplica(r.primary, r.node, r.manifest)
  /\ UNCHANGED clock

---------------------------------------------------------------------------
Worker(d) == Sub(d, "cdc")

WithProducer(k, t, w) ==
  [streams EXCEPT ![k][t] = [@ EXCEPT !.producers = @ \union {w},
                                      !.partitions = IF @ = 0 THEN 1 ELSE @]]

\* The table's columns are asked for before anything is written.
CaptureStart(d, k, t) ==
  /\ Request /\ d \in Primaries /\ Worker(d) \in Name
  /\ Await([op |-> "capture", id |-> ops, db |-> d, stream |-> k, topic |-> t, manifest |-> Manifest])
  /\ UNCHANGED <<fileVars, mishaps, streamVars, etcdVars, cdc>>

\* The table is unknown, or the stream was.
CaptureFails(r) ==
  /\ r.op = "capture" /\ pending' = pending \ {r}
  /\ UNCHANGED <<fileVars, mishaps, clock, streamVars, etcdVars, cdc>>

\* cdc.json and streams.json, as they are now; the worker, when the manifest that
\* was loaded has none; or the arrow, when that manifest has none.  Of streams.json only
\* the topics are written back: by the file, consumers that were paused no longer are.
CaptureSave(r) ==
  LET m == r.manifest
      w == Worker(r.db)
      rules == cdc[r.db] \union {<<r.stream, r.topic>>}
      arrows == {<<w, x[1]>> : x \in rules}
      fresh == m.kind[w] = "absent"
  IN /\ r.op = "capture" /\ m.kind[r.stream] = "stream"
     /\ cdc' = [cdc EXCEPT ![r.db] = rules]
     /\ streams' = WithProducer(r.stream, r.topic, w)
     /\ paused' = paused \ {r.stream}
     /\ \/ /\ fresh
           /\ compose' = [compose EXCEPT ![w] = Entry(w)]
           /\ jobs' = More(jobs, {w})
           /\ WriteManifest([m EXCEPT !.kind[w] = "cdc", !.parent[w] = r.db,
                                      !.edges = @ \union {<<r.db, w>>} \union arrows])
           /\ mishaps' = mishaps \union Stale(m) \union Overwrites({w})
        \/ /\ ~fresh /\ <<w, r.stream>> \notin m.edges
           /\ WriteManifest([m EXCEPT !.edges = @ \union {<<w, r.stream>>}])
           /\ mishaps' = mishaps \union Stale(m)
           /\ UNCHANGED <<compose, jobs>>
        \/ /\ ~fresh /\ <<w, r.stream>> \in m.edges
           /\ mishaps' = mishaps \union IF Manifest = m THEN {} ELSE {"stale"}
           /\ UNCHANGED <<kind, parent, edges, groupOf, etcdNode, compose, jobs>>
     /\ pending' = (pending \ {r}) \union
                   {[op |-> "topic", id |-> r.id, cluster |-> r.stream, topic |-> r.topic]}
     /\ UNCHANGED <<routes, clock, partitions, otherVars>>

\* `--create --if-not-exists`; its failing is a warning.
EnsureTopic(r) ==
  /\ r.op = "topic" /\ pending' = pending \ {r}
  /\ \/ /\ kind[r.cluster] = "stream"
        /\ partitions' = [partitions EXCEPT ![r.cluster][r.topic] = IF @ = 0 THEN 1 ELSE @]
        /\ UNCHANGED mishaps
     \/ mishaps' = mishaps \union {"failed"} /\ UNCHANGED partitions
  /\ UNCHANGED <<fileVars, clock, streams, paused, consumers, groupOf, policy, etcdVars, cdc>>

WithoutProducer(ks, ts, w) ==
  [k \in Name |-> [t \in Topic |-> IF k \in ks /\ t \in ts
                                   THEN [streams[k][t] EXCEPT !.producers = @ \ {w}]
                                   ELSE streams[k][t]]]

\* The last rule takes the worker with it.  Where it is struck from the producers, again
\* only the topics are written back.
RemoveRule(d, x) ==
  LET w == Worker(d)
      rest == cdc[d] \ {x}
      same == {y \in rest : y[1] = x[1]}
  IN /\ Request /\ d \in Primaries /\ x \in cdc[d]
     /\ cdc' = [cdc EXCEPT ![d] = rest]
     /\ \/ /\ rest = {}
           /\ compose' = Without(compose, {w})
           /\ DropMembers({w})
           /\ streams' = WithoutProducer(Clusters, Topic, w)
           /\ paused' = paused \ {k \in Clusters : \E t \in Topics(k) : w \in streams[k][t].producers}
        \/ /\ rest # {}
           /\ streams' = WithoutProducer({x[1]}, {x[2]}, w)
           /\ paused' = IF x[2] \in Topics(x[1]) THEN paused \ {x[1]} ELSE paused
           /\ edges' = IF same = {} THEN edges \ {<<w, x[1]>>} ELSE edges
           /\ UNCHANGED <<kind, parent, compose, jobs>>
     /\ UNCHANGED <<routes, pending, mishaps, partitions, consumers, groupOf, policy, etcdVars>>

DatabasesNext ==
  \/ \E d \in Chosen, engine \in Engine : CreateDb(d, engine)
  \/ \E d \in Primaries :
       ReplicaStart(d) \/ \E k \in Clusters, t \in Topic : CaptureStart(d, k, t) \/ RemoveRule(d, <<k, t>>)

DatabaseAwaits(r) == ReplicaSave(r) \/ CaptureFails(r) \/ CaptureSave(r) \/ EnsureTopic(r)
=============================================================================
