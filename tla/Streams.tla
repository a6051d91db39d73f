------------------------------ MODULE Streams ------------------------------
(***************************************************************************)
(* Event streams and what consumes them.  A function that consumes is kept *)
(* in consumers.json; each cluster's streams.json says which groups read a *)
(* topic, for the containers and for the diagram.  A consumer group        *)
(* service also keeps its group in its manifest node and in the scaler's   *)
(* policy file, so one group id is written down in four places.            *)
(***************************************************************************)
EXTENDS SystemFiles

CONSTANTS Topic, Fn, Group,     \* topics, function names, group ids a user may type
          Model,                \* the names of the models bank
          DefaultGroup(_, _),   \* `${service}-${name}`
          MaxPartitions

VARIABLES
  streams,    \* streams.json of a cluster, by topic; a topic without partitions is not there
  partitions, \* the partitions Kafka has
  paused,     \* the clusters whose consumers are paused
  consumers,  \* consumers.json: [service, name, cluster, topic, group]
  groupOf,    \* manifest: node.consumerGroup of a consumer group service
  policy      \* scaler.json: the group the scaler watches
streamVars == <<streams, partitions, paused, consumers, groupOf, policy>>

NoTopic == [partitions |-> 0, groups |-> {}, producers |-> {}, schema |-> None]
NoGroup == [cluster |-> None, group |-> None]
GroupIds == Group \union {DefaultGroup(s, f) : s \in Name, f \in Fn}
Function == [service : Name, name : Fn, cluster : Name, topic : Topic, group : GroupIds]

StreamsType ==
  /\ streams \in [Name -> [Topic -> [partitions : 0..MaxPartitions,
                                     groups : SUBSET [id : GroupIds, members : SUBSET Name],
                                     producers : SUBSET Name,
                                     schema : Model \union {None}]]]
  /\ partitions \in [Name -> [Topic -> 0..MaxPartitions]]
  /\ paused \subseteq Name
  /\ consumers \subseteq Function
  /\ \A n \in Name : groupOf[n] = NoGroup \/ groupOf[n] \in [cluster : Name, group : GroupIds]
  /\ policy \in [Name -> GroupIds \union {None}]

Clusters == {n \in Nodes : kind[n] = "stream"}
Topics(k) == {t \in Topic : streams[k][t].partitions > 0}

---------------------------------------------------------------------------
CreateStream(n, ts) ==
  /\ CreateStreamNode(n)
  /\ streams' = [streams EXCEPT ![n] = [t \in Topic |->
                   IF t \in ts THEN [NoTopic EXCEPT !.partitions = 1] ELSE NoTopic]]
  /\ partitions' = [partitions EXCEPT ![n] = [t \in Topic |-> IF t \in ts THEN 1 ELSE 0]]
  /\ UNCHANGED <<paused, consumers, groupOf, policy>>

\* A group reads one topic of a cluster: its entry moves there from any other.
\* An unknown topic leaves the file alone.
WithGroup(f, k, t, g, members) ==
  IF t \notin {u \in Topic : f[k][u].partitions > 0} THEN f
  ELSE [f EXCEPT ![k] = [u \in Topic |-> [f[k][u] EXCEPT !.groups =
         {e \in f[k][u].groups : e.id # g}
         \union (IF u = t THEN {[id |-> g, members |-> members]} ELSE {})]]]

WithoutGroup(f, k, g) ==
  [f EXCEPT ![k] = [u \in Topic |-> [f[k][u] EXCEPT !.groups = {e \in f[k][u].groups : e.id # g}]]]

\* What the request asks for is checked: a service, a cluster, a topic of it, and
\* a group that no other function on the cluster uses.
ValidInput(fn) ==
  /\ fn.cluster \in Clusters
  /\ fn.topic \in Topics(fn.cluster)
  /\ \A c \in consumers : c.cluster = fn.cluster /\ c.group = fn.group
                            => c.service = fn.service /\ c.name = fn.name

Previous(s, f) == {c \in consumers : c.service = s /\ c.name = f}

\* consumers.json, then streams.json, then the arrow, then the group of a
\* consumer group service and of its scaler.
SaveFunction(fn, members, isGroup) ==
  LET prev == Previous(fn.service, fn.name)
      moved == {c \in prev : c.group # fn.group \/ c.cluster # fn.cluster}
      freed == IF moved = {} THEN streams
               ELSE LET c == CHOOSE c \in moved : TRUE IN WithoutGroup(streams, c.cluster, c.group)
  IN /\ consumers' = (consumers \ prev) \union {fn}
     /\ streams' = WithGroup(freed, fn.cluster, fn.topic, fn.group, members)
     /\ edges' = edges \union {<<fn.service, fn.cluster>>}
     /\ IF isGroup
        THEN /\ groupOf' = [groupOf EXCEPT ![fn.service] = [cluster |-> fn.cluster, group |-> fn.group]]
             /\ policy' = [policy EXCEPT ![fn.service] = fn.group]
        ELSE UNCHANGED <<groupOf, policy>>

UpsertConsumer(fn) ==
  /\ Request
  /\ kind[fn.service] \in Standalone \union {"instance"}
  /\ ValidInput(fn)
  /\ SaveFunction(fn, CodeContainers(fn.service), kind[fn.service] = "group")
  /\ UNCHANGED <<kind, parent, compose, routes, jobs, pending, mishaps, partitions, paused>>

\* A group that was the default of the old name follows the rename; whether another
\* function has taken that name for its group is not looked at.
RenameConsumer(c, name) ==
  LET follows == c.group = DefaultGroup(c.service, c.name)
      group == IF follows THEN DefaultGroup(c.service, name) ELSE c.group
      taken == \E d \in consumers \ {c} : d.cluster = c.cluster /\ d.group = group
      isGroup == follows /\ kind[c.service] = "group"
  IN /\ Request /\ c \in consumers
     /\ Previous(c.service, name) = {}
     /\ consumers' = (consumers \ {c}) \union {[c EXCEPT !.name = name, !.group = group]}
     /\ streams' = IF follows
                   THEN WithGroup(WithoutGroup(streams, c.cluster, c.group),
                                  c.cluster, c.topic, group, CodeContainers(c.service))
                   ELSE streams
     /\ groupOf' = IF isGroup THEN [groupOf EXCEPT ![c.service] =
                                      [cluster |-> c.cluster, group |-> group]] ELSE groupOf
     /\ policy' = IF isGroup THEN [policy EXCEPT ![c.service] = group] ELSE policy
     /\ mishaps' = IF taken THEN mishaps \union {"group taken"} ELSE mishaps
     /\ UNCHANGED <<fileVars, pending, partitions, paused>>

\* The function's group leaves the cluster; the arrow, when it is a function's, stays
\* while another needs it.
DeleteConsumer(c) ==
  LET rest == consumers \ {c}
      needed == \E d \in rest : d.service = c.service /\ d.cluster = c.cluster
  IN /\ Request /\ c \in consumers
     /\ consumers' = rest
     /\ streams' = WithoutGroup(streams, c.cluster, c.group)
     /\ edges' = IF needed THEN edges ELSE edges \ ({<<c.service, c.cluster>>} \ bare)
     /\ UNCHANGED <<kind, parent, compose, routes, jobs, pending, mishaps,
                    partitions, paused, groupOf, policy>>

SetClusterPause(k) ==
  /\ Request /\ k \in Clusters
  /\ \E on \in BOOLEAN : paused' = IF on THEN paused \union {k} ELSE paused \ {k}
  /\ UNCHANGED <<fileVars, pending, mishaps, streams, partitions, consumers, groupOf, policy>>

(***************************************************************************)
(* More partitions: the file is loaded, Kafka is asked and, when it has    *)
(* answered, what was loaded is written back with the new number.          *)
(***************************************************************************)
AlterStart(k, t, n) ==
  /\ Request /\ k \in Clusters /\ t \in Topics(k)
  /\ n \in streams[k][t].partitions + 1..MaxPartitions
  /\ Await([op |-> "alter", id |-> ops, cluster |-> k, topic |-> t, n |-> n, done |-> FALSE,
            file |-> [topics |-> streams[k], paused |-> k \in paused]])
  /\ UNCHANGED <<fileVars, mishaps, streamVars>>

\* Kafka only ever adds partitions, and refuses the rest.
AlterKafka(r) ==
  /\ r.op = "alter" /\ ~r.done
  /\ IF r.n > partitions[r.cluster][r.topic]
     THEN /\ partitions' = [partitions EXCEPT ![r.cluster][r.topic] = r.n]
          /\ pending' = (pending \ {r}) \union {[r EXCEPT !.done = TRUE]}
     ELSE pending' = pending \ {r} /\ UNCHANGED partitions
  /\ UNCHANGED <<fileVars, mishaps, clock, streams, paused, consumers, groupOf, policy>>

\* The docker command fails: the request does, and nothing is written.
AlterFails(r) ==
  /\ r.op = "alter" /\ ~r.done
  /\ pending' = pending \ {r}
  /\ UNCHANGED <<fileVars, mishaps, clock, streamVars>>

AlterSave(r) ==
  /\ r.op = "alter" /\ r.done
  /\ pending' = pending \ {r}
  /\ IF r.cluster \in Clusters
     THEN LET now == [topics |-> streams[r.cluster], paused |-> r.cluster \in paused]
          IN /\ streams' = [streams EXCEPT ![r.cluster] = [r.file.topics EXCEPT ![r.topic].partitions = r.n]]
             /\ paused' = IF r.file.paused THEN paused \union {r.cluster} ELSE paused \ {r.cluster}
             /\ mishaps' = IF now = r.file THEN mishaps ELSE mishaps \union {"lost"}
     ELSE UNCHANGED <<streams, paused, mishaps>>   \* its folder is gone: the write fails
  /\ UNCHANGED <<fileVars, clock, partitions, consumers, groupOf, policy>>

(***************************************************************************)
(* A consumer group service comes with its scaler and its first function.  *)
(* Its members are kept in the group's entry when it is scaled.            *)
(***************************************************************************)
CreateGroup(n, fn) ==
  LET scaler == Sub(n, "scaler")
      both == {n, scaler}
  IN /\ Request /\ Free(n) /\ Free(scaler) /\ fn.service = n
     /\ ValidInput(fn)
     /\ kind' = [m \in Name |-> IF m = n THEN "group" ELSE IF m = scaler THEN "scaler" ELSE kind[m]]
     /\ parent' = [parent EXCEPT ![scaler] = n]
     /\ compose' = [m \in Name |-> IF m \in both THEN Entry(m) ELSE compose[m]]
     /\ mishaps' = mishaps \union Overwrites(both)
     /\ routes' = More(routes, both) /\ jobs' = More(jobs, both)
     /\ SaveFunction(fn, {n}, TRUE)
     /\ UNCHANGED <<pending, partitions, paused>>

SyncMembers(b, members) ==
  LET k == groupOf[b].cluster
  IN streams' = IF k = None THEN streams
                ELSE [streams EXCEPT ![k] = [t \in Topic |-> [streams[k][t] EXCEPT !.groups =
                       {IF e.id = groupOf[b].group THEN [e EXCEPT !.members = members] ELSE e
                          : e \in streams[k][t].groups}]]]

\* A function that only an instance runs is not looked for when the instance goes.
\* The members are those of the group saved last: another function's are left as
\* they were, and after its deletion the group may be another service's.
ScaleMishaps(b) ==
  (IF \E c \in consumers : parent[c.service] = b /\ kind'[c.service] = "absent" THEN {"cascaded"} ELSE {})
  \union (IF \E c \in consumers : (c.service = b) # (groupOf[b] = [cluster |-> c.cluster, group |-> c.group])
          THEN {"unsynced"} ELSE {})
  \union Overwrites({n \in Name : kind[n] = "absent" /\ kind'[n] # "absent"})

Regroup(b, total) ==
  /\ kind[b] = "group" /\ SetReplicas(b, total)
  /\ SyncMembers(b, {b} \union {m \in Name : parent'[m] = b /\ kind'[m] = "instance"})
  /\ mishaps' = mishaps \union ScaleMishaps(b)
  /\ UNCHANGED <<partitions, paused, consumers, groupOf, policy>>

ScaleGroup(b) == Request /\ UNCHANGED pending /\ \E total \in DOMAIN Ordinals : Regroup(b, total)

\* What the form can be filled in with.
Functions(s) ==
  UNION {[service : {s}, name : {f}, cluster : Clusters, topic : Topic,
          group : Group \union {DefaultGroup(s, f)}] : f \in Fn}

ConsumersNext ==
  \/ \E s \in Nodes : \E fn \in Functions(s) : UpsertConsumer(fn)
  \/ \E c \in consumers, name \in Fn : RenameConsumer(c, name)
  \/ \E c \in consumers : DeleteConsumer(c)

StreamsNext ==
  \/ ConsumersNext
  \/ \E n \in Chosen, ts \in SUBSET Topic : CreateStream(n, ts)
  \/ \E k \in Clusters : SetClusterPause(k) \/ \E t \in Topic, n \in 1..MaxPartitions : AlterStart(k, t, n)
  \/ \E n \in Chosen \ Nodes : \E fn \in Functions(n) : CreateGroup(n, fn)
  \/ \E b \in Nodes : ScaleGroup(b)
=============================================================================
