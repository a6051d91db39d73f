---------------------------- MODULE CustomTypes ----------------------------
(***************************************************************************)
(* The custom service types besides the consumer group of Streams:         *)
(*   llm          a worker, the redis it streams tokens to and a scaler    *)
(*   reader       persists what a worker has streamed to a database        *)
(*   coordinator  distributes a file to its peers                          *)
(* A worker and a coordinator bring gRPC contracts: their handler awaits   *)
(* protoc and then writes the manifest as it was loaded before.  The loop  *)
(* that applies what the scalers want reads a scaler's state between       *)
(* finding its base and scaling it.                                        *)
(***************************************************************************)
EXTENDS Databases

VARIABLE readers   \* persistence.json: [service, worker, db, members]
ReadersType ==
  readers \subseteq [service : Name, worker : Name, db : Name \union {None}, members : SUBSET Name]

Tokens(w) == Sub(w, "stream")
Scaler(b) == Sub(b, "scaler")
TokenServices(w) == {Tokens(w), Sub(Tokens(w), "exporter")}

customRest == <<fileVars, mishaps, streamVars, etcdVars, cdc, readers>>

\* The names that come with a worker are those of no node.
CustomStart(n, type) ==
  /\ Request /\ Free(n)
  /\ type = "llm" => \A m \in TokenServices(n) \union {Scaler(n)} : Free(m)
  /\ Await([op |-> "custom", id |-> ops, node |-> n, type |-> type, manifest |-> Manifest])
  /\ UNCHANGED customRest

\* protoc does not take the contracts, or is not there.
CustomFails(r) ==
  /\ r.op = "custom" /\ pending' = pending \ {r}
  /\ UNCHANGED <<customRest, clock>>

\* Worker, token stream and scaler: containers, routes, scrape jobs, nodes.
LlmSave(r) ==
  LET n == r.node
      m == r.manifest
      own == {n, Scaler(n)}
  IN /\ r.op = "custom" /\ r.type = "llm" /\ pending' = pending \ {r}
     /\ compose' = [c \in Name |-> IF c \in own THEN Entry(c)
                                   ELSE IF c \in TokenServices(n) THEN Entry(Tokens(n)) ELSE compose[c]]
     /\ routes' = More(routes, own) /\ jobs' = More(jobs, own \union {Tokens(n)})
     /\ WriteManifest([m EXCEPT !.kind[n] = "llm", !.kind[Tokens(n)] = "tokens", !.kind[Scaler(n)] = "scaler",
                                !.parent[Tokens(n)] = n, !.parent[Scaler(n)] = n,
                                !.edges = @ \union {<<n, Tokens(n)>>}])
     /\ mishaps' = mishaps \union Overwrites(own \union TokenServices(n)) \union Stale(m)
     /\ UNCHANGED <<clock, streams, paused, partitions, otherVars, cdc, readers>>

CoordinatorSave(r) ==
  LET n == r.node
  IN /\ r.op = "custom" /\ r.type = "coordinator" /\ pending' = pending \ {r}
     /\ compose' = [compose EXCEPT ![n] = Entry(n)]
     /\ routes' = More(routes, {n}) /\ jobs' = More(jobs, {n})
     /\ WriteManifest([r.manifest EXCEPT !.kind[n] = "coordinator"])
     /\ mishaps' = mishaps \union Overwrites({n}) \union Stale(r.manifest)
     /\ UNCHANGED <<clock, streams, paused, partitions, otherVars, cdc, readers>>

---------------------------------------------------------------------------
\* A peer is a service of its own that calls the coordinator it is named after.
PeerSuffix == <<"w1", "w2">>
Peers(c) == {Sub(c, PeerSuffix[i]) : i \in DOMAIN PeerSuffix} \intersect {n \in Nodes : kind[n] = "peer"}

AddPeer(c) ==
  LET next == CHOOSE i \in 1..Len(PeerSuffix) + 1 :
                /\ i \in DOMAIN PeerSuffix => Sub(c, PeerSuffix[i]) \notin Nodes
                /\ \A j \in 1..i - 1 : Sub(c, PeerSuffix[j]) \in Nodes
      n == Sub(c, PeerSuffix[next])
  IN /\ Request /\ kind[c] = "coordinator" /\ next \in DOMAIN PeerSuffix /\ Free(n)
     /\ AddNodes({n}, "peer", None)
     /\ AddServices({n}, Entry(n))
     /\ routes' = More(routes, {n}) /\ jobs' = More(jobs, {n})
     /\ UNCHANGED <<edges, pending, streamVars, etcdVars, cdc, readers>>

\* Of a worker that has its stream, into a database of documents, or a replica of one,
\* or free of form into none.
CreateReader(n, w, d) ==
  /\ Request /\ Free(n)
  /\ kind[w] = "llm" /\ Tokens(w) \in Nodes
  /\ d # None => kind[d] = "mongo" \/ (kind[d] = "replica" /\ kind[parent[d]] = "mongo")
  /\ AddNodes({n}, "reader", None)
  /\ AddServices({n}, Entry(n))
  /\ routes' = More(routes, {n}) /\ jobs' = More(jobs, {n})
  /\ edges' = edges \union ({n} \X ({Tokens(w)} \union ({d} \ {None})))
  /\ readers' = {r \in readers : r.service # n}
                \union {[service |-> n, worker |-> w, db |-> d, members |-> {n}]}
  /\ UNCHANGED <<pending, streamVars, etcdVars, cdc>>

---------------------------------------------------------------------------
\* The entry of a reader lists the containers that run its code.
WithMembers(b, members) ==
  {IF r.service = b THEN [r EXCEPT !.members = members] ELSE r : r \in readers}

Remember(b, total) ==
  /\ kind[b] \in {"llm", "reader"} /\ SetReplicas(b, total)
  /\ readers' = WithMembers(b, {b} \union {m \in Name : parent'[m] = b /\ kind'[m] = "instance"})
  /\ mishaps' = mishaps \union ScaleMishaps(b)
  /\ UNCHANGED streamVars

ScaleCustom(b) == Request /\ UNCHANGED pending /\ \E total \in DOMAIN Ordinals : Remember(b, total)

\* The loop has a base with a scaler and asks the scaler; with the answer it looks
\* for the base again, and leaves it when it is not there or has what is wanted.
AutoscaleStart(b) ==
  /\ Request /\ kind[b] \in {"group", "llm"} /\ Scaler(b) \in Nodes
  /\ Await([op |-> "autoscale", id |-> ops, base |-> b, type |-> kind[b]])
  /\ UNCHANGED customRest

AutoscaleSkips(r) ==
  /\ r.op = "autoscale" /\ pending' = pending \ {r}
  /\ UNCHANGED <<customRest, clock>>

AutoscaleApplies(r) ==
  /\ r.op = "autoscale" /\ pending' = pending \ {r} /\ UNCHANGED clock
  /\ kind[r.base] = r.type
  /\ \E total \in DOMAIN Ordinals \ {1 + Cardinality(Instances(r.base))} :
       \/ Regroup(r.base, total) /\ UNCHANGED readers
       \/ Remember(r.base, total)
  /\ UNCHANGED <<etcdVars, cdc>>

CustomsNext ==
  \/ \E n \in Chosen, type \in {"llm", "coordinator"} : CustomStart(n, type)
  \/ \E c \in Nodes : AddPeer(c)
  \/ \E n \in Chosen, w \in {m \in Nodes : kind[m] = "llm"}, d \in Nodes \union {None} : CreateReader(n, w, d)
  \/ \E b \in Nodes : AutoscaleStart(b) \/ (ScaleCustom(b) /\ UNCHANGED <<etcdVars, cdc>>)

CustomAwaits(r) ==
  CustomFails(r) \/ LlmSave(r) \/ CoordinatorSave(r) \/ AutoscaleSkips(r) \/ AutoscaleApplies(r)
=============================================================================
