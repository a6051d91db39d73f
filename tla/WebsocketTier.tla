--------------------------- MODULE WebsocketTier ---------------------------
(***************************************************************************)
(* The websocket tier of a system, made and deleted as one: a load         *)
(* balancer, its servers, the redis of the bus and that of presence, and a *)
(* client that runs pools of sockets.  All of them are children of the     *)
(* load balancer.  The code of the hooks is in a folder of its own that    *)
(* the servers mount, and that any other folder of that name is.           *)
(***************************************************************************)
EXTENDS SystemFiles

VARIABLES
  tier,    \* websockets.json, in the load balancer's folder
  shared   \* what is in the folder ws-shared: the hooks, the code of a service
tierVars == <<tier, shared>>

NoTier == [lb |-> None, servers |-> {}]
SharedDir == "ws-shared"
TierKind == {"wslb", "wsserver", "wsredis", "wsclient"}

TierType ==
  /\ tier \in [lb : Name \union {None}, servers : SUBSET Name]
  /\ shared \subseteq {"hooks", "code"}

TierLb(n) == Sub(n, "lb")
TierServers(n, count) == {Sub(Sub(n, "server"), Ordinals[i]) : i \in 1..count}
TierRedis(n) == {Sub(n, "bus"), Sub(n, "presence")}
TierClient(n) == Sub(n, "client")
TierIds(n, count) == {TierLb(n), TierClient(n)} \union TierServers(n, count) \union TierRedis(n)

\* The containers a redis has besides the others' one.
RedisServices(n) == {n, Sub(n, "exporter")}

\* There is no tier yet, and no node, and no container, that is called as a part of it.
ValidTier(n, count) ==
  /\ \A m \in Nodes : kind[m] \notin TierKind
  /\ \A id \in TierIds(n, count) :
       /\ Free(id)
       /\ \A c \in Name \intersect RedisServices(id) : compose[c].owner = None

TierEdges(n, count) ==
  LET servers == TierServers(n, count)
  IN {<<TierClient(n), TierLb(n)>>} \union ({TierLb(n)} \X servers) \union (servers \X TierRedis(n))

\* A service that is called as the folder of the hooks.
Namesake == IF SharedDir \in Nodes THEN {"namesake"} ELSE {}

CreateTier(n, count) ==
  LET lb == TierLb(n)
      ids == TierIds(n, count)
      containers == [c \in ids \union UNION {RedisServices(r) : r \in TierRedis(n)} |->
                       IF c \in ids THEN c ELSE CHOOSE r \in TierRedis(n) : c \in RedisServices(r)]
  IN /\ Request /\ ValidTier(n, count)
     /\ kind' = [m \in Name |-> IF m \notin ids THEN kind[m]
                                ELSE IF m = lb THEN "wslb" ELSE IF m = TierClient(n) THEN "wsclient"
                                ELSE IF m \in TierRedis(n) THEN "wsredis" ELSE "wsserver"]
     /\ parent' = [m \in Name |-> IF m \in ids \ {lb} THEN lb ELSE parent[m]]
     /\ compose' = [c \in Name |-> IF c \in DOMAIN containers \ {TierClient(n)}
                                   THEN Entry(containers[c]) ELSE compose[c]]
     /\ jobs' = More(jobs, ids \ {TierClient(n)})
     /\ edges' = edges \union TierEdges(n, count)
     /\ tier' = [lb |-> lb, servers |-> TierServers(n, count)]
     /\ shared' = shared \union {"hooks"}
     /\ mishaps' = mishaps \union Namesake
     /\ UNCHANGED <<routes, pending>>

\* A request for a method makes sure of the folder of the hooks, and adds to the
\* registry what is to be written there.
AddMethodEntry ==
  /\ Request /\ tier.lb # None /\ tier.lb \in Nodes
  /\ shared' = shared \union {"hooks"}
  /\ mishaps' = mishaps \union Namesake
  /\ UNCHANGED <<fileVars, pending, tier>>

\* A service may have that name while there is no such folder.
CreateNamesake ==
  /\ shared = {} /\ CreateService(SharedDir)
  /\ shared' = {"code"} /\ UNCHANGED tier

TierNext ==
  \/ \E n \in Chosen, count \in DOMAIN Ordinals : CreateTier(n, count)
  \/ AddMethodEntry \/ CreateNamesake

\* What is left of the two when nodes are deleted: the registry goes with the load
\* balancer's folder, the hooks with the tier, and the folder with the namesake.
DropTier(gone) ==
  /\ tier' = IF tier.lb \in gone THEN NoTier ELSE tier
  /\ shared' = IF SharedDir \in gone \/ \E n \in gone : kind[n] = "wslb" THEN {} ELSE shared
=============================================================================
