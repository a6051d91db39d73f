---------------------------- MODULE RedisConfig ----------------------------
(***************************************************************************)
(* The redis databases of a system, edited from three tabs: the topology    *)
(* (standalone, primary with replicas and sentinels, cluster), the           *)
(* persistence flags, and the keyspaces with the services that use them.    *)
(* An edit changes manifest.json, docker-compose.yml, prometheus.yml and     *)
(* the sentinel folder in one turn of the event loop, except for the scan    *)
(* of live keys, which awaits redis between loading the manifest and saving  *)
(* it.  The containers are brought up afterwards, as in Runtime.             *)
(***************************************************************************)
EXTENDS Integers, FiniteSets, SequencesExt

CONSTANTS
  RedisId,         \* ids asked for: the sequence of their parts, as <<"cache", "sentinel">>
  RedisKey,      \* keyspaces
  Digit,         \* <<"1", "2", ...>>
  ClusterSizes,  \* the members of a cluster: shards, and the replicas of each
  MaxReplicas,
  Persistences,  \* settings of RDB and AOF; "image" for the defaults of the image
  RedisScopes    \* what a behaviour begins with, what it is about, and how many requests it has

\* Ids are made of words, and the digits that members are numbered with are different and none
\* of the other suffixes.
Word == STRING
Suffixed == {"exporter", "init", "sentinel", "cluster"}
ASSUME RedisNamesAreStrings ==
  /\ RedisId \subseteq Seq(Word) \ {<<>>} /\ Suffixed \union {"cache"} \subseteq Word
  /\ Digit \in Seq(Word) /\ Len(Digit) >= 3
  /\ \A i, j \in DOMAIN Digit : Digit[i] \notin Suffixed /\ (Digit[i] = Digit[j] => i = j)
ASSUME RedisSizesCount == ClusterSizes \subseteq 1..Len(Digit) /\ MaxReplicas \in Nat
ASSUME RedisScopesStart ==
  \A x \in RedisScopes :
    /\ x.requests \in Nat /\ x.keys \subseteq RedisKey
    /\ IsFiniteSet(x.backends) /\ x.backends \subseteq Seq(Word) \ {<<>>}
    /\ x.backends \intersect {<<"cache">>, <<"cache", "exporter">>, <<"cache", "init">>} = {}

VARIABLES
  store,     \* manifest.json: the nodes by id
  services,  \* docker-compose.yml: whose each container is, and its persistence flags
  scraped,   \* prometheus.yml: the targets of each scrape job
  folders,   \* folders of the system, and what is in them
  scan,      \* the scan that awaits redis, and the manifest it has loaded
  displayed,     \* the keyspaces the tab shows
  wanted,    \* history: the roles the user has given and not taken
  wrong,     \* history: what has gone wrong
  topic, budget

redisFiles == <<store, services, scraped, folders>>
redisVars == <<redisFiles, scan, displayed, wanted, wrong, topic, budget>>

\* The services that write and read it, the writers that wait for replicas, and those
\* that a scan has suggested.
NewKeyspace == [writers |-> {}, readers |-> {}, waits |-> {}, likelyWriters |-> {}, likelyReaders |-> {}]
Role == {"writers", "readers", "waits"}
Likely(role) == IF role = "writers" THEN "likelyWriters" ELSE "likelyReaders"

NoParent == <<>>
NoScan == [of |-> NoParent]
Node(type, parent) ==
  [type |-> type, parent |-> parent, sentinel |-> FALSE, members |-> 0, persistence |-> "image", keyspaces |-> <<>>]
\* A manifest that an update was lost from is not looked at any further.
Request1 == budget > 0 /\ budget' = budget - 1 /\ "lost" \notin wrong

Of(type) == {n \in DOMAIN store : store[n].type = type}
Primary == {n \in Of("redis") : store[n].parent = NoParent}
ReplicasOf(n) == {r \in DOMAIN store : store[r].parent = n}
Numbered(n, i) == Append(n, Digit[i])
WithExporters(C) == C \union {Append(c, "exporter") : c \in C}

SentinelsOf(n) == WithExporters({Numbered(Append(n, "sentinel"), i) : i \in 1..3})
MembersOf(n, count) == {Numbered(n, i) : i \in 1..count}
Seeder(n) == {Append(n, "init") : k \in DOMAIN store[n].keyspaces}
InitOf(n) == Append(Append(n, "cluster"), "init")

\* Where the keys of a node are, and with which flags redis is started.
Holding(owner, flags) == [owner |-> owner, flags |-> flags]
Data(n, C, p) == [c \in C |-> Holding(n, p)]
Plain(n, C) == Data(n, C, "none")
DropKeys(f, K) == Restrict(f, DOMAIN f \ K)
One(x, v) == [y \in {x} |-> v]
Over(f, g) == [x \in DOMAIN f \union DOMAIN g |-> IF x \in DOMAIN f THEN f[x] ELSE g[x]]

-----------------------------------------------------------------------------
(* Nodes come and go, as all do. *)

\* Whether another has a container of that name is not looked at, neither by what writes one
\* nor by what removes those of some nodes.
NoteOverwritten(C) == wrong' = IF C \intersect DOMAIN services # {} THEN wrong \union {"collided"} ELSE wrong
OfOthers(C, nodes) == \E c \in C \intersect DOMAIN services : services[c].owner \notin nodes

AddRedis(n, keys) ==
  LET own == {n, Append(n, "exporter")} \union {Append(n, "init") : k \in keys}
  IN /\ Request1 /\ n \notin DOMAIN store \union DOMAIN folders
     /\ store' = Over(One(n, [Node("redis", NoParent) EXCEPT !.keyspaces = [k \in keys |-> NewKeyspace]]), store)
     /\ services' = Over(Over(Data(n, {n}, "image"), Plain(n, own)), services)
     /\ scraped' = Over(One(n, {Append(n, "exporter")}), scraped)
     /\ NoteOverwritten(own)
     /\ UNCHANGED <<folders, scan, displayed, wanted>>

AddBackend(n) ==
  /\ Request1 /\ n \notin DOMAIN store \union DOMAIN folders
  /\ store' = Over(One(n, Node("service", NoParent)), store)
  /\ services' = Over(Plain(n, {n}), services)
  /\ scraped' = Over(One(n, {n}), scraped)
  /\ folders' = Over(One(n, {"code"}), folders)
  /\ NoteOverwritten({n})
  /\ UNCHANGED <<scan, displayed, wanted>>

\* What the delete handler takes for a node's containers.
OwnedBy(n) ==
  LET base == {n, Append(n, "exporter"), Append(n, "init")}
  IN IF store[n].type # "redis" THEN {n}
     ELSE IF store[n].members > 0
            THEN {Append(n, "init"), InitOf(n)} \union WithExporters(MembersOf(n, store[n].members))
     ELSE IF store[n].sentinel THEN base \union SentinelsOf(n) ELSE base

\* Roles of what is gone go too.
Scrubbed1(ks, gone) ==
  [k \in DOMAIN ks |-> [f \in DOMAIN ks[k] |-> ks[k][f] \ gone]]

DeleteComponent(n) ==
  LET gone == {n} \union ReplicasOf(n)
      rest == DOMAIN store \ gone
      confs == {Append(g, "sentinel") : g \in {x \in gone : store[x].sentinel}}
      owned == UNION {OwnedBy(g) : g \in gone}
  IN /\ Request1 /\ n \in DOMAIN store
     /\ store' = [m \in rest |-> [store[m] EXCEPT !.keyspaces = Scrubbed1(@, gone)]]
     /\ services' = DropKeys(services, owned)
     /\ scraped' = DropKeys(scraped, gone \union confs)
     /\ folders' = DropKeys(folders, gone \union confs)
     /\ wanted' = {w \in wanted : {w.node, w.by} \intersect gone = {}}
     /\ wrong' = IF OfOthers(owned, gone) THEN wrong \union {"collided"} ELSE wrong
     /\ UNCHANGED <<scan, displayed>>

-----------------------------------------------------------------------------
(* Topology. *)

Targets == {[mode |-> "standalone", count |-> 0]}
           \union {[mode |-> "replicated", count |-> r] : r \in 1..MaxReplicas}
           \union {[mode |-> "cluster", count |-> c] : c \in ClusterSizes}
ModeOf(n) == IF store[n].members > 0 THEN "cluster" ELSE IF store[n].sentinel THEN "replicated" ELSE "standalone"

OrdinalOf(n, r) == CHOOSE i \in DOMAIN Digit : Numbered(n, i) = r
\* Any node of that name counts.
LastNumbered(n) ==
  LET used == {i \in DOMAIN Digit : Numbered(n, i) \in DOMAIN store}
  IN IF used = {} THEN 0 ELSE CHOOSE i \in used : \A j \in used : j <= i

\* The replicas that stay have the smallest ordinals.
Kept(n, count) ==
  {r \in ReplicasOf(n) :
     Cardinality({q \in ReplicasOf(n) : OrdinalOf(n, q) < OrdinalOf(n, r)}) < count}
Made(n, count) ==
  {Numbered(n, LastNumbered(n) + i) : i \in 1..(count - Cardinality(ReplicasOf(n)))}

\* Mutant of MemberFlags: the members start as the image does.
MemberFlagsOfImage(n) == "image"
MemberFlags(n) == store[n].persistence

\* What the node has in its present mode and not in the next one; a new cluster is
\* formed from scratch.
Removed(n, target, dropped) ==
  WithExporters(dropped)
  \union (IF ModeOf(n) = "cluster" THEN {InitOf(n)} \union WithExporters(MembersOf(n, store[n].members)) ELSE {})
  \union (IF store[n].sentinel /\ target.mode # "replicated" THEN SentinelsOf(n) ELSE {})
  \union (IF target.mode = "cluster" /\ ModeOf(n) # "cluster" THEN {n, Append(n, "exporter"), Append(n, "init")} ELSE {})

\* The node's own containers, gone while it was a cluster, and what its next mode has.
Restored(n, target) ==
  IF ModeOf(n) = "cluster" /\ target.mode # "cluster" THEN {n, Append(n, "exporter")} \union Seeder(n) ELSE {}
BuiltFor(n, target) ==
  CASE target.mode = "standalone" -> {}
    [] target.mode = "replicated" -> SentinelsOf(n)
    [] target.mode = "cluster" -> {InitOf(n)} \union WithExporters(MembersOf(n, target.count))

SetTopology(n, target) ==
  LET to == target.mode
      conf == Append(n, "sentinel")
      leaves == store[n].sentinel /\ to # "replicated"
      dropped == IF to = "replicated" THEN ReplicasOf(n) \ Kept(n, target.count) ELSE ReplicasOf(n)
      made == IF to = "replicated" THEN Made(n, target.count) ELSE {}
      members == IF to = "cluster" THEN MembersOf(n, target.count) ELSE {}
      removed == Removed(n, target, dropped)
      rest == DropKeys(services, removed)
      fresh == Restored(n, target) \union BuiltFor(n, target)
      targets == IF to = "cluster" THEN members ELSE {n}
  IN /\ Request1 /\ n \in Primary
     /\ to = "standalone" => ModeOf(n) # "standalone"
     /\ to = "replicated" => ModeOf(n) # "replicated" \/ Cardinality(ReplicasOf(n)) # target.count
     /\ to = "replicated" => LastNumbered(n) + target.count - Cardinality(ReplicasOf(n)) <= Len(Digit)
     /\ IF members \intersect (DOMAIN rest \union (DOMAIN store \ dropped)) # {}
          THEN \* refused: nothing is saved, but the folder is gone already
            /\ folders' = IF leaves THEN DropKeys(folders, {conf}) ELSE folders
            /\ wrong' = IF leaves THEN wrong \union {"torn"} ELSE wrong
            /\ UNCHANGED <<store, services, scraped>>
          ELSE
            /\ store' = Over([r \in made |-> Node("redis", n)],
                 [m \in DOMAIN store \ dropped |->
                   IF m = n THEN [[store[n] EXCEPT !.sentinel = (to = "replicated")] EXCEPT !.members = IF to = "cluster" THEN target.count ELSE 0]
                   ELSE store[m]])
            /\ services' = Over(Data(n, (fresh \intersect {n}) \union members, MemberFlags(n)), Over(Plain(n, fresh),
                           Over([c \in made |-> Holding(c, store[n].persistence)],
                           Over([c \in {Append(r, "exporter") : r \in made} |-> Holding(Front(c), "none")], rest))))
            /\ scraped' = Over([r \in made |-> {Append(r, "exporter")}],
                          Over(One(n, {Append(c, "exporter") : c \in targets}),
                          DropKeys(scraped, dropped \union IF leaves THEN {conf} ELSE {})))
            /\ folders' = IF leaves THEN DropKeys(folders, {conf})
                          ELSE [f \in DOMAIN folders \union (IF to = "replicated" THEN {conf} ELSE {}) |->
                                  (IF f = conf THEN {"conf"} ELSE {})
                                  \union (IF f \in DOMAIN folders THEN folders[f] ELSE {})]
            /\ wrong' = wrong
                 \union (IF (fresh \union WithExporters(made)) \intersect DOMAIN rest
                              \subseteq (IF store[n].sentinel THEN SentinelsOf(n) ELSE {})
                            /\ ~OfOthers(removed, {n} \union dropped) THEN {} ELSE {"collided"})
                 \union (IF (to = "replicated" \/ leaves) /\ conf \in DOMAIN store THEN {"shared"} ELSE {})
     /\ UNCHANGED <<scan, displayed, wanted>>

\* The containers that hold keys, and those that a setting is written to.
DataTargets(n) == IF store[n].members > 0 THEN MembersOf(n, store[n].members) ELSE {n} \union ReplicasOf(n)

SetPersistence(n, p) ==
  /\ Request1 /\ n \in Primary
  /\ store' = [store EXCEPT ![n].persistence = p]
  /\ services' = [c \in DOMAIN services |-> IF c \in DataTargets(n) THEN [services[c] EXCEPT !.flags = p] ELSE services[c]]
  /\ UNCHANGED <<scraped, folders, scan, displayed, wanted, wrong>>

-----------------------------------------------------------------------------
(* Keyspaces. *)

Redis == {n \in Primary : store[n].type = "redis"}
Tab(n) == [of |-> n, list |-> store'[n].keyspaces]

\* The tab loads when it is opened, every five seconds, and after each call.
Show(n) ==
  /\ n \in Redis
  /\ displayed' = [of |-> n, list |-> store[n].keyspaces]
  /\ UNCHANGED <<redisFiles, scan, wanted, wrong, budget>>

\* What the user has asked for of keyspace k of n, which was called prev.
Wish(n, k, role, s) == [node |-> n, key |-> k, role |-> role, by |-> s]
Renamed1(n, prev, k) ==
  {IF w.node = n /\ w.key = prev THEN [w EXCEPT !.key = k] ELSE w : w \in wanted}

Waiting(e) == e.waits \intersect e.writers

\* The tab sends the entry it shows with one thing changed, and the server takes all
\* of it but for what a scan has suggested.
UpsertKeyspace(n, prev, k, e, wishes) ==
  LET list == store[n].keyspaces
      known == prev \in DOMAIN list
      entry == [[[e EXCEPT !.waits = Waiting(e)]
                   EXCEPT !.likelyWriters = (IF known THEN list[prev].likelyWriters ELSE {}) \ e.writers]
                   EXCEPT !.likelyReaders = (IF known THEN list[prev].likelyReaders ELSE {}) \ e.readers]
  IN /\ n \in Redis
     /\ e.writers \union e.readers \subseteq Of("service")
     /\ k # prev => known /\ k \notin DOMAIN list
     /\ store' = [store EXCEPT ![n].keyspaces = Over(One(k, entry), DropKeys(list, {prev}))]
     /\ wanted' = wishes /\ displayed' = Tab(n)
     /\ wrong' = IF IF prev \in DOMAIN displayed.list
                      THEN known /\ \A role \in Role : displayed.list[prev][role] = list[prev][role]
                      ELSE ~known
                   THEN wrong ELSE wrong \union {"behind"}
     /\ UNCHANGED <<services, scraped, folders, scan>>

AddKeyspace(k) ==
  /\ Request1 /\ k \notin DOMAIN displayed.list
  /\ UpsertKeyspace(displayed.of, k, k, NewKeyspace, wanted)

RenameKeyspace(prev, k) ==
  /\ Request1 /\ prev \in DOMAIN displayed.list /\ k \notin DOMAIN displayed.list
  /\ UpsertKeyspace(displayed.of, prev, k, displayed.list[prev], Renamed1(displayed.of, prev, k))

GiveRole(k, role, s) ==
  /\ Request1 /\ k \in DOMAIN displayed.list
  /\ s \notin displayed.list[k][role] /\ (role = "waits" => s \in displayed.list[k].writers)
  /\ UpsertKeyspace(displayed.of, k, k, [displayed.list[k] EXCEPT ![role] = @ \union {s}],
                    wanted \union {Wish(displayed.of, k, role, s)})

TakeRole(k, role, s) ==
  /\ Request1 /\ k \in DOMAIN displayed.list /\ s \in displayed.list[k][role]
  /\ UpsertKeyspace(displayed.of, k, k, [displayed.list[k] EXCEPT ![role] = @ \ {s}],
                    wanted \ {Wish(displayed.of, k, r, s) : r \in {role} \union IF role = "writers" THEN {"waits"} ELSE {}})

DropKeyspace(k) ==
  LET n == displayed.of
  IN /\ Request1 /\ n \in Redis /\ k \in DOMAIN displayed.list \intersect DOMAIN store[n].keyspaces
     /\ store' = [store EXCEPT ![n].keyspaces = DropKeys(@, {k})]
     /\ wanted' = {w \in wanted : w.node # n \/ w.key # k} /\ displayed' = Tab(n)
     /\ UNCHANGED <<services, scraped, folders, scan, wrong>>

HandleSuggestion(k, role, s, accept) ==
  LET n == displayed.of
      e == store[n].keyspaces[k]
      asked == [e EXCEPT ![Likely(role)] = @ \ {s}]
  IN /\ Request1 /\ n \in Redis /\ k \in DOMAIN displayed.list \intersect DOMAIN store[n].keyspaces
     /\ s \in displayed.list[k][Likely(role)] \intersect store[n].keyspaces[k][Likely(role)]
     /\ store' = [store EXCEPT ![n].keyspaces =
                     [@ EXCEPT ![k] = [asked EXCEPT ![role] = IF accept THEN @ \union {s} ELSE @]]]
     /\ wanted' = IF accept THEN wanted \union {Wish(n, k, role, s)} ELSE wanted
     /\ displayed' = Tab(n)
     /\ UNCHANGED <<services, scraped, folders, scan, wrong>>

ScanStarts ==
  /\ Request1 /\ scan = NoScan /\ displayed.of \in Redis
  /\ scan' = [of |-> displayed.of, loaded |-> store]
  /\ UNCHANGED <<redisFiles, displayed, wanted, wrong>>

\* Live keys that no keyspace matches make new ones, and the services whose source
\* names a keyspace are suggested for what they seem to do with it, unless they do.
ScanSaves(found, named, roles) ==
  LET n == scan.of
      list == scan.loaded[n].keyspaces
      all == [k \in found \union DOMAIN list |-> IF k \in DOMAIN list THEN list[k] ELSE NewKeyspace]
      hints(k, role) == all[k][Likely(role)] \union IF role \in roles THEN named \ all[k][role] ELSE {}
      seen == [k \in DOMAIN all |-> [[all[k] EXCEPT !.likelyWriters = hints(k, "writers")]
                                       EXCEPT !.likelyReaders = hints(k, "readers")]]
  IN /\ scan # NoScan
     /\ found \intersect DOMAIN list = {} /\ named \subseteq {s \in DOMAIN scan.loaded : scan.loaded[s].type = "service"}
     /\ store' = [scan.loaded EXCEPT ![n].keyspaces = seen]
     /\ wrong' = IF store = scan.loaded THEN wrong ELSE wrong \union {"lost"}
     /\ displayed' = [of |-> n, list |-> seen]
     /\ scan' = NoScan
     /\ UNCHANGED <<services, scraped, folders, wanted, budget>>

ScanFails ==
  /\ scan # NoScan /\ scan' = NoScan
  /\ UNCHANGED <<redisFiles, displayed, wanted, wrong, budget>>

-----------------------------------------------------------------------------
\* A system with one redis, and services.
Cache == <<"cache">>

RedisInit ==
  \E x \in RedisScopes :
    /\ topic = x.topic /\ budget = x.requests
    /\ store = [n \in {Cache} \union x.backends |->
         IF n = Cache THEN [Node("redis", NoParent) EXCEPT !.keyspaces = [k \in x.keys |-> NewKeyspace]]
         ELSE Node("service", NoParent)]
    /\ services = Over(Data(Cache, {Cache}, "image"), Over(Plain(Cache, {Append(Cache, "exporter")} \union Seeder(Cache)),
                       [n \in x.backends |-> Holding(n, "none")]))
    /\ scraped = Over(One(Cache, {Append(Cache, "exporter")}), [n \in x.backends |-> {n}])
    /\ folders = [n \in x.backends |-> {"code"}]
    /\ scan = NoScan /\ displayed = [of |-> Cache, list |-> store[Cache].keyspaces]
    /\ wanted = {} /\ wrong = {}

RedisNext ==
  /\ UNCHANGED topic
  /\ \/ \E n \in DOMAIN store : DeleteComponent(n)
     \/ \E n \in RedisId : AddBackend(n)
     \/ /\ "topology" \in topic
        /\ \/ \E n \in RedisId, keys \in {{}, RedisKey} : AddRedis(n, keys)
           \/ \E n \in Primary : (\E target \in Targets : SetTopology(n, target)) \/ (\E p \in Persistences : SetPersistence(n, p))
     \/ /\ "keyspaces" \in topic
        /\ \/ \E n \in Primary : Show(n)
           \/ \E k \in RedisKey :
                \/ AddKeyspace(k)
                \/ DropKeyspace(k)
                \/ \E j \in RedisKey : RenameKeyspace(j, k)
                \/ \E s \in Of("service"), role \in Role : GiveRole(k, role, s) \/ TakeRole(k, role, s)
                \/ \E s \in Of("service"), role \in {"writers", "readers"}, accept \in BOOLEAN : HandleSuggestion(k, role, s, accept)
           \/ ScanStarts \/ ScanFails
           \/ \E found \in SUBSET RedisKey, named \in SUBSET Of("service"), roles \in SUBSET {"writers", "readers"} :
                ScanSaves(found, named, roles)

RedisSpec == RedisInit /\ [][RedisNext]_redisVars
-----------------------------------------------------------------------------
Belongs(n) ==
  IF store[n].type = "service" THEN {n}
  ELSE CASE ModeOf(n) = "standalone" -> {n, Append(n, "exporter")}
         [] ModeOf(n) = "replicated" -> {n, Append(n, "exporter")} \union SentinelsOf(n)
         [] ModeOf(n) = "cluster" -> {InitOf(n)} \union WithExporters(MembersOf(n, store[n].members))

\* Each node has the containers of its mode and no others but the one that seeds it, they
\* keep the persistence that was set last.
ModesAreBuilt ==
  /\ \A n \in DOMAIN store : \A c \in Belongs(n) : c \in DOMAIN services /\ services[c].owner = n
  /\ \A c \in DOMAIN services :
       LET n == services[c].owner
       IN n \in DOMAIN store /\ c \in Belongs(n) \union (IF n \in Primary /\ ModeOf(n) # "cluster" THEN {Append(n, "init")} ELSE {})
  /\ \A n \in Redis : \A c \in DOMAIN services :
       services[c].owner \in {n} \union ReplicasOf(n) =>
         services[c].flags = IF c \in DataTargets(n) THEN store[n].persistence ELSE "none"

\* Redis is scraped where it is, sentinels have their configuration and services their code.
FoldersAndJobsFit ==
  /\ scraped = [n \in DOMAIN store |->
       IF store[n].type = "service" THEN {n}
       ELSE {Append(c, "exporter") : c \in IF store[n].members > 0 THEN MembersOf(n, store[n].members) ELSE {n}}]
  /\ \A n \in DOMAIN store :
       /\ store[n].sentinel => Append(n, "sentinel") \in DOMAIN folders
       /\ store[n].type = "service" => n \in DOMAIN folders /\ "code" \in folders[n]

\* Keyspaces name services that exist, suggest none that is declared, only a writer waits, and
\* what the user has declared stays declared.
RolesAreKept ==
  /\ \A n \in DOMAIN store : \A k \in DOMAIN store[n].keyspaces :
       LET e == store[n].keyspaces[k]
       IN /\ \A f \in DOMAIN e : e[f] \subseteq Of("service")
          /\ e.waits \subseteq e.writers
          /\ e.likelyWriters \intersect e.writers = {} /\ e.likelyReaders \intersect e.readers = {}
  /\ "behind" \notin wrong =>
       \A w \in wanted : w.key \in DOMAIN store[w.node].keyspaces /\ w.by \in store[w.node].keyspaces[w.key][w.role]

\* However topology, persistence, keyspaces and nodes are edited one after the other: the files
\* tell of the same redis containers, sentinels have their configuration and services their code,
\* and roles are kept.  Excepted are a scan that saves an older manifest, two nodes that want one
\* container or folder, a refused cluster that has removed the sentinels' folder already, and an
\* edit of an entry that the tab showed as it no longer was.
RedisHolds ==
  "lost" \notin wrong =>
    /\ RolesAreKept
    /\ "collided" \notin wrong => ModesAreBuilt
    /\ wrong \intersect {"shared", "torn"} = {} => FoldersAndJobsFit
=============================================================================
