------------------------------ MODULE DbSeeds ------------------------------
(***************************************************************************)
(* The seed entries of a database (server/dbseed.js): a registry,           *)
(* seeds.json; an artifact made from it, seed.sql or the like, that refills *)
(* a database built from nothing; and the rows of the live one.  Two tabs   *)
(* add entries, remove them by their position in the list they show, and    *)
(* apply them all again.  The handlers await the database between one and    *)
(* the other, while it is down, wiped or rebuilt, or the dev server stops.  *)
(* Everything is about one table, whose rows have a key or leave it to the  *)
(* database.                                                                *)
(***************************************************************************)
EXTENDS Naturals, FiniteSets, SequencesExt

CONSTANTS
  Engines,   \* those of SEED_ENGINES that there are
  RowKey, RowValue,
  Keyless,   \* the key of a row that leaves it to the database
  SeedTab,   \* the tabs that are open
  SeedBudgets  \* how many requests a behaviour has, how many disturbances, and how many at a time

ASSUME EnginesSeeded == Engines \subseteq {"postgres", "mongodb", "cassandra", "dynamodb"}

VARIABLES
  engine,
  seeds,     \* seeds.json: the entries in order
  artifact,  \* the seed artifact: its entries, the types of their values aside
  mounted,   \* whether docker-compose.yml mounts it
  rows,      \* live: the value under each key, and how many there are without one
  serving,   \* live: whether the database answers
  listed,    \* the list each tab shows
  posted,    \* what each tab waits for
  meant,     \* history: the entries that the user has added and not removed
  marred,    \* history: what has gone wrong
  purse

seedFiles == <<seeds, artifact, mounted>>
seedLive == <<rows, serving>>
seedVars == <<engine, seedFiles, seedLive, listed, posted, meant, marred, purse>>

Row == [key : RowKey \union {Keyless}, value : RowValue]
NoRows == [keyed |-> <<>>, blank |-> [v \in RowValue |-> 0]]
Idle == [of |-> "none"]
Quiescent == \A t \in SeedTab : posted[t] = Idle

\* Which rows cannot be without a key, and are overwritten when they come again.
Upserts == engine \in {"cassandra", "dynamodb"}

\* The client that inserts all the entries again is at work, and has run `done` of its statements.
Replays(p) == p.of = "apply" /\ p.at = "made"
\* The client of a request in the container of the database.
ClientRuns(p) == Replays(p) \/ (p.of = "add" /\ p.at = "live")

\* What a request leaves amiss when it gets no further.
Loses(p) ==
  (IF p.of = "add" /\ p.at \in {"live", "broken"} THEN {"unrecorded"} ELSE {})
  \union (IF p.of = "remove" THEN {"kept"} ELSE {})
  \union (IF p.of = "remove" /\ p.at = "recorded" THEN {"outdated"} ELSE {})
  \union (IF Upserts /\ p.of = "apply" /\ p.at \in {"made", "broken"} /\ p.done \in 1..Len(p.list) - 1
           THEN {"halfway"} ELSE {})

-----------------------------------------------------------------------------
(* What the statements do. *)

With(L, r) == [L EXCEPT !.keyed = [k \in DOMAIN @ \union {r.key} |-> IF k = r.key THEN r.value ELSE @[k]]]
Insert(L, r) ==
  IF r.key = Keyless THEN [L EXCEPT !.blank[r.value] = @ + 1]
  ELSE IF r.key \in DOMAIN L.keyed /\ ~Upserts THEN L ELSE With(L, r)

\* One entry after the other is inserted: what is there already stays, unless the rows are overwritten,
\* and of the entries for a key the first one counts, or the last.
Times(list, r) == Cardinality({i \in DOMAIN list : list[i] = r})
PlacesOf(list, k) == {i \in DOMAIN list : list[i].key = k}
Lasting(list, k) == list[IF Upserts THEN Max(PlacesOf(list, k)) ELSE Min(PlacesOf(list, k))].value
Replayed(L, list) ==
  LET K == {r.key : r \in ToSet(list)} \ {Keyless}
  IN [keyed |-> [k \in DOMAIN L.keyed \union K |->
                   IF k \in K /\ (Upserts \/ k \notin DOMAIN L.keyed) THEN Lasting(list, k) ELSE L.keyed[k]],
      blank |-> [v \in RowValue |-> L.blank[v] + Times(list, [key |-> Keyless, value |-> v])]]

ByKey(L, K) == [L EXCEPT !.keyed = [k \in DOMAIN @ \ K |-> @[k]]]
Holding1(L, v) == {k \in DOMAIN L.keyed : L.keyed[k] = v}

\* What each engine may leave when an entry's row is deleted.  Postgres goes by all the columns
\* that the entry has, mongo by its id or else by them, to one row; dynamo by the key.  Cassandra
\* refuses a delete that names columns outside the key, and that is not told.
Deleted(L, r) ==
  CASE engine = "cassandra" -> {L}
    [] engine = "postgres" /\ r.key = Keyless -> {ByKey([L EXCEPT !.blank[r.value] = 0], Holding1(L, r.value))}
    [] engine = "postgres" /\ r.key # Keyless -> {ByKey(L, {r.key} \intersect Holding1(L, r.value))}
    [] engine = "mongodb" /\ r.key = Keyless ->
         {ByKey(L, {k}) : k \in Holding1(L, r.value)}
         \union IF L.blank[r.value] > 0 THEN {[L EXCEPT !.blank[r.value] = @ - 1]}
                ELSE IF Holding1(L, r.value) = {} THEN {L} ELSE {}
    [] engine \in {"mongodb", "dynamodb"} /\ r.key # Keyless -> {ByKey(L, {r.key})}

\* Whether the statement that deletes r's row may take another entry's.
Confused(r, list) ==
  \E x \in ToSet(list) :
    IF r.key # Keyless THEN x.key = r.key
    ELSE x.value = r.value /\ (engine = "mongodb" => x.key # Keyless)

Count(list) == [r \in ToSet(list) |-> Times(list, r)]
Plus1(bag, r) == [x \in DOMAIN bag \union {r} |-> (IF x \in DOMAIN bag THEN bag[x] ELSE 0) + (IF x = r THEN 1 ELSE 0)]
Minus1(bag, r) ==
  [x \in {y \in DOMAIN bag : y # r \/ bag[y] > 1} |-> IF x = r THEN bag[x] - 1 ELSE bag[x]]

-----------------------------------------------------------------------------
Posts(t, p) ==
  /\ posted[t] = Idle /\ purse.requests > 0
  /\ Cardinality({x \in SeedTab : posted[x] # Idle}) < purse.together
  /\ posted' = [posted EXCEPT ![t] = p]
  /\ purse' = [purse EXCEPT !.requests = @ - 1]
  /\ marred' = IF Quiescent THEN marred ELSE marred \union {"together"}
Goes(t, p) == posted' = [posted EXCEPT ![t] = p] /\ UNCHANGED purse
\* The tab shows what it is answered, or an error.
Answered(t, list) == Goes(t, Idle) /\ listed' = [listed EXCEPT ![t] = list]
Failed(t) == Goes(t, Idle) /\ UNCHANGED <<seedFiles, seedLive, listed, meant, marred>>

AddStarts(t, r) ==
  /\ Posts(t, [of |-> "add", at |-> "asked", row |-> r])
  /\ UNCHANGED <<seedFiles, seedLive, listed, meant>>

\* Live first: what the database refuses is never recorded.
AddApplies(t) ==
  LET p == posted[t]
  IN /\ p.of = "add" /\ p.at = "asked"
     /\ IF serving /\ ~(Upserts /\ p.row.key = Keyless)
          THEN /\ Goes(t, [p EXCEPT !.at = "live"])
               /\ rows' = Insert(rows, p.row)
               /\ UNCHANGED <<seedFiles, serving, listed, meant, marred>>
          ELSE Failed(t)

AddRecords(t) ==
  LET p == posted[t]
      list == Append(seeds, p.row)
  IN /\ p.of = "add" /\ p.at = "live"
     /\ seeds' = list /\ artifact' = list /\ mounted' = TRUE
     /\ Answered(t, list)
     /\ meant' = Plus1(meant, p.row)
     /\ UNCHANGED <<seedLive, marred>>

\* The position is that of the list the tab shows, and the server takes it in its own.
RemoveStarts(t, i) ==
  LET list == RemoveAt(seeds, i)
      r == seeds[i]
  IN /\ i \in DOMAIN listed[t] \intersect DOMAIN seeds
     /\ posted[t] = Idle /\ purse.requests > 0
     /\ Cardinality({x \in SeedTab : posted[x] # Idle}) < purse.together
     /\ posted' = [posted EXCEPT ![t] = [of |-> "remove", at |-> "recorded", row |-> r, list |-> list]]
     /\ purse' = [purse EXCEPT !.requests = @ - 1]
     /\ seeds' = list
     /\ meant' = IF listed[t][i] = r THEN Minus1(meant, r) ELSE meant
     /\ marred' = marred \union (IF Quiescent THEN {} ELSE {"together"})
                  \union (IF listed[t][i] = r THEN {} ELSE {"mistaken"})
                  \union (IF Confused(r, list) THEN {"confused"} ELSE {})
     /\ UNCHANGED <<artifact, mounted, seedLive, listed>>

\* Without the schema of the database, when it is down; the delete goes by what was read here.
RemoveRegenerates(t) ==
  LET p == posted[t]
  IN /\ p.of = "remove" /\ p.at = "recorded"
     /\ artifact' = seeds
     /\ Goes(t, [of |-> "remove", at |-> "made", row |-> p.row, list |-> p.list, read |-> serving])
     /\ UNCHANGED <<seeds, mounted, seedLive, listed, meant, marred>>

\* Without the types of the columns dynamo knows no key to delete by, and the filter of mongo may
\* match no row.
RemovedFrom(L, p) ==
  IF p.read \/ engine \in {"postgres", "cassandra"} THEN Deleted(L, p.row)
  ELSE IF engine = "mongodb" THEN {L} \union Deleted(L, p.row) ELSE {L}

\* Best effort; the answer is the list as the handler had left it.
RemoveDeletes(t) ==
  LET p == posted[t]
      surely == serving /\ engine # "cassandra" /\ (p.read \/ engine = "postgres")
  IN /\ p.of = "remove" /\ p.at = "made"
     /\ IF serving THEN rows' \in RemovedFrom(rows, p) ELSE UNCHANGED rows
     /\ Answered(t, p.list)
     /\ marred' = IF surely THEN marred ELSE marred \union {"kept"}
     /\ UNCHANGED <<seedFiles, serving, meant>>

ApplyPosts(t) ==
  /\ listed[t] # <<>>
  /\ Posts(t, [of |-> "apply", at |-> "asked"])
  /\ UNCHANGED <<seedFiles, seedLive, listed, meant>>

\* `fresh` is whether it inserts into an empty table.
ApplyRegenerates(t) ==
  LET p == posted[t]
  IN /\ p.of = "apply" /\ p.at = "asked"
     /\ IF serving
          THEN /\ artifact' = seeds
               /\ Goes(t, [of |-> "apply", at |-> "made", list |-> seeds, done |-> 0, fresh |-> rows = NoRows])
               /\ UNCHANGED <<seeds, mounted, seedLive, listed, meant, marred>>
          ELSE Failed(t)

\* The statements up to the n-th have run.
RunsTo(t, n) ==
  LET p == posted[t]
  IN /\ Goes(t, [p EXCEPT !.done = n])
     /\ marred' = marred \union
          IF ~p.fresh /\ \E i \in p.done + 1..n : p.list[i].key = Keyless THEN {"doubled"} ELSE {}

\* The statements of one `psql -c` are one transaction; those of the others take effect one by one.
ApplyInserts(t) ==
  LET p == posted[t]
  IN /\ Replays(p) /\ p.done < Len(p.list)
     /\ \/ engine = "postgres" /\ rows' = Replayed(rows, p.list) /\ RunsTo(t, Len(p.list))
        \/ engine # "postgres" /\ rows' = Insert(rows, p.list[p.done + 1]) /\ RunsTo(t, p.done + 1)
     /\ UNCHANGED <<seedFiles, serving, listed, meant>>

ApplyEnds(t) ==
  LET p == posted[t]
  IN /\ Replays(p) /\ p.done = Len(p.list)
     /\ mounted' = TRUE
     /\ Answered(t, seeds)
     /\ marred' = IF p.fresh THEN marred \ {"wiped"} ELSE marred
     /\ UNCHANGED <<seeds, artifact, seedLive, meant>>

\* The handler throws: its client was stopped with the database.
BreaksOff(t) ==
  /\ posted[t] # Idle /\ posted[t].at = "broken"
  /\ Goes(t, Idle)
  /\ marred' = marred \union Loses(posted[t])
  /\ UNCHANGED <<seedFiles, seedLive, listed, meant>>

-----------------------------------------------------------------------------
Mishap == purse.mishaps > 0 /\ purse' = [purse EXCEPT !.mishaps = @ - 1]

\* The clients in its container go with it.
Severed == [t \in SeedTab |-> IF ClientRuns(posted[t]) THEN [posted[t] EXCEPT !.at = "broken"] ELSE posted[t]]

GoesDown ==
  /\ Mishap /\ serving /\ serving' = FALSE
  /\ posted' = Severed
  /\ UNCHANGED <<seedFiles, rows, listed, meant, marred>>
ComesUp ==
  /\ ~serving /\ serving' = TRUE
  /\ UNCHANGED <<seedFiles, rows, listed, posted, meant, marred, purse>>
\* A test empties the tables.
TablesWiped ==
  /\ Mishap /\ serving
  /\ rows' = NoRows /\ marred' = marred \union {"wiped"}
  /\ posted' = [t \in SeedTab |-> IF Replays(posted[t]) THEN [posted[t] EXCEPT !.fresh = (posted[t].done = 0)]
                                  ELSE posted[t]]
  /\ UNCHANGED <<seedFiles, serving, listed, meant>>
\* The containers and their volumes are made anew.
RebuiltAnew ==
  /\ Mishap
  /\ rows' = IF mounted THEN Replayed(NoRows, artifact) ELSE NoRows
  /\ serving' = TRUE
  /\ posted' = Severed
  /\ marred' = IF Quiescent THEN marred \ {"wiped", "doubled", "halfway", "kept", "confused", "unrecorded"}
               ELSE marred \union {"together"}
  /\ UNCHANGED <<seedFiles, listed, meant>>
\* The dev server stops, and what it had under way is lost.
SeedsStopped ==
  /\ Mishap /\ ~Quiescent
  /\ posted' = [t \in SeedTab |-> Idle]
  /\ marred' = marred \union UNION {Loses(posted[t]) : t \in SeedTab}
  /\ UNCHANGED <<seedFiles, seedLive, listed, meant>>

SeedsInit ==
  /\ engine \in Engines /\ purse \in SeedBudgets
  /\ seeds = <<>> /\ artifact = <<>> /\ mounted = FALSE
  /\ rows = NoRows /\ serving = TRUE
  /\ listed = [t \in SeedTab |-> <<>>] /\ posted = [t \in SeedTab |-> Idle]
  /\ meant = Count(<<>>) /\ marred = {}

\* A tab loads its list when it is opened, if the schema can be read.
Lists(t) ==
  /\ posted[t] = Idle /\ serving /\ listed[t] # seeds
  /\ listed' = [listed EXCEPT ![t] = seeds]
  /\ UNCHANGED <<seedFiles, seedLive, posted, meant, marred, purse>>

SeedsNext ==
  /\ UNCHANGED engine
  /\ \/ \E t \in SeedTab :
          \/ Lists(t) \/ ApplyPosts(t) \/ ApplyRegenerates(t) \/ ApplyInserts(t) \/ ApplyEnds(t) \/ BreaksOff(t)
          \/ AddApplies(t) \/ AddRecords(t) \/ RemoveRegenerates(t) \/ RemoveDeletes(t)
          \/ \E r \in Row : AddStarts(t, r)
          \/ \E i \in DOMAIN listed[t] : RemoveStarts(t, i)
     \/ GoesDown \/ ComesUp \/ TablesWiped \/ RebuiltAnew \/ SeedsStopped

SeedsSpec == SeedsInit /\ [][SeedsNext]_seedVars
-----------------------------------------------------------------------------
\* The registry is what the user has asked for, and the artifact says the same.
RegistryIsMeant ==
  /\ marred \intersect {"mistaken"} = {} => Count(seeds) = meant
  /\ "outdated" \notin marred => artifact = seeds
  /\ seeds # <<>> => mounted

\* The database has the rows of the entries and no others.
LiveIsSeeded ==
  marred \intersect {"together", "confused", "kept", "unrecorded", "wiped", "doubled", "halfway", "outdated"} = {} =>
    rows = Replayed(NoRows, seeds)

\* Whenever no request is under way, the entries are those that were added and not removed, the
\* artifact that refills a database has just these, and so has the live database.  Excepted are an
\* entry removed by a position that is another's by now, a dev server that stops half-way, and for
\* the live rows, requests that overlap, a delete that fails, that is made without the schema or
\* that may take another entry's row, a row inserted by a client that was stopped before it could
\* tell, rows without a key that are applied again, rows that an Apply that breaks off has put back
\* to an earlier entry, and tables that were emptied since.
SeedsHold == Quiescent => RegistryIsMeant /\ LiveIsSeeded
=============================================================================
