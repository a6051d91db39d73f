--------------------------- MODULE PostgresConfig ---------------------------
(***************************************************************************)
(* The topology of a postgres database, as its tab changes it: standalone, *)
(* or an entry node with standbys and a watcher that promotes one of them  *)
(* (PgFailover has the watcher).  Apply, a switchover, a rejoin and the     *)
(* deletion of a standby change manifest.json, docker-compose.yml and the  *)
(* watcher's ha.json; all but the deletion await docker between loading     *)
(* and saving them, while members crash and return, a standby is promoted  *)
(* and others are at work.  Member 0 is the node itself, `<id>`, and o      *)
(* the standby `<id>-o`.                                                    *)
(***************************************************************************)
EXTENDS Integers, FiniteSets, FiniteSetsExt

CONSTANTS
  MaxStandbys, \* of LIMITS
  MaxOrdinal,  \* bound on the numbers that standbys are given
  ClusterBudgets \* how many requests a behaviour has, how many disturbances, and how many at a time

ASSUME OrdinalsCount == MaxOrdinal \in Nat

VARIABLES
  cluster,   \* manifest.json: the standbys, and what the node holds of the cluster
  declared,  \* docker-compose.yml: the members' definitions, and whether a watcher is declared
  haJson,    \* what the watcher reads
  roles,     \* live: what each member is
  answering, \* live: the members that are up
  newest,    \* live: the last member to take writes
  captured,  \* whether a data capture has asked for logical decoding
  awaiting,  \* requests between loading the files and saving them
  awry,      \* history: what has gone wrong
  allowance

pgFiles == <<cluster, declared, haJson>>
pgLive == <<roles, answering, newest>>
pgVars == <<pgFiles, pgLive, captured, awaiting, awry, allowance>>

Entry0 == 0
NoHa == [members |-> {}]
NoDef == [shape |-> "none"]
\* Entry-shaped members set postgres up themselves and take settings by command; standby-shaped
\* ones clone their primary, and have the settings built into what they run.
EntryDef == [shape |-> "entry", after |-> {}, command |-> FALSE, built |-> FALSE, hba |-> FALSE]
StandbyDef(after, settings) ==
  [shape |-> "standby", after |-> after, command |-> FALSE, built |-> settings, hba |-> FALSE]

Replicated == cluster.ha # NoHa
Ordinals(c) == DOMAIN c.standbys
SyncOf(standbys) == {o \in DOMAIN standbys : standbys[o] = "sync"}
HaConf(ha) == [primary |-> ha.primary, members |-> ha.members, sync |-> ha.sync, quorum |-> ha.quorum]
NoConf == [members |-> {}]

\* The first of them that is up and written; as the watcher fences all others, there is no second.
Writable(M) == {m \in M \intersect answering : roles[m] = "primary"}

\* What the members with the roles R become when all are up, and who is written last then: of those
\* that come back as primaries the watcher leaves one, if no other is written, and fences the rest.
Fencing(R, M) == [m \in DOMAIN R |-> IF m \in M THEN "fenced" ELSE R[m]]
Written(R) == {m \in DOMAIN R \intersect answering : R[m] = "primary"}
ComingBack(R) == {m \in DOMAIN R \ answering : R[m] = "primary"}
AllUp(R) ==
  IF Written(R) # {} \/ ComingBack(R) = {} THEN {[roles |-> Fencing(R, ComingBack(R)), newest |-> newest]}
  ELSE {[roles |-> Fencing(R, ComingBack(R) \ {m}), newest |-> m] : m \in ComingBack(R)}

Asks == allowance.requests > 0 /\ allowance' = [allowance EXCEPT !.requests = @ - 1]
Begins(a) ==
  /\ Asks /\ Cardinality(awaiting) < allowance.together
  /\ awaiting' = awaiting \union {a}
Ends(a) == awaiting' = awaiting \ {a} /\ UNCHANGED allowance
Becomes(a, b) == awaiting' = (awaiting \ {a}) \union {b} /\ UNCHANGED allowance
\* What a request loaded is no longer what it overwrites.
Stale(loaded, present) == IF loaded = present THEN {} ELSE {"lost"}
Drops(M) == IF newest \in M THEN {"dropped"} ELSE {}

-----------------------------------------------------------------------------
(* Apply. *)

\* What the tab offers: the ordinals are those of as many standbys, whatever they are called.
Targets1 ==
  {[standbys |-> r, sync |-> S, quorum |-> q] :
     r \in 1..MaxStandbys, S \in SUBSET (1..MaxStandbys), q \in 1..MaxStandbys}
Offered == {t \in Targets1 : t.sync \subseteq 1..t.standbys /\ t.quorum <= (IF t.sync = {} THEN 1 ELSE Cardinality(t.sync))}

\* The mount that lets standbys connect is on disk before the compose file is loaded.
ApplyStarts(t) ==
  /\ Begins([of |-> "apply", target |-> t, loaded |-> cluster])
  /\ declared' = [declared EXCEPT !.defs[Entry0].hba = TRUE]
  /\ UNCHANGED <<cluster, haJson, pgLive, captured, awry>>

ConvertStarts ==
  /\ Replicated
  /\ Begins([of |-> "convert", loaded |-> cluster, doc |-> declared])
  /\ UNCHANGED <<pgFiles, pgLive, captured, awry>>

\* Mutant of ClusterSettings: those of the entry's command only.
ClusterSettingsOfCommand(ha) == declared.defs[Entry0].command
\* An entry rebuilt as a standby has no command, and the node remembers what it had.
ClusterSettings(ha) == declared.defs[Entry0].command \/ (ha # NoHa /\ ha.settings)

\* The standbys with the lowest ordinals stay, and new ones come after them.
Staying(c, r) == {o \in Ordinals(c) : Cardinality({p \in Ordinals(c) : p < o}) < r}
Coming(c, r) ==
  LET top == Max(Ordinals(c) \union {0}) IN (top + 1)..(top + r - Cardinality(Ordinals(c)))

\* The definition an entry had before it was ever rebuilt.
Snapshot(ha) ==
  IF ha # NoHa /\ ha.entry # NoDef THEN ha.entry
  ELSE IF declared.defs[Entry0].shape = "entry" THEN declared.defs[Entry0] ELSE NoDef

ApplySaves(a) ==
  LET c == a.loaded
      t == a.target
      stay == Staying(c, t.standbys)
      come == Coming(c, t.standbys)
      standbys == [o \in stay \union come |-> IF o \in t.sync THEN "sync" ELSE "async"]
      M == {Entry0} \union DOMAIN standbys
      gone == Ordinals(c) \ stay
      ha == [members |-> M, primary |-> IF c.ha # NoHa /\ c.ha.primary \in M THEN c.ha.primary ELSE Entry0,
             sync |-> SyncOf(standbys), quorum |-> t.quorum, settings |-> ClusterSettings(c.ha), entry |-> Snapshot(c.ha)]
  IN /\ a.of = "apply" /\ come \subseteq 1..MaxOrdinal
     /\ Ends(a)
     /\ cluster' = [standbys |-> standbys, ha |-> ha]
     /\ declared' = [defs |-> [m \in (DOMAIN declared.defs \ gone) \union come |->
                        IF m \in come THEN StandbyDef({Entry0}, ha.settings) ELSE declared.defs[m]],
                     watcher |-> TRUE]
     /\ haJson' = HaConf(ha)
     /\ \E up \in AllUp([m \in M |-> IF m \in DOMAIN roles \ come THEN roles[m] ELSE "standby"]) :
          roles' = up.roles /\ newest' = up.newest
     /\ answering' = M
     /\ awry' = awry \union Stale(c, cluster) \union Drops(gone)
                \union IF t.quorum > Cardinality(ha.sync) /\ ha.sync # {} THEN {"ordinals"} ELSE {}
     /\ UNCHANGED captured

\* Refused if another member is the one that is written; not if none is.
ConvertSaves(a) ==
  LET ha == a.loaded.ha
      own == a.doc.defs[Entry0]
      def == IF own.shape = "standby" /\ ha.entry # NoDef THEN ha.entry ELSE own
      live == Writable(ha.members)
  IN /\ a.of = "convert" /\ Ends(a)
     /\ IF live \ {Entry0} # {} /\ Entry0 \notin live THEN UNCHANGED <<pgFiles, pgLive, captured, awry>>
        ELSE
          /\ cluster' = [standbys |-> <<>>, ha |-> NoHa]
          /\ declared' = [defs |-> [m \in {Entry0} |-> [def EXCEPT !.hba = FALSE]], watcher |-> FALSE]
          /\ haJson' = NoConf
          /\ roles' = [m \in {Entry0} |-> IF roles[m] = "fenced" THEN "primary" ELSE roles[m]]
          /\ answering' = {Entry0}
          /\ newest' = IF roles'[Entry0] = "primary" THEN Entry0 ELSE newest
          /\ awry' = awry \union Stale(a.loaded, cluster) \union Stale(a.doc, declared)
                     \union (IF newest \in ha.members \ {Entry0} THEN {"discarded"} ELSE {})
                     \union (IF live = {} THEN {"unseen"} ELSE {})
                     \union IF \E b \in awaiting : b.of = "apply" THEN {"unmounted"} ELSE {}
          /\ UNCHANGED captured

-----------------------------------------------------------------------------
(* A switchover: the primary is fenced, then the target promoted, then that is saved. *)

FailoverStarts(m) ==
  /\ Replicated /\ m \in cluster.ha.members
  /\ Begins([of |-> "failover", at |-> "asked", target |-> m, loaded |-> cluster])
  /\ UNCHANGED <<pgFiles, pgLive, captured, awry>>

Fences(a) ==
  LET old == Writable(a.loaded.ha.members)
  IN /\ a.of = "failover" /\ a.at = "asked"
     /\ IF a.target \in answering /\ roles[a.target] = "standby"
          THEN Becomes(a, [a EXCEPT !.at = "fenced"])
               /\ roles' = [m \in DOMAIN roles |-> IF m \in old THEN "fenced" ELSE roles[m]]
          ELSE Ends(a) /\ UNCHANGED roles
     /\ UNCHANGED <<pgFiles, answering, newest, captured, awry>>

\* Should an old primary be back by now, the watcher leaves one of the two.
Promotes(a) ==
  LET both == {a.target} \union Writable(DOMAIN roles)
  IN /\ a.of = "failover" /\ a.at = "fenced"
     /\ IF a.target \in answering /\ roles[a.target] = "standby"
          THEN /\ Becomes(a, [a EXCEPT !.at = "promoted"])
               /\ \E m \in both : roles' = [Fencing(roles, both) EXCEPT ![m] = "primary"] /\ newest' = m
          ELSE Ends(a) /\ UNCHANGED <<roles, newest>>
     /\ UNCHANGED <<pgFiles, answering, captured, awry>>

FailoverSaves(a) ==
  LET ha == [a.loaded.ha EXCEPT !.primary = a.target]
  IN /\ a.of = "failover" /\ a.at = "promoted" /\ Ends(a)
     /\ cluster' = [a.loaded EXCEPT !.ha = ha]
     /\ haJson' = HaConf(ha)
     /\ awry' = awry \union Stale(a.loaded, cluster)
     /\ UNCHANGED <<declared, pgLive, captured>>

-----------------------------------------------------------------------------
(* A rejoin: the member's data is discarded for a clone of the primary's. *)

RejoinStarts(m) ==
  /\ Replicated /\ m \in cluster.ha.members
  /\ Begins([of |-> "rejoin", at |-> "asked", target |-> m, loaded |-> cluster])
  /\ UNCHANGED <<pgFiles, pgLive, captured, awry>>

\* It waits for its primary as it runs: that another is declared to start after it is no cycle.
RejoinSaves(a) ==
  LET def == StandbyDef({}, ClusterSettings(a.loaded.ha))
  IN /\ a.of = "rejoin" /\ a.at = "asked"
     /\ IF Writable(a.loaded.ha.members \ {a.target}) = {}
          THEN Ends(a) /\ UNCHANGED <<pgFiles, awry>>
          ELSE /\ Becomes(a, [of |-> "rejoin", at |-> "saved", target |-> a.target, last |-> newest])
               /\ declared' = [declared EXCEPT !.defs =
                    [m \in DOMAIN @ \union {a.target} |-> IF m = a.target THEN def ELSE @[m]]]
               /\ cluster' = a.loaded
               /\ awry' = awry \union Stale(a.loaded, cluster)
               /\ UNCHANGED haJson
     /\ UNCHANGED <<pgLive, captured>>

\* A member whose volume is renewed as its definition is by now.  One that sets postgres up itself
\* is empty, and written unless another is, for which the watcher fences it.
Renewed(R, m) ==
  IF declared.defs[m].shape = "standby" THEN "standby"
  ELSE IF \E x \in DOMAIN R \ {m} : R[x] = "primary" THEN "fenced" ELSE "primary"

\* All are brought up first; then the member is renewed, unless it is not declared any more.
RejoinRenews(a) ==
  LET m == a.target
  IN /\ a.of = "rejoin" /\ a.at = "saved" /\ Ends(a)
     /\ answering' = DOMAIN declared.defs
     /\ \E up \in AllUp(roles) :
          \/ /\ m \in DOMAIN declared.defs
             /\ roles' = [up.roles EXCEPT ![m] = Renewed(up.roles, m)]
             /\ newest' = IF roles'[m] = "primary" THEN m ELSE up.newest
             /\ awry' = awry \union (IF up.newest = m THEN {"discarded"} ELSE {})
                            \union IF up.newest = m /\ a.last # m THEN {"renewed"} ELSE {}
          \/ /\ m \notin DOMAIN declared.defs
             /\ roles' = up.roles /\ newest' = up.newest /\ UNCHANGED awry
     /\ UNCHANGED <<pgFiles, captured>>

-----------------------------------------------------------------------------
(* The rest: a standby is deleted, a data capture is added, and members fail. *)

DeleteStandby(o) ==
  LET rest == [p \in Ordinals(cluster) \ {o} |-> cluster.standbys[p]]
      sync == SyncOf(rest)
      most == IF sync = {} THEN 1 ELSE Cardinality(sync)
      ha == [cluster.ha EXCEPT !.members = {Entry0} \union DOMAIN rest, !.sync = sync,
                               !.quorum = IF @ < most THEN @ ELSE most,
                               !.primary = IF @ = o THEN Entry0 ELSE @]
      freed == [m \in DOMAIN declared.defs \ {o} |-> [declared.defs[m] EXCEPT !.after = @ \ {o}]]
  IN /\ Asks /\ o \in Ordinals(cluster)
     /\ cluster' = [standbys |-> rest, ha |-> ha]
     /\ haJson' = HaConf(ha)
     /\ declared' = [declared EXCEPT !.defs = freed]
     /\ \E up \in AllUp([m \in DOMAIN roles \ {o} |-> roles[m]]) : roles' = up.roles /\ newest' = up.newest
     /\ answering' = DOMAIN declared.defs \ {o}
     /\ awry' = awry \union Drops({o})
     /\ UNCHANGED <<captured, awaiting>>

\* The first rule of a capture gives the node's container a command, unless it has one.
Capture ==
  /\ Asks /\ ~captured
  /\ captured' = TRUE
  /\ declared' = [declared EXCEPT !.defs[Entry0].command = TRUE]
  /\ awry' = awry \union IF Replicated THEN {"unheard"} ELSE {}
  /\ UNCHANGED <<cluster, haJson, pgLive, awaiting>>

Disturbs == allowance.mishaps > 0 /\ allowance' = [allowance EXCEPT !.mishaps = @ - 1]

Crashes(m) ==
  /\ Disturbs /\ m \in answering
  /\ answering' = answering \ {m}
  /\ UNCHANGED <<pgFiles, roles, newest, captured, awaiting, awry>>

\* An ex-primary that returns is fenced, or written again when no other is.
Returns(m) ==
  LET alone == Writable(DOMAIN roles) = {}
  IN /\ m \in DOMAIN roles \ answering
     /\ answering' = answering \union {m}
     /\ roles' = IF roles[m] = "primary" /\ ~alone THEN [roles EXCEPT ![m] = "fenced"] ELSE roles
     /\ newest' = IF roles[m] = "primary" /\ alone THEN m ELSE newest
     /\ UNCHANGED <<pgFiles, captured, awaiting, awry, allowance>>

\* The watcher promotes one of its members when none is writable.  How a switchover and the
\* watcher meet is left to PgFailover.
WatcherPromotes(m) ==
  /\ m \in haJson.members \intersect answering /\ roles[m] = "standby"
  /\ Writable(haJson.members) = {}
  /\ \A a \in awaiting : a.of = "failover" => a.at = "asked"
  /\ roles' = [roles EXCEPT ![m] = "primary"] /\ newest' = m
  /\ UNCHANGED <<pgFiles, answering, captured, awaiting, awry, allowance>>

-----------------------------------------------------------------------------
PostgresInit ==
  /\ allowance \in ClusterBudgets
  /\ cluster = [standbys |-> <<>>, ha |-> NoHa]
  /\ declared = [defs |-> [m \in {Entry0} |-> EntryDef], watcher |-> FALSE]
  /\ haJson = NoConf
  /\ roles = [m \in {Entry0} |-> "primary"] /\ answering = {Entry0} /\ newest = Entry0
  /\ captured = FALSE /\ awaiting = {} /\ awry = {}

\* Files that an update was lost from are not looked at any further.
PostgresNext ==
  /\ "lost" \notin awry
  /\ \/ \E t \in Offered : ApplyStarts(t)
     \/ ConvertStarts
     \/ \E m \in DOMAIN roles : FailoverStarts(m) \/ RejoinStarts(m) \/ Crashes(m) \/ Returns(m) \/ WatcherPromotes(m)
     \/ \E a \in awaiting :
          ApplySaves(a) \/ ConvertSaves(a) \/ Fences(a) \/ Promotes(a) \/ FailoverSaves(a) \/ RejoinSaves(a) \/ RejoinRenews(a)
     \/ \E o \in Ordinals(cluster) : DeleteStandby(o)
     \/ Capture

PostgresSpec == PostgresInit /\ [][PostgresNext]_pgVars
-----------------------------------------------------------------------------
\* The watcher's configuration, the manifest and the compose file tell of the same members, and
\* compose can start them: no member waits for itself through others.
FilesTellOfOneCluster ==
  /\ Replicated =>
       /\ cluster.ha.members = {Entry0} \union Ordinals(cluster)
       /\ cluster.ha.sync = SyncOf(cluster.standbys)
       /\ cluster.ha.primary \in cluster.ha.members
       /\ "ordinals" \notin awry /\ cluster.ha.sync # {} => cluster.ha.quorum \in 1..Cardinality(cluster.ha.sync)
       /\ haJson = HaConf(cluster.ha)
  /\ ~Replicated => Ordinals(cluster) = {} /\ haJson = NoConf
  /\ declared.watcher = Replicated
  /\ DOMAIN declared.defs = {Entry0} \union Ordinals(cluster)
  /\ \A m, x \in DOMAIN declared.defs :
       x \in declared.defs[m].after => x \in DOMAIN declared.defs /\ m \notin declared.defs[x].after

\* A standalone node sets postgres up itself and lets no standby in, an entry that has standbys
\* does, and all of them decode logically if the capture was there first.
MembersAreAsBuilt ==
  LET own == declared.defs[Entry0]
  IN /\ ~Replicated => own.shape = "entry" /\ (own.hba => \E a \in awaiting : a.of = "apply")
     /\ Replicated /\ own.shape = "entry" /\ "unmounted" \notin awry => own.hba
     /\ captured /\ "unheard" \notin awry =>
          \A m \in DOMAIN declared.defs : declared.defs[m].command \/ declared.defs[m].built

\* The member that was written last is one of the cluster, no conversion or rejoin has discarded it,
\* and a standalone node is written.
NewestIsKept ==
  /\ "discarded" \notin awry
  /\ newest \in {Entry0} \union Ordinals(cluster)
  /\ ~Replicated => roles[Entry0] = "primary"

\* However the topology is changed while members fail: the three files tell of one cluster that
\* compose can start, its members are built as their mode needs, and what was written last is not
\* thrown away.  Excepted are a request that saves over what another has saved, one that removes
\* the standby that is written, a conversion while no primary is up or while an Apply has only
\* mounted its script, a rejoin that renews a member which came to be written after it was looked
\* at, and a capture that comes after the standbys.
PostgresHolds ==
  "lost" \notin awry =>
    /\ FilesTellOfOneCluster
    /\ MembersAreAsBuilt
    /\ awry \intersect {"dropped", "unseen", "renewed"} = {} => NewestIsKept
=============================================================================
