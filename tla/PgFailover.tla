----------------------------- MODULE PgFailover -----------------------------
(***************************************************************************)
(* A replicated postgres cluster of the sandbox and its watcher:           *)
(* frontend/server/templates/pg-failover/app.py (the tick), with the two   *)
(* operator actions of frontend/server/postgresTopology.js (handleFailover *)
(* and handleRejoin) that change the members behind the watcher's back.    *)
(* A tick probes the members one after the other, decides on what it saw,  *)
(* and carries the decision out as SQL calls; anything may happen between  *)
(* two of these.  A second of the watcher's clock is one tick.             *)
(* Postgres itself (streaming, promotion, synchronous commit) is external. *)
(***************************************************************************)
EXTENDS Integers, Sequences, FiniteSets, SequencesExt

CONSTANTS Members,        \* the members of the cluster
          Order,          \* conf()["members"]: the order of ha.json
          Nobody,         \* None
          SyncStandbys,   \* sync.standbys of ha.json
          Quorum,         \* sync.quorum
          RemoteApply,    \* sync.commitLevel is remote_apply, not on
          Enabled,        \* enabled: the watcher may promote
          AutoDegrade,    \* autoDegrade
          DownAfter,      \* downAfterMs, in ticks
          MaxWrites,      \* bound: the writes of the clients
          MaxFaults       \* bound: crashes, watcher restarts, switchovers and rejoins in all

ASSUME ClusterAssumption ==
  /\ Nobody \notin Members
  /\ IsFiniteSet(Members) /\ Members # {}
  /\ Order \in Seq(Members)
  /\ \A m \in Members : \E k \in DOMAIN Order : Order[k] = m
  /\ \A j, k \in DOMAIN Order : Order[j] = Order[k] => j = k
  /\ SyncStandbys \subseteq Members

ASSUME NumbersAssumption ==
  /\ Quorum \in Nat /\ DownAfter \in Nat
  /\ {RemoteApply, Enabled, AutoDegrade} \subseteq BOOLEAN
  /\ {MaxWrites, MaxFaults} \subseteq Nat

VARIABLES server,         \* each member's postgres
          pending,        \* <<write, member>>: a commit that waits for its acknowledgement
          written,        \* the writes so far
          live,           \* what the probes of this tick saw
          probed,         \* how many members this tick has probed
          calls,          \* the SQL calls this tick has left to make
          statePrimary,   \* STATE["primary"]
          downFor,        \* _down_since, as the number of ticks the member was down
          cooling,        \* _last_promotion, as the number of ticks until the next is allowed
          op,             \* handleFailover in progress
          faults,         \* how many of each disturbance there were
          synced,         \* history: writes acknowledged by synchronous standbys
          overlapped,     \* history: a switchover fenced a primary the running tick had seen
          aborted         \* history: a switchover stopped between its fence and its promotion

watcherVars == <<live, probed, calls, statePrimary, downFor, cooling>>
historyVars == <<synced, overlapped, aborted>>
vars == <<server, pending, written, watcherVars, op, faults, historyVars>>

-----------------------------------------------------------------------------
(* Postgres. *)

NoNames == [who |-> {}, quorum |-> 0]
Names == [who : SUBSET SyncStandbys, quorum : 0..Cardinality(SyncStandbys)]
Writes == 1..MaxWrites
Server == [up : BOOLEAN, recovery : BOOLEAN, readonly : BOOLEAN, follows : Members \cup {Nobody},
           names : Names, wal : Seq(Writes), replayed : Nat, cloneFrom : Members \cup {Nobody}]

\* Serves writes: libpq's target_session_attrs=read-write accepts it, when it is up.
IsPrimary(m) == ~server[m].recovery /\ ~server[m].readonly
Writable(m) == server[m].up /\ IsPrimary(m)

\* A standby streams from the member it follows unless their histories diverged.
Streams(s, m) ==
  /\ server[s].up /\ server[s].recovery /\ server[s].follows = m
  /\ server[m].up /\ IsPrefix(server[s].wal, server[m].wal)

Holds(s, w) == \E k \in DOMAIN server[s].wal :
                  server[s].wal[k] = w /\ (RemoteApply => k <= server[s].replayed)

Acknowledged(w, m) ==
  LET names == server[m].names
  IN  Cardinality({s \in names.who : Streams(s, m) /\ Holds(s, w)}) >= names.quorum

Write(m) ==
  /\ written < MaxWrites /\ Writable(m)
  /\ written' = written + 1
  /\ server' = [server EXCEPT ![m].wal = Append(@, written + 1), ![m].replayed = @ + 1]
  /\ pending' = pending \cup {<<written + 1, m>>}
  /\ UNCHANGED <<watcherVars, op, faults, historyVars>>

\* A commit that waits is released by its standbys, or by names that ask for none.
Commit(w, m) ==
  /\ <<w, m>> \in pending /\ Acknowledged(w, m)
  /\ pending' = pending \ {<<w, m>>}
  /\ synced' = IF server[m].names.quorum > 0 THEN synced \cup {w} ELSE synced
  /\ UNCHANGED <<server, written, watcherVars, op, faults, overlapped, aborted>>

Replicate(s, m) ==
  /\ Streams(s, m) /\ Len(server[s].wal) < Len(server[m].wal)
  /\ server' = [server EXCEPT ![s].wal = Append(@, server[m].wal[Len(@) + 1])]
  /\ UNCHANGED <<pending, written, watcherVars, op, faults, historyVars>>

Replay(s) ==
  /\ server[s].up /\ server[s].recovery /\ server[s].replayed < Len(server[s].wal)
  /\ server' = [server EXCEPT ![s].replayed = @ + 1]
  /\ UNCHANGED <<pending, written, watcherVars, op, faults, historyVars>>

Happens(fault) ==
  /\ faults["crash"] + faults["watcher"] + faults["switchover"] + faults["rejoin"] < MaxFaults
  /\ faults' = [faults EXCEPT ![fault] = @ + 1]

\* The connections of the clients break: what they waited for is never acknowledged.
Dropped(m) == {p \in pending : p[2] = m}

Crash(m) ==
  /\ server[m].up /\ Happens("crash")
  /\ server' = [server EXCEPT ![m].up = FALSE]
  /\ pending' = pending \ Dropped(m)
  /\ UNCHANGED <<written, watcherVars, op, historyVars>>

\* A member comes back in the role it had, with the settings of postgresql.auto.conf.
Restart(m) ==
  /\ ~server[m].up /\ server[m].cloneFrom = Nobody
  /\ server' = [server EXCEPT ![m].up = TRUE]
  /\ UNCHANGED <<pending, written, watcherVars, op, faults, historyVars>>

Promoted(s) == [s EXCEPT !.recovery = FALSE, !.replayed = Len(s.wal)]

-----------------------------------------------------------------------------
(* The watcher. *)

Down == [up |-> FALSE, recovery |-> FALSE, fenced |-> FALSE, lsn |-> 0, follows |-> Nobody]
Status == [up : BOOLEAN, recovery : BOOLEAN, fenced : BOOLEAN, lsn : Nat,
           follows : Members \cup {Nobody}]
Call == [op : {"fence", "repoint", "configure", "promote"}, on : Members]
TickEnds == calls' = <<>> /\ probed' = 0 /\ live' = [m \in Members |-> Down]
NextCall == IF Len(calls) = 1 THEN TickEnds ELSE calls' = Tail(calls) /\ UNCHANGED <<probed, live>>

\* The members in the order of ha.json: the first of some, and a call to each of some.
Place(m) == CHOOSE k \in DOMAIN Order : Order[k] = m
First(among) == CHOOSE m \in among : \A n \in among : Place(m) <= Place(n)
Listed(among) ==
  CHOOSE list \in [1..Cardinality(among) -> among] :
    \A j, k \in DOMAIN list : j < k => Place(list[j]) < Place(list[k])
Calls(what, among) == [k \in 1..Cardinality(among) |-> [op |-> what, on |-> Listed(among)[k]]]

Deciding == calls = <<>> /\ probed = Len(Order)
Calling(what) == calls # <<>> /\ Head(calls).op = what

Probe ==
  /\ calls = <<>> /\ probed < Len(Order)
  /\ probed' = probed + 1
  /\ LET m == Order[probed + 1]
         s == server[m]
     IN  live' = [live EXCEPT ![m] =
           IF s.up THEN [up |-> TRUE, recovery |-> s.recovery, fenced |-> s.readonly,
                         lsn |-> s.replayed, follows |-> s.follows]
                   ELSE Down]
  /\ UNCHANGED <<server, pending, written, calls, statePrimary, downFor, cooling, op, faults, historyVars>>

\* Mutant: a fenced member passes for a primary.
SeenPrimaryFencedToo(m) == live[m].up /\ ~live[m].recovery

\* primaries: the members the tick saw up, out of recovery and not fenced.
SeenPrimary(m) == live[m].up /\ ~live[m].recovery /\ ~live[m].fenced
Primaries == {m \in Members : SeenPrimary(m)}
Candidates == {m \in Members : live[m].up /\ live[m].recovery}

\* Mutant: reachable is taken for replicating.
CanAckIfUp(m) == live[m].up

CanAck(m) == live[m].up /\ live[m].recovery /\ ~live[m].fenced

Wanted(primary) ==
  IF AutoDegrade THEN {s \in SyncStandbys \ {primary} : CanAck(s)} ELSE SyncStandbys

\* Mutant: a quorum above the number of standbys.
SyncStandbyNamesUnclamped(primary) == [who |-> Wanted(primary), quorum |-> Quorum]

SyncStandbyNames(primary) ==
  [who |-> Wanted(primary),
   quorum |-> IF Quorum < Cardinality(Wanted(primary)) THEN Quorum ELSE Cardinality(Wanted(primary))]

\* The clock of a tick: _down_since, then the cooling window.
Clock ==
  /\ downFor' = [m \in Members |-> IF live[m].up THEN 0
                                    ELSE IF downFor[m] > DownAfter THEN downFor[m]
                                    ELSE downFor[m] + 1]
  /\ cooling' = IF cooling > 0 THEN cooling - 1 ELSE 0

Stale(ticks) == {m \in Members : ticks[m] > DownAfter}

\* Mutant: the standbys are not compared.
FirstCandidate(m) == m \in Candidates /\ \A c \in Candidates : Place(m) <= Place(c)

\* max(candidates, key = lsn): of several, the first in the order of ha.json.
Winner(m) ==
  /\ m \in Candidates
  /\ \A c \in Candidates : \/ live[c].lsn < live[m].lsn
                           \/ live[c].lsn = live[m].lsn /\ Place(m) <= Place(c)

Keep == IF statePrimary \in Primaries THEN statePrimary ELSE First(Primaries)

\* Standbys that follow another member than the one that is kept.
Strays == {m \in Candidates \ {Keep} : live[m].follows # Keep}

\* Mutant: the split brain is noticed and nobody is fenced.
DecideKeepAll ==
  /\ Deciding /\ Primaries # {}
  /\ Clock
  /\ statePrimary' = Keep
  /\ calls' = Calls("repoint", Strays) \o Calls("configure", {Keep})
  /\ UNCHANGED <<server, pending, written, live, probed, op, faults, historyVars>>

\* Some primary was seen: fence the others, repoint the strays, configure it.
DecideKeep ==
  /\ Deciding /\ Primaries # {}
  /\ Clock
  /\ statePrimary' = Keep
  /\ calls' = Calls("fence", Primaries \ {Keep}) \o Calls("repoint", Strays) \o Calls("configure", {Keep})
  /\ UNCHANGED <<server, pending, written, live, probed, op, faults, historyVars>>

\* No primary was seen, some member has been down for long, a standby is reachable.
DecidePromote ==
  /\ Deciding /\ Primaries = {}
  /\ Clock
  /\ Enabled /\ Stale(downFor') # {} /\ cooling' = 0
  /\ \E winner \in Members :
       /\ Winner(winner)
       /\ calls' = Calls("promote", {winner}) \o Calls("repoint", Candidates \ {winner})
  /\ UNCHANGED <<server, pending, written, live, probed, statePrimary, op, faults, historyVars>>

DecideWait ==
  /\ Deciding /\ Primaries = {}
  /\ Clock
  /\ ~Enabled \/ Candidates = {} \/ Stale(downFor') = {} \/ cooling' > 0
  /\ TickEnds
  /\ UNCHANGED <<server, pending, written, statePrimary, op, faults, historyVars>>

\* A call on a member that is down raises; every caller but promote goes on.
CallFails(what) ==
  /\ Calling(what) /\ ~server[Head(calls).on].up
  /\ NextCall
  /\ UNCHANGED <<server, pending, written, statePrimary, downFor, cooling, op, faults, historyVars>>

Fence ==
  /\ Calling("fence") /\ server[Head(calls).on].up
  /\ server' = [server EXCEPT ![Head(calls).on].readonly = TRUE]
  /\ NextCall
  /\ UNCHANGED <<pending, written, statePrimary, downFor, cooling, op, faults, historyVars>>

Repoint ==
  /\ Calling("repoint") /\ server[Head(calls).on].up
  /\ server' = [server EXCEPT ![Head(calls).on].follows = statePrimary]
  /\ NextCall
  /\ UNCHANGED <<pending, written, statePrimary, downFor, cooling, op, faults, historyVars>>

ApplyPrimaryConfig ==
  /\ Calling("configure") /\ server[Head(calls).on].up
  /\ server' = [server EXCEPT ![Head(calls).on].names = SyncStandbyNames(Head(calls).on)]
  /\ NextCall
  /\ UNCHANGED <<pending, written, statePrimary, downFor, cooling, op, faults, historyVars>>

\* The fence is reset first, so that the new primary is writable.
Promote ==
  /\ Calling("promote")
  /\ LET winner == Head(calls).on IN
     /\ server[winner].up /\ server[winner].recovery
     /\ server' = [server EXCEPT ![winner] = Promoted([@ EXCEPT !.readonly = FALSE])]
     /\ statePrimary' = winner
  /\ cooling' = DownAfter
  /\ NextCall
  /\ UNCHANGED <<pending, written, downFor, op, faults, historyVars>>

\* The winner is gone, or the operator promoted it meanwhile: pg_promote raises, and the
\* exception skips the repoints and the bookkeeping.
PromoteFails ==
  /\ Calling("promote")
  /\ LET winner == Head(calls).on IN
     \/ /\ ~server[winner].up
        /\ UNCHANGED server
     \/ /\ server[winner].up /\ ~server[winner].recovery
        /\ server' = [server EXCEPT ![winner].readonly = FALSE]
  /\ TickEnds
  /\ UNCHANGED <<pending, written, statePrimary, downFor, cooling, op, faults, historyVars>>

\* restart: unless-stopped.  Everything the watcher knew was in its memory.
WatcherRestart ==
  /\ Happens("watcher")
  /\ TickEnds
  /\ statePrimary' = Nobody
  /\ downFor' = [m \in Members |-> 0]
  /\ cooling' = 0
  /\ UNCHANGED <<server, pending, written, op, historyVars>>

-----------------------------------------------------------------------------
(* The operator actions. *)

NoOp == [stage |-> "idle", target |-> Nobody, old |-> Nobody]
Op == [stage : {"idle", "fence", "promote"}, target : Members \cup {Nobody}, old : Members \cup {Nobody}]

\* findLivePrimary: the first of the members that is writable.
FindLivePrimary(among) ==
  LET found == {m \in among : Writable(m)}
  IN  IF found = {} THEN Nobody ELSE First(found)

StartSwitchover(target) ==
  /\ op.stage = "idle" /\ Happens("switchover")
  /\ server[target].up /\ server[target].recovery
  /\ LET old == FindLivePrimary(Members)
     IN  op' = [stage |-> IF old = Nobody THEN "promote" ELSE "fence", target |-> target, old |-> old]
  /\ UNCHANGED <<server, pending, written, watcherVars, historyVars>>

FenceOldPrimary ==
  /\ op.stage = "fence"
  /\ IF server[op.old].up
     THEN /\ server' = [server EXCEPT ![op.old].readonly = TRUE]
          /\ op' = [op EXCEPT !.stage = "promote"]
          /\ overlapped' = (overlapped \/ live[op.old].up)
     ELSE op' = NoOp /\ UNCHANGED <<server, overlapped>>
  /\ UNCHANGED <<pending, written, watcherVars, faults, synced, aborted>>

PromoteTarget ==
  /\ op.stage = "promote"
  /\ server[op.target].up /\ server[op.target].recovery
  /\ server' = [server EXCEPT ![op.target] = Promoted(@)]
  /\ op' = NoOp
  /\ UNCHANGED <<pending, written, watcherVars, faults, historyVars>>

\* The target went down or was promoted meanwhile, or the dev server stopped.
AbortSwitchover ==
  /\ op.stage = "promote"
  /\ op' = NoOp
  /\ aborted' = (aborted \/ op.old # Nobody)
  /\ UNCHANGED <<server, pending, written, watcherVars, faults, synced, overlapped>>

\* The button of a fenced member: its data goes, and the entrypoint of the new container
\* waits for the primary that was live when the operator clicked.
StartRejoin(m) ==
  /\ server[m].readonly /\ Happens("rejoin")
  /\ LET primary == FindLivePrimary(Members \ {m}) IN
     /\ primary # Nobody
     /\ server' = [server EXCEPT ![m] =
          [up |-> FALSE, recovery |-> TRUE, readonly |-> FALSE, follows |-> primary,
           names |-> NoNames, wal |-> <<>>, replayed |-> 0, cloneFrom |-> primary]]
  /\ pending' = pending \ Dropped(m)
  /\ UNCHANGED <<written, watcherVars, op, historyVars>>

\* pg_basebackup copies the data and postgresql.auto.conf, less the fence.
BaseBackup(m) ==
  /\ server[m].cloneFrom # Nobody
  /\ LET source == server[server[m].cloneFrom] IN
     /\ source.up
     /\ server' = [server EXCEPT ![m].up = TRUE, ![m].names = source.names, ![m].wal = source.wal,
                                 ![m].replayed = Len(source.wal), ![m].cloneFrom = Nobody]
  /\ UNCHANGED <<pending, written, watcherVars, op, faults, historyVars>>

-----------------------------------------------------------------------------
\* A steady cluster: the first member is the primary and the names are applied.
Init ==
  /\ server = [m \in Members |->
       [up |-> TRUE, recovery |-> m # Order[1], readonly |-> FALSE,
        follows |-> IF m = Order[1] THEN Nobody ELSE Order[1],
        names |-> IF m = Order[1]
                  THEN [who |-> SyncStandbys \ {m},
                        quorum |-> IF Quorum < Cardinality(SyncStandbys \ {m})
                                   THEN Quorum ELSE Cardinality(SyncStandbys \ {m})]
                  ELSE NoNames,
        wal |-> <<>>, replayed |-> 0, cloneFrom |-> Nobody]]
  /\ pending = {} /\ written = 0
  /\ live = [m \in Members |-> Down] /\ probed = 0 /\ calls = <<>>
  /\ statePrimary = Order[1] /\ downFor = [m \in Members |-> 0] /\ cooling = 0
  /\ op = NoOp
  /\ faults = [f \in {"crash", "watcher", "switchover", "rejoin"} |-> 0]
  /\ synced = {} /\ overlapped = FALSE /\ aborted = FALSE

WatcherStep ==
  \/ Probe \/ DecideKeep \/ DecidePromote \/ DecideWait
  \/ Fence \/ CallFails("fence") \/ Repoint \/ CallFails("repoint")
  \/ ApplyPrimaryConfig \/ CallFails("configure") \/ Promote \/ PromoteFails

Next ==
  \/ WatcherStep \/ WatcherRestart
  \/ FenceOldPrimary \/ PromoteTarget \/ AbortSwitchover
  \/ \E m \in Members :
       \/ Write(m) \/ Replay(m) \/ Crash(m) \/ Restart(m)
       \/ StartSwitchover(m) \/ StartRejoin(m) \/ BaseBackup(m)
       \/ \E w \in Writes : Commit(w, m)
       \/ \E s \in Members : Replicate(s, m)

Spec == Init /\ [][Next]_vars

\* The watcher loops for ever; postgres streams, replays and acknowledges.  Nobody has to
\* restart a member, to write, or to press a button.
Fairness ==
  /\ WF_vars(WatcherStep)
  /\ \A m \in Members :
       /\ WF_vars(Replay(m))
       /\ \A s \in Members : WF_vars(Replicate(s, m))
       /\ \A w \in Writes : WF_vars(Commit(w, m))

FairSpec == Spec /\ Fairness

-----------------------------------------------------------------------------
(* Properties. *)

\* Every variable has its type: the quorum never exceeds the standbys that are named.
TypeOK ==
  /\ server \in [Members -> Server]
  /\ \A m \in Members : server[m].names.quorum <= Cardinality(server[m].names.who)
  /\ pending \subseteq Writes \X Members /\ written \in 0..MaxWrites
  /\ live \in [Members -> Status] /\ probed \in 0..Len(Order) /\ calls \in Seq(Call)
  /\ statePrimary \in Members \cup {Nobody}
  /\ downFor \in [Members -> 0..(DownAfter + 1)] /\ cooling \in 0..DownAfter
  /\ op \in Op
  /\ faults \in [{"crash", "watcher", "switchover", "rejoin"} -> Nat]
  /\ synced \subseteq Writes /\ {overlapped, aborted} \subseteq BOOLEAN

\* A promotion of the watcher that meets no live primary takes a standby with every write that
\* synchronous standbys acknowledged, as long as there was one crash and no switchover (README: "sync
\* means a promoted standby has every committed row").
PromotionKeepsSynced ==
  [][Promote /\ faults["crash"] <= 1 /\ faults["switchover"] = 0 /\ (\A m \in Members : ~Writable(m))
       => synced \subseteq ToSet(server[Head(calls).on].wal)]_vars

FencesNow(m) == Calling("fence") /\ Head(calls).on = m /\ ~server[m].readonly /\ server'[m].readonly

\* The watcher never fences the last primary of the cluster: when it fences a member, another
\* one is a primary, which at worst is down and comes back writable (handleFailover: "ORDER
\* MATTERS: fence the old primary FIRST", or the watcher "would fence the node we just
\* promoted").
FenceLeavesPrimary ==
  [][\A m \in Members : FencesNow(m) => \E k \in Members \ {m} : IsPrimary(k)]_vars

\* The same, unless a switchover fenced a primary that the running tick had already seen.
FenceLeavesPrimaryUnlessOverlapped ==
  [][\A m \in Members : FencesNow(m) /\ ~overlapped => \E k \in Members \ {m} : IsPrimary(k)]_vars

\* One primary, which the watcher knows, whose standbys follow it and whose
\* synchronous_standby_names are the standbys that can acknowledge.
Healthy ==
  \E p \in Members :
    /\ Writable(p) /\ statePrimary = p
    /\ \A m \in Members \ {p} : server[m].up =>
         ~IsPrimary(m) /\ (server[m].recovery => server[m].follows = p)
    /\ AutoDegrade => server[p].names.who =
         {s \in SyncStandbys \ {p} : server[s].up /\ server[s].recovery /\ ~server[s].readonly}

CanServe == \E m \in Members : server[m].up /\ (server[m].recovery \/ ~server[m].readonly)

\* Once the faults are over the cluster becomes healthy and stays so, if any member is left
\* that could serve, whatever split brain or half-done failover they left, unless a switchover
\* was cut short or overlapped with a tick (the module docstring: the watcher promotes,
\* repoints, fences).
Converges == <>[](op.stage = "idle" /\ ~aborted /\ ~overlapped /\ CanServe /\ Enabled => Healthy)

\* Histories that have diverged: the standby is up and is named, and cannot stream.
Stranded(m) == \E s \in server[m].names.who : server[s].up /\ server[s].recovery
                 /\ ~IsPrefix(server[s].wal, server[m].wal)

\* No commit waits for ever on the primary: a synchronous standby that cannot acknowledge is
\* dropped from the names (can_ack: "getting this wrong hangs the database").  A commit on a
\* member that was fenced meanwhile, or that waits for a stranded standby, may.
CommitsResolve ==
  \A m \in Members, w \in Writes :
    []<>(<<w, m>> \notin pending \/ ~IsPrimary(m) \/ statePrimary # m \/ Stranded(m) \/ ~AutoDegrade)
=============================================================================
