------------------------- MODULE PgFailover_proofs -------------------------
(***************************************************************************)
(* Proofs about the postgres failover watcher, for every cluster: the      *)
(* types of its state, that the watcher never fences the last primary      *)
(* unless a switchover overlapped with its tick, and that the standby it   *)
(* promotes has what synchronous standbys acknowledged.                    *)
(***************************************************************************)
EXTENDS PgFailover, FiniteSetTheorems, WellFoundedInduction, TLAPS

-----------------------------------------------------------------------------
(* The order of ha.json. *)

LEMMA Places ==
  /\ Len(Order) \in Nat /\ DOMAIN Order = 1..Len(Order)
  /\ \A k \in 1..Len(Order) : Order[k] \in Members
  /\ \A m \in Members : Place(m) \in 1..Len(Order) /\ Place(m) \in Nat /\ Order[Place(m)] = m
  /\ \A m, n \in Members : Place(m) = Place(n) => m = n
<1>1. Len(Order) \in Nat /\ DOMAIN Order = 1..Len(Order) /\ \A k \in 1..Len(Order) : Order[k] \in Members
  BY ClusterAssumption
<1>2. \A m \in Members : Place(m) \in DOMAIN Order /\ Order[Place(m)] = m
  BY ClusterAssumption DEF Place
<1> QED
  BY <1>1, <1>2

LEMMA Small ==
  ASSUME NEW among \in SUBSET Members
  PROVE  IsFiniteSet(among) /\ Cardinality(among) \in Nat
  BY ClusterAssumption, FS_Subset, FS_CardinalityType

\* Of some members one is listed before the others, and one after them.
LEMMA Ends ==
  ASSUME NEW among \in SUBSET Members, among # {}
  PROVE  /\ \E m \in among : \A n \in among : Place(m) <= Place(n)
         /\ \E m \in among : \A n \in among : Place(n) <= Place(m)
<1>1. IsWellFoundedOn(StrictSubsetOrdering(among), SUBSET among)
  BY Small, FS_StrictSubsetOrderingWellFounded, FS_FiniteSubsetsOfFinite
<1>2. \A n \in among : Place(n) \in Nat
  BY Places
<1>3. \E m \in among : \A n \in among : Place(m) <= Place(n)
  <2> DEFINE Before(m) == {n \in among : Place(n) < Place(m)}
             Befores == {Before(m) : m \in among}
  <2>1. Befores \subseteq SUBSET among /\ Befores # {}
    OBVIOUS
  <2>2. PICK B \in Befores : \A C \in Befores : <<C, B>> \notin StrictSubsetOrdering(among)
    BY <1>1, <2>1, WFMin
  <2>3. PICK m \in among : B = Before(m)
    BY <2>2
  <2> SUFFICES ASSUME NEW n \in among, Place(n) < Place(m) PROVE FALSE
    BY <1>2, <2>3
  <2>4. (\A l \in Before(n) : l \in Before(m)) /\ n \in Before(m) /\ n \notin Before(n)
    BY <1>2
  <2>5. Before(m) \subseteq among /\ Before(n) \subseteq among /\ Before(n) \in Befores
    OBVIOUS
  <2> HIDE DEF Before, Befores
  <2> QED
    BY <2>2, <2>3, <2>4, <2>5 DEF StrictSubsetOrdering
<1>4. \E m \in among : \A n \in among : Place(n) <= Place(m)
  <2> DEFINE After(m) == {n \in among : Place(n) > Place(m)}
             Afters == {After(m) : m \in among}
  <2>1. Afters \subseteq SUBSET among /\ Afters # {}
    OBVIOUS
  <2>2. PICK B \in Afters : \A C \in Afters : <<C, B>> \notin StrictSubsetOrdering(among)
    BY <1>1, <2>1, WFMin
  <2>3. PICK m \in among : B = After(m)
    BY <2>2
  <2> SUFFICES ASSUME NEW n \in among, Place(n) > Place(m) PROVE FALSE
    BY <1>2, <2>3
  <2>4. (\A l \in After(n) : l \in After(m)) /\ n \in After(m) /\ n \notin After(n)
    BY <1>2
  <2>5. After(m) \subseteq among /\ After(n) \subseteq among /\ After(n) \in Afters
    OBVIOUS
  <2> HIDE DEF After, Afters
  <2> QED
    BY <2>2, <2>3, <2>4, <2>5 DEF StrictSubsetOrdering
<1> QED
  BY <1>3, <1>4

LEMMA FirstIsOne ==
  ASSUME NEW among \in SUBSET Members, among # {}
  PROVE  First(among) \in among
  BY Ends DEF First

InOrder(list, among) ==
  /\ list \in [1..Cardinality(among) -> among]
  /\ \A j, k \in DOMAIN list : j < k => Place(list[j]) < Place(list[k])

\* Any set of members can be listed in order.
LEMMA ListedIs ==
  ASSUME NEW among \in SUBSET Members
  PROVE  InOrder(Listed(among), among)
<1> DEFINE Unlisted == {S \in SUBSET among : \A list : ~InOrder(list, S)}
<1>1. IsWellFoundedOn(StrictSubsetOrdering(among), SUBSET among)
  BY Small, FS_StrictSubsetOrderingWellFounded, FS_FiniteSubsetsOfFinite
<1>2. Unlisted = {}
  <2> SUFFICES ASSUME Unlisted # {} PROVE FALSE
    OBVIOUS
  <2>1. PICK S \in Unlisted : \A T \in Unlisted : <<T, S>> \notin StrictSubsetOrdering(among)
    BY <1>1, WFMin
  <2>2. S \in SUBSET among /\ S \in SUBSET Members /\ \A list : ~InOrder(list, S)
    BY <2>1
  <2>3. CASE S = {}
    <3>1. Cardinality(S) = 0 /\ 1..0 = {}
      BY <2>3, FS_EmptySet
    <3>2. InOrder([k \in 1..0 |-> k], S)
      BY <2>3, <3>1 DEF InOrder
    <3> QED
      BY <2>2, <3>2
  <2>4. CASE S # {}
    <3>1. PICK x \in S : \A n \in S : Place(n) <= Place(x)
      BY <2>2, <2>4, Ends
    <3>2. PICK T : T = S \ {x}
      OBVIOUS
    <3>3. T \in SUBSET among /\ <<T, S>> \in StrictSubsetOrdering(among)
      BY <2>2, <3>1, <3>2 DEF StrictSubsetOrdering
    <3>4. PICK list : InOrder(list, T)
      BY <2>1, <3>3
    <3>5. PICK c \in Nat : c = Cardinality(T) /\ Cardinality(S) = c + 1
      BY <2>2, <3>1, <3>2, Small, FS_RemoveElement
    <3>6. PICK longer : longer = [k \in 1..(c + 1) |-> IF k = c + 1 THEN x ELSE list[k]]
      OBVIOUS
    <3>7. \A k \in 1..c : longer[k] = list[k] /\ list[k] \in T
      BY <3>4, <3>5, <3>6 DEF InOrder
    <3>8. longer \in [1..(c + 1) -> S] /\ longer[c + 1] = x
      BY <3>1, <3>2, <3>6, <3>7
    <3>9. \A k \in 1..c : Place(longer[k]) < Place(x)
      <4> SUFFICES ASSUME NEW k \in 1..c PROVE Place(list[k]) < Place(x)
        BY <3>7
      <4>1. list[k] \in S /\ list[k] # x
        BY <3>2, <3>7
      <4>2. list[k] \in Members /\ x \in Members
        BY <2>2, <4>1
      <4>3. Place(list[k]) <= Place(x) /\ Place(list[k]) # Place(x)
        BY <3>1, <4>1, <4>2, Places
      <4> QED
        BY <4>2, <4>3, Places
    <3>10. \A j, k \in 1..(c + 1) : j < k => Place(longer[j]) < Place(longer[k])
      <4> SUFFICES ASSUME NEW j \in 1..(c + 1), NEW k \in 1..(c + 1), j < k
                   PROVE  Place(longer[j]) < Place(longer[k])
        OBVIOUS
      <4>1. j \in 1..c
        OBVIOUS
      <4>2. CASE k = c + 1
        BY <3>8, <3>9, <4>1, <4>2
      <4>3. CASE k # c + 1
        <5>1. k \in 1..c
          BY <4>3
        <5> QED
          BY <3>4, <3>5, <3>7, <4>1, <5>1 DEF InOrder
      <4> QED
        BY <4>2, <4>3
    <3>11. InOrder(longer, S)
      BY <3>5, <3>8, <3>10 DEF InOrder
    <3> QED
      BY <2>2, <3>11
  <2> QED
    BY <2>3, <2>4
<1>3. PICK list : InOrder(list, among)
  BY <1>2
<1> QED
  BY <1>3 DEF InOrder, Listed

-----------------------------------------------------------------------------
(* The types. *)

\* A switchover under way names its members.
OpNamed == op.stage # "idle" => op.target \in Members /\ (op.stage = "fence" => op.old \in Members)

ServersTyped ==
  /\ server \in [Members -> Server]
  /\ \A m \in Members : server[m].names.quorum <= Cardinality(server[m].names.who)
TickTyped ==
  /\ live \in [Members -> Status] /\ probed \in 0..Len(Order) /\ calls \in Seq(Call)
  /\ statePrimary \in Members \cup {Nobody}
  /\ downFor \in [Members -> 0..(DownAfter + 1)] /\ cooling \in 0..DownAfter
OpTyped == op \in Op /\ OpNamed /\ {overlapped, aborted} \subseteq BOOLEAN
WritesTyped == pending \subseteq Writes \X Members /\ written \in 0..MaxWrites /\ synced \subseteq Writes
FaultsTyped == faults \in [{"crash", "watcher", "switchover", "rejoin"} -> Nat]

Types == ServersTyped /\ TickTyped /\ OpTyped /\ WritesTyped /\ FaultsTyped

LEMMA TypesAre == Types <=> TypeOK /\ OpNamed
  BY DEF Types, TypeOK, ServersTyped, TickTyped, OpTyped, WritesTyped, FaultsTyped

LEMMA CallsAre ==
  ASSUME NEW among \in SUBSET Members, NEW what \in {"fence", "repoint", "configure", "promote"}
  PROVE  /\ Calls(what, among) \in Seq(Call) /\ Len(Calls(what, among)) = Cardinality(among)
         /\ \A k \in 1..Cardinality(among) : Calls(what, among)[k].op = what /\ Calls(what, among)[k].on \in among
<1>1. \A k \in 1..Cardinality(among) : Listed(among)[k] \in among
  BY ListedIs DEF InOrder
<1>2. Cardinality(among) \in Nat
  BY Small
<1>3. PICK list : list = Calls(what, among)
  OBVIOUS
<1>4. list = [k \in 1..Cardinality(among) |-> [op |-> what, on |-> Listed(among)[k]]]
  BY <1>3 DEF Calls
<1>5. \A k \in 1..Cardinality(among) : list[k].op = what /\ list[k].on \in among /\ list[k] \in Call
  BY <1>1, <1>4 DEF Call
<1>6. list \in [1..Cardinality(among) -> Call]
  BY <1>4, <1>5
<1>7. list \in Seq(Call) /\ Len(list) = Cardinality(among)
  BY <1>2, <1>6
<1> QED
  BY <1>3, <1>5, <1>7

LEMMA Joined ==
  ASSUME NEW one \in Seq(Call), NEW two \in Seq(Call)
  PROVE  /\ one \o two \in Seq(Call) /\ Len(one \o two) = Len(one) + Len(two)
         /\ \A i \in 1..(Len(one) + Len(two)) :
              (one \o two)[i] = IF i <= Len(one) THEN one[i] ELSE two[i - Len(one)]
  OBVIOUS

LEMMA HeadIs ==
  ASSUME TickTyped, calls # <<>>
  PROVE  Head(calls).on \in Members /\ Head(calls) = calls[1] /\ Len(calls) \in Nat \ {0}
<1>1. Len(calls) \in Nat \ {0} /\ Head(calls) = calls[1] /\ calls[1] \in Call
  BY DEF TickTyped
<1> QED
  BY <1>1 DEF Call

LEMMA NextCallTyped ==
  ASSUME TickTyped, calls # <<>>, NextCall \/ TickEnds
  PROVE  calls' \in Seq(Call) /\ probed' \in 0..Len(Order) /\ live' \in [Members -> Status]
<1>1. CASE TickEnds
  BY <1>1, Places DEF TickEnds, Down, Status
<1>2. CASE calls' = Tail(calls) /\ UNCHANGED <<probed, live>>
  BY <1>2 DEF TickTyped
<1> QED
  BY <1>1, <1>2 DEF NextCall

\* The names a primary is given are standbys, and never more are asked for.
LEMMA NamesAre ==
  ASSUME TickTyped, NEW primary \in Members
  PROVE  /\ SyncStandbyNames(primary) \in Names
         /\ SyncStandbyNames(primary).quorum <= Cardinality(SyncStandbyNames(primary).who)
<1>1. Wanted(primary) \in SUBSET SyncStandbys /\ SyncStandbys \in SUBSET Members
  BY ClusterAssumption DEF Wanted
<1>2. /\ Cardinality(Wanted(primary)) \in Nat /\ Cardinality(SyncStandbys) \in Nat
      /\ Cardinality(Wanted(primary)) <= Cardinality(SyncStandbys)
  BY <1>1, Small, FS_Subset
<1> QED
  BY <1>1, <1>2, NumbersAssumption DEF SyncStandbyNames, Names

LEMMA NoNamesAre ==
  NoNames \in Names /\ NoNames.quorum <= Cardinality(NoNames.who)
<1>1. Cardinality(SyncStandbys) \in Nat /\ Cardinality({}) = 0
  BY ClusterAssumption, Small, FS_EmptySet
<1> QED
  BY <1>1 DEF NoNames, Names

LEMMA ServerFields ==
  ASSUME ServersTyped, NEW m \in Members
  PROVE  /\ server[m] \in Server
         /\ server[m].up \in BOOLEAN /\ server[m].recovery \in BOOLEAN /\ server[m].readonly \in BOOLEAN
         /\ server[m].follows \in Members \union {Nobody} /\ server[m].cloneFrom \in Members \union {Nobody}
         /\ server[m].names \in Names /\ server[m].names.quorum <= Cardinality(server[m].names.who)
         /\ server[m].wal \in Seq(Writes) /\ server[m].replayed \in Nat /\ Len(server[m].wal) \in Nat
  BY DEF ServersTyped, Server

LEMMA InitTypes ==
  ASSUME Init
  PROVE  Types
<1>1. Order[1] \in Members
  <2>1. Members # {}
    BY ClusterAssumption
  <2> QED
    BY <2>1, Places
<1>2. ASSUME NEW m \in Members
      PROVE  /\ server[m] \in Server
             /\ server[m].names.quorum <= Cardinality(server[m].names.who)
  <2>1. PICK S : S = SyncStandbys \ {m}
    OBVIOUS
  <2>2. S \in SUBSET SyncStandbys /\ SyncStandbys \in SUBSET Members
    BY <2>1, ClusterAssumption
  <2>3. Cardinality(S) \in Nat /\ Cardinality(SyncStandbys) \in Nat /\ Cardinality(S) <= Cardinality(SyncStandbys)
    BY <2>2, Small, FS_Subset
  <2>4. PICK names : names = [who |-> S, quorum |-> IF Quorum < Cardinality(S) THEN Quorum ELSE Cardinality(S)]
    OBVIOUS
  <2>5. names \in Names /\ names.quorum <= Cardinality(names.who)
    BY <2>2, <2>3, <2>4, NumbersAssumption DEF Names
  <2>6. server[m] = [up |-> TRUE, recovery |-> m # Order[1], readonly |-> FALSE,
                     follows |-> IF m = Order[1] THEN Nobody ELSE Order[1],
                     names |-> IF m = Order[1] THEN names ELSE NoNames,
                     wal |-> <<>>, replayed |-> 0, cloneFrom |-> Nobody]
    BY <2>1, <2>4 DEF Init
  <2>7. <<>> \in Seq(Writes)
    OBVIOUS
  <2> QED
    BY <1>1, <2>5, <2>6, <2>7, NoNamesAre DEF Server
<1>3. ServersTyped
  <2>1. DOMAIN server = Members /\ server = [m \in Members |-> server[m]]
    BY DEF Init
  <2> QED
    BY <1>2, <2>1 DEF ServersTyped
<1>4. TickTyped
  BY <1>1, Places, NumbersAssumption DEF Init, TickTyped, Down, Status
<1>5. OpTyped
  BY DEF Init, OpTyped, OpNamed, Op, NoOp
<1>6. WritesTyped
  BY NumbersAssumption DEF Init, WritesTyped
<1>7. FaultsTyped
  BY DEF Init, FaultsTyped
<1> QED
  BY <1>3, <1>4, <1>5, <1>6, <1>7 DEF Types

\* A member's server is replaced by one of its type.
Becomes(m, s) == server' = [server EXCEPT ![m] = s]

LEMMA ServersChange ==
  ASSUME ServersTyped, NEW m \in Members, NEW s \in Server, s.names.quorum <= Cardinality(s.names.who), Becomes(m, s)
  PROVE  ServersTyped'
<1>1. \A n \in Members : server'[n] = IF n = m THEN s ELSE server[n]
  BY DEF ServersTyped, Becomes
<1>2. server' \in [Members -> Server]
  BY DEF ServersTyped, Becomes
<1> QED
  BY <1>1, <1>2 DEF ServersTyped

\* What is left alone keeps its type.
LEMMA Untouched ==
  /\ ServersTyped /\ UNCHANGED server => ServersTyped'
  /\ TickTyped /\ UNCHANGED watcherVars => TickTyped'
  /\ OpTyped /\ UNCHANGED <<op, overlapped, aborted>> => OpTyped'
  /\ WritesTyped /\ UNCHANGED <<pending, written, synced>> => WritesTyped'
  /\ FaultsTyped /\ UNCHANGED faults => FaultsTyped'
<1>1. ServersTyped /\ UNCHANGED server => ServersTyped'
  BY DEF ServersTyped
<1>2. TickTyped /\ UNCHANGED watcherVars => TickTyped'
  BY DEF TickTyped, watcherVars
<1>3. OpTyped /\ UNCHANGED <<op, overlapped, aborted>> => OpTyped'
  BY DEF OpTyped, OpNamed
<1>4. WritesTyped /\ UNCHANGED <<pending, written, synced>> => WritesTyped'
  BY DEF WritesTyped
<1>5. FaultsTyped /\ UNCHANGED faults => FaultsTyped'
  BY DEF FaultsTyped
<1> QED
  BY <1>1, <1>2, <1>3, <1>4, <1>5

LEMMA HappensTyped ==
  ASSUME FaultsTyped, NEW fault \in {"crash", "watcher", "switchover", "rejoin"}, Happens(fault)
  PROVE  FaultsTyped'
  BY DEF FaultsTyped, Happens

LEMMA DroppedTyped ==
  ASSUME WritesTyped, NEW m \in Members, pending' = pending \ Dropped(m), UNCHANGED <<written, synced>>
  PROVE  WritesTyped'
  BY DEF WritesTyped

LEMMA PromotedIs ==
  ASSUME NEW s \in Server
  PROVE  /\ Promoted(s) \in Server /\ Promoted(s).names = s.names
         /\ ~Promoted(s).recovery /\ Promoted(s).readonly = s.readonly
<1>1. PICK length \in Nat : length = Len(s.wal)
  BY DEF Server
<1>2. PICK p : p = [s EXCEPT !.recovery = FALSE, !.replayed = length]
  OBVIOUS
<1>3. p \in Server /\ p.names = s.names /\ ~p.recovery /\ p.readonly = s.readonly
  BY <1>2 DEF Server
<1> QED
  BY <1>1, <1>2, <1>3 DEF Promoted

LEMMA FindLiveIs ==
  ASSUME NEW among \in SUBSET Members
  PROVE  /\ FindLivePrimary(among) \in Members \union {Nobody}
         /\ FindLivePrimary(among) # Nobody => FindLivePrimary(among) \in among
<1>1. PICK found : found = {m \in among : Writable(m)}
  OBVIOUS
<1>2. found \in SUBSET Members /\ (found # {} => First(found) \in found)
  BY <1>1, FirstIsOne
<1>3. FindLivePrimary(among) = IF found = {} THEN Nobody ELSE First(found)
  BY <1>1 DEF FindLivePrimary
<1> QED
  BY <1>1, <1>2, <1>3

\* Postgres and its clients.
LEMMA WriteTypes ==
  ASSUME Types, NEW m \in Members, Write(m)
  PROVE  Types'
<1>0. PICK wal, length : wal = Append(server[m].wal, written + 1) /\ length = server[m].replayed + 1
  OBVIOUS
<1>1. PICK s : s = [server[m] EXCEPT !.wal = wal, !.replayed = length]
  OBVIOUS
<1>2. written + 1 \in Writes /\ written + 1 \in 0..MaxWrites
  BY NumbersAssumption DEF Types, WritesTyped, Write, Writes
<1>3. s \in Server /\ s.names = server[m].names
  <2>1. wal \in Seq(Writes) /\ length \in Nat
    BY <1>0, <1>2, ServerFields DEF Types
  <2> QED
    BY <1>1, <2>1, ServerFields DEF Types, Server
<1>4. ServersTyped'
  BY <1>0, <1>1, <1>3, ServersChange, ServerFields DEF Types, Write, Becomes
<1>5. WritesTyped'
  BY <1>2 DEF Types, WritesTyped, Write, historyVars
<1> QED
  BY <1>4, <1>5, Untouched DEF Types, Write, historyVars

LEMMA CommitTypes ==
  ASSUME Types, NEW m \in Members, NEW w \in Writes, Commit(w, m)
  PROVE  Types'
<1>1. WritesTyped'
  BY DEF Types, WritesTyped, Commit
<1> QED
  BY <1>1, Untouched DEF Types, Commit

LEMMA ReplicateTypes ==
  ASSUME Types, NEW m \in Members, NEW s \in Members, Replicate(s, m)
  PROVE  Types'
<1>1. PICK x : x = server[m].wal[Len(server[s].wal) + 1]
  OBVIOUS
<1>2. x \in Writes
  <2>1. /\ server[m].wal \in Seq(Writes) /\ Len(server[s].wal) \in Nat /\ Len(server[m].wal) \in Nat
        /\ Len(server[s].wal) < Len(server[m].wal)
    BY ServerFields DEF Types, Replicate
  <2> QED
    BY <1>1, <2>1
<1>3. PICK wal, r : wal = Append(server[s].wal, x) /\ r = [server[s] EXCEPT !.wal = wal]
  OBVIOUS
<1>4. r \in Server /\ r.names = server[s].names
  <2>1. wal \in Seq(Writes)
    BY <1>2, <1>3, ServerFields DEF Types
  <2> QED
    BY <1>3, <2>1, ServerFields DEF Types, Server
<1>5. ServersTyped'
  BY <1>1, <1>3, <1>4, ServersChange, ServerFields DEF Types, Replicate, Becomes
<1> QED
  BY <1>5, Untouched DEF Types, Replicate, historyVars

LEMMA ReplayTypes ==
  ASSUME Types, NEW m \in Members, Replay(m)
  PROVE  Types'
<1>1. PICK s : s = [server[m] EXCEPT !.replayed = @ + 1]
  OBVIOUS
<1>2. s \in Server /\ s.names = server[m].names
  BY <1>1, ServerFields DEF Types, Server
<1>3. ServersTyped'
  BY <1>1, <1>2, ServersChange, ServerFields DEF Types, Replay, Becomes
<1> QED
  BY <1>3, Untouched DEF Types, Replay, historyVars

LEMMA CrashTypes ==
  ASSUME Types, NEW m \in Members, Crash(m)
  PROVE  Types'
<1>1. PICK s : s = [server[m] EXCEPT !.up = FALSE]
  OBVIOUS
<1>2. s \in Server /\ s.names = server[m].names
  BY <1>1, ServerFields DEF Types, Server
<1>3. ServersTyped'
  BY <1>1, <1>2, ServersChange, ServerFields DEF Types, Crash, Becomes
<1> QED
  BY <1>3, Untouched, HappensTyped, DroppedTyped DEF Types, Crash, historyVars

LEMMA RestartTypes ==
  ASSUME Types, NEW m \in Members, Restart(m)
  PROVE  Types'
<1>1. PICK s : s = [server[m] EXCEPT !.up = TRUE]
  OBVIOUS
<1>2. s \in Server /\ s.names = server[m].names
  BY <1>1, ServerFields DEF Types, Server
<1>3. ServersTyped'
  BY <1>1, <1>2, ServersChange, ServerFields DEF Types, Restart, Becomes
<1> QED
  BY <1>3, Untouched DEF Types, Restart, historyVars

\* The watcher.
LEMMA ProbeTypes ==
  ASSUME Types, Probe
  PROVE  Types'
<1>1. PICK m : m = Order[probed + 1]
  OBVIOUS
<1>2. m \in Members /\ probed + 1 \in 0..Len(Order)
  BY <1>1, Places DEF Types, TickTyped, Probe
<1>3. PICK s : s = server[m]
  OBVIOUS
<1>4. PICK seen : seen = IF s.up THEN [up |-> TRUE, recovery |-> s.recovery, fenced |-> s.readonly,
                                       lsn |-> s.replayed, follows |-> s.follows]
                                 ELSE Down
  OBVIOUS
<1>5. seen \in Status
  BY <1>2, <1>3, <1>4, ServerFields DEF Types, Status, Down
<1>6. live' = [live EXCEPT ![m] = seen] /\ probed' = probed + 1 /\ UNCHANGED <<calls, statePrimary, downFor, cooling>>
  BY <1>1, <1>3, <1>4 DEF Probe
<1>7. TickTyped'
  BY <1>2, <1>5, <1>6 DEF Types, TickTyped
<1> QED
  BY <1>7, Untouched DEF Types, Probe, historyVars

LEMMA ClockTypes ==
  ASSUME TickTyped, Clock
  PROVE  downFor' \in [Members -> 0..(DownAfter + 1)] /\ cooling' \in 0..DownAfter
<1>1. \A m \in Members : downFor[m] \in 0..(DownAfter + 1)
  BY DEF TickTyped
<1>2. \A m \in Members :
        (IF live[m].up THEN 0 ELSE IF downFor[m] > DownAfter THEN downFor[m] ELSE downFor[m] + 1) \in 0..(DownAfter + 1)
  BY <1>1, NumbersAssumption
<1>3. downFor' \in [Members -> 0..(DownAfter + 1)]
  BY <1>2 DEF Clock
<1>4. cooling' \in 0..DownAfter
  BY NumbersAssumption DEF Clock, TickTyped
<1> QED
  BY <1>3, <1>4

LEMMA KeepIs ==
  ASSUME Types, Primaries # {}
  PROVE  Keep \in Primaries /\ Keep \in Members
<1>1. Primaries \in SUBSET Members
  BY DEF Primaries
<1> QED
  BY <1>1, FirstIsOne DEF Keep

\* The calls of a tick with a primary: the fences, the repoints, and last its configuration.
LEMMA KeepCalls ==
  ASSUME Types, DecideKeep
  PROVE  /\ calls' \in Seq(Call) /\ calls' # <<>>
         /\ calls'[Len(calls')].op = "configure" /\ calls'[Len(calls')].on = Keep
         /\ \A i \in DOMAIN calls' : calls'[i].op # "promote" /\ (calls'[i].op = "fence" => calls'[i].on \in Primaries \ {Keep})
<1>1. Keep \in Members /\ Primaries \ {Keep} \in SUBSET Members /\ Strays \in SUBSET Members /\ {Keep} \in SUBSET Members
  BY KeepIs DEF DecideKeep, Primaries, Strays, Candidates
<1>2. PICK fences, repoints, last : /\ fences = Calls("fence", Primaries \ {Keep})
                                   /\ repoints = Calls("repoint", Strays) /\ last = Calls("configure", {Keep})
  OBVIOUS
<1>3. /\ fences \in Seq(Call) /\ repoints \in Seq(Call) /\ last \in Seq(Call)
      /\ \A k \in 1..Len(fences) : fences[k].op = "fence" /\ fences[k].on \in Primaries \ {Keep}
      /\ \A k \in 1..Len(repoints) : repoints[k].op = "repoint"
      /\ Len(last) = 1 /\ last[1].op = "configure" /\ last[1].on = Keep
  <2>1. Cardinality({Keep}) = 1
    BY FS_Singleton
  <2>2. 1 \in 1..Cardinality({Keep})
    BY <2>1
  <2>3. fences \in Seq(Call) /\ \A k \in 1..Len(fences) : fences[k].op = "fence" /\ fences[k].on \in Primaries \ {Keep}
    BY <1>1, <1>2, CallsAre
  <2>4. repoints \in Seq(Call) /\ \A k \in 1..Len(repoints) : repoints[k].op = "repoint"
    BY <1>1, <1>2, CallsAre
  <2>5. last \in Seq(Call) /\ Len(last) = 1 /\ last[1].op = "configure" /\ last[1].on \in {Keep}
    <3>1. /\ last \in Seq(Call) /\ Len(last) = Cardinality({Keep})
          /\ \A k \in 1..Cardinality({Keep}) : last[k].op = "configure" /\ last[k].on \in {Keep}
      BY <1>1, <1>2, CallsAre
    <3> QED
      BY <2>1, <2>2, <3>1
  <2> QED
    BY <2>3, <2>4, <2>5
<1>4. calls' = fences \o repoints \o last
  BY <1>2 DEF DecideKeep
<1>5. PICK a \in Nat, b \in Nat : a = Len(fences) /\ b = Len(repoints)
  BY <1>3
<1>6. /\ calls' \in Seq(Call) /\ Len(calls') = a + b + 1
      /\ \A i \in 1..(a + b + 1) : calls'[i] = IF i <= a THEN fences[i] ELSE IF i <= a + b THEN repoints[i - a] ELSE last[i - (a + b)]
  <2>1. PICK both : both = fences \o repoints
    OBVIOUS
  <2>2. /\ both \in Seq(Call) /\ Len(both) = a + b
        /\ \A i \in 1..(a + b) : both[i] = IF i <= a THEN fences[i] ELSE repoints[i - a]
    BY <1>3, <1>5, <2>1, Joined
  <2>3. calls' = both \o last
    BY <1>4, <2>1
  <2>4. /\ calls' \in Seq(Call) /\ Len(calls') = a + b + 1
        /\ \A i \in 1..(a + b + 1) : calls'[i] = IF i <= a + b THEN both[i] ELSE last[i - (a + b)]
    <3>1. PICK c \in Nat : c = a + b /\ c = Len(both)
      BY <2>2
    <3>2. PICK all : all = both \o last
      OBVIOUS
    <3>3. /\ all \in Seq(Call) /\ Len(all) = c + 1
          /\ \A i \in 1..(c + 1) : all[i] = IF i <= c THEN both[i] ELSE last[i - c]
      <4>1. /\ all \in Seq(Call) /\ Len(all) = Len(both) + Len(last)
            /\ \A i \in 1..(Len(both) + Len(last)) :
                 all[i] = IF i <= Len(both) THEN both[i] ELSE last[i - Len(both)]
        <5>1. both \in Seq(Call) /\ last \in Seq(Call)
          BY <1>3, <2>2
        <5> QED
          BY <3>2, <5>1, Joined
      <4>2. Len(last) = 1
        BY <1>3
      <4> QED
        BY <3>1, <4>1, <4>2
    <3> QED
      BY <2>3, <3>1, <3>2, <3>3
  <2>5. ASSUME NEW i \in 1..(a + b + 1)
        PROVE  calls'[i] = IF i <= a THEN fences[i] ELSE IF i <= a + b THEN repoints[i - a] ELSE last[i - (a + b)]
    <3>1. CASE i <= a + b
      <4>1. i \in 1..(a + b)
        BY <3>1
      <4> QED
        BY <2>2, <2>4, <4>1
    <3>2. CASE i > a + b
      BY <2>4, <3>2
    <3> QED
      BY <3>1, <3>2
  <2> QED
    BY <2>4, <2>5
<1>7. calls'[a + b + 1] = last[1]
  BY <1>6
<1>8. ASSUME NEW i \in 1..(a + b + 1)
      PROVE  calls'[i].op # "promote" /\ (calls'[i].op = "fence" => calls'[i].on \in Primaries \ {Keep})
  <2>1. CASE i <= a
    BY <1>3, <1>5, <1>6, <2>1
  <2>2. CASE i > a /\ i <= a + b
    <3>1. i - a \in 1..b /\ calls'[i] = repoints[i - a]
      BY <1>6, <2>2
    <3> QED
      BY <1>3, <1>5, <3>1
  <2>3. CASE i = a + b + 1
    BY <1>3, <1>7, <2>3
  <2> QED
    BY <2>1, <2>2, <2>3
<1>9. DOMAIN calls' = 1..(a + b + 1) /\ calls' # <<>>
  BY <1>6
<1> QED
  BY <1>3, <1>6, <1>7, <1>8, <1>9

LEMMA PromoteCalls ==
  ASSUME Types, DecidePromote
  PROVE  /\ calls' \in Seq(Call)
         /\ \A i \in DOMAIN calls' :
              calls'[i].op # "fence" /\ (calls'[i].op = "promote" => calls'[i].on \in Members /\ Winner(calls'[i].on))
<1>1. PICK winner \in Members : Winner(winner) /\ calls' = Calls("promote", {winner}) \o Calls("repoint", Candidates \ {winner})
  BY DEF DecidePromote
<1>2. PICK first, rest : first = Calls("promote", {winner}) /\ rest = Calls("repoint", Candidates \ {winner})
  OBVIOUS
<1>3. {winner} \in SUBSET Members /\ Candidates \ {winner} \in SUBSET Members
  BY DEF Candidates
<1>4. first \in Seq(Call) /\ \A k \in 1..Len(first) : first[k].op = "promote" /\ first[k].on \in {winner}
  BY <1>2, <1>3, CallsAre
<1>5. rest \in Seq(Call) /\ \A k \in 1..Len(rest) : rest[k].op = "repoint"
  BY <1>2, <1>3, CallsAre
<1>6. PICK a \in Nat, b \in Nat : a = Len(first) /\ b = Len(rest)
  BY <1>4, <1>5
<1>7. /\ calls' \in Seq(Call) /\ DOMAIN calls' = 1..(a + b)
      /\ \A i \in 1..(a + b) : calls'[i] = IF i <= a THEN first[i] ELSE rest[i - a]
  <2>1. calls' = first \o rest
    BY <1>1, <1>2
  <2>2. /\ first \o rest \in Seq(Call) /\ Len(first \o rest) = a + b
        /\ \A i \in 1..(a + b) : (first \o rest)[i] = IF i <= a THEN first[i] ELSE rest[i - a]
    BY <1>4, <1>5, <1>6, Joined
  <2>3. calls' \in Seq(Call) /\ Len(calls') = a + b
    BY <2>1, <2>2
  <2> QED
    BY <2>1, <2>2, <2>3
<1>8. ASSUME NEW i \in 1..(a + b)
      PROVE  calls'[i].op # "fence" /\ (calls'[i].op = "promote" => calls'[i].on = winner)
  <2>1. CASE i <= a
    BY <1>4, <1>6, <1>7, <2>1
  <2>2. CASE i > a
    <3>1. i - a \in 1..b /\ calls'[i] = rest[i - a]
      BY <1>7, <2>2
    <3> QED
      BY <1>5, <1>6, <3>1
  <2> QED
    BY <2>1, <2>2
<1> QED
  BY <1>1, <1>7, <1>8

LEMMA DecideTypes ==
  ASSUME Types, DecideKeep \/ DecidePromote \/ DecideWait
  PROVE  Types'
<1>1. /\ ServersTyped' /\ OpTyped' /\ WritesTyped' /\ FaultsTyped'
  BY Untouched DEF Types, DecideKeep, DecidePromote, DecideWait, historyVars
<1>2. downFor' \in [Members -> 0..(DownAfter + 1)] /\ cooling' \in 0..DownAfter
  BY ClockTypes DEF Types, DecideKeep, DecidePromote, DecideWait
<1>3. CASE DecideKeep
  <2>1. statePrimary' \in Members /\ calls' \in Seq(Call) /\ UNCHANGED <<live, probed>>
    BY <1>3, KeepIs, KeepCalls DEF DecideKeep
  <2> QED
    BY <1>1, <1>2, <2>1 DEF Types, TickTyped
<1>4. CASE DecidePromote
  <2>1. calls' \in Seq(Call) /\ UNCHANGED <<live, probed, statePrimary>>
    BY <1>4, PromoteCalls DEF DecidePromote
  <2> QED
    BY <1>1, <1>2, <2>1 DEF Types, TickTyped
<1>5. CASE DecideWait
  <2>1. calls' \in Seq(Call) /\ probed' \in 0..Len(Order) /\ live' \in [Members -> Status] /\ UNCHANGED statePrimary
    BY <1>5, Places DEF DecideWait, TickEnds, Down, Status
  <2> QED
    BY <1>1, <1>2, <2>1 DEF Types, TickTyped
<1> QED
  BY <1>3, <1>4, <1>5

\* The calls of a tick.
LEMMA CalledTyped ==
  ASSUME TickTyped, calls # <<>>, NextCall \/ TickEnds, UNCHANGED downFor,
         statePrimary' \in Members \union {Nobody}, cooling' \in 0..DownAfter
  PROVE  TickTyped'
<1>1. calls' \in Seq(Call) /\ probed' \in 0..Len(Order) /\ live' \in [Members -> Status]
  BY NextCallTyped
<1> QED
  BY <1>1 DEF TickTyped

LEMMA CallFailsTypes ==
  ASSUME Types, NEW what, CallFails(what)
  PROVE  Types'
<1>1. calls # <<>> /\ NextCall /\ UNCHANGED <<downFor, statePrimary, cooling>>
  BY DEF CallFails, Calling
<1>2. TickTyped'
  BY <1>1, CalledTyped DEF Types, TickTyped
<1> QED
  BY <1>2, Untouched DEF Types, CallFails, historyVars

LEMMA FenceTypes ==
  ASSUME Types, Fence
  PROVE  Types'
<1>1. calls # <<>> /\ NextCall /\ UNCHANGED <<downFor, statePrimary, cooling>>
  BY DEF Fence, Calling
<1>2. TickTyped'
  BY <1>1, CalledTyped DEF Types, TickTyped
<1>3. PICK m \in Members : m = Head(calls).on
  BY <1>1, HeadIs DEF Types
<1>4. PICK s : s = [server[m] EXCEPT !.readonly = TRUE]
  OBVIOUS
<1>5. s \in Server /\ s.names = server[m].names
  BY <1>4, ServerFields DEF Types, Server
<1>6. ServersTyped'
  BY <1>3, <1>4, <1>5, ServersChange, ServerFields DEF Types, Fence, Becomes
<1> QED
  BY <1>2, <1>6, Untouched DEF Types, Fence, historyVars

LEMMA RepointTypes ==
  ASSUME Types, Repoint
  PROVE  Types'
<1>1. calls # <<>> /\ NextCall /\ UNCHANGED <<downFor, statePrimary, cooling>>
  BY DEF Repoint, Calling
<1>2. TickTyped'
  BY <1>1, CalledTyped DEF Types, TickTyped
<1>3. PICK m \in Members : m = Head(calls).on
  BY <1>1, HeadIs DEF Types
<1>4. PICK s : s = [server[m] EXCEPT !.follows = statePrimary]
  OBVIOUS
<1>5. s \in Server /\ s.names = server[m].names
  BY <1>4, ServerFields DEF Types, TickTyped, Server
<1>6. ServersTyped'
  BY <1>3, <1>4, <1>5, ServersChange, ServerFields DEF Types, Repoint, Becomes
<1> QED
  BY <1>2, <1>6, Untouched DEF Types, Repoint, historyVars

LEMMA ApplyPrimaryConfigTypes ==
  ASSUME Types, ApplyPrimaryConfig
  PROVE  Types'
<1>1. calls # <<>> /\ NextCall /\ UNCHANGED <<downFor, statePrimary, cooling>>
  BY DEF ApplyPrimaryConfig, Calling
<1>2. TickTyped'
  BY <1>1, CalledTyped DEF Types, TickTyped
<1>3. PICK m \in Members : m = Head(calls).on
  BY <1>1, HeadIs DEF Types
<1>4. PICK names : names = SyncStandbyNames(m)
  OBVIOUS
<1>5. names \in Names /\ names.quorum <= Cardinality(names.who)
  BY <1>4, NamesAre DEF Types
<1>6. PICK s : s = [server[m] EXCEPT !.names = names]
  OBVIOUS
<1>7. s \in Server /\ s.names = names
  BY <1>5, <1>6, ServerFields DEF Types, Server
<1>8. ServersTyped'
  BY <1>3, <1>4, <1>5, <1>6, <1>7, ServersChange DEF Types, ApplyPrimaryConfig, Becomes
<1> QED
  BY <1>2, <1>8, Untouched DEF Types, ApplyPrimaryConfig, historyVars

LEMMA PromoteTypes ==
  ASSUME Types, Promote
  PROVE  Types'
<1>1. calls # <<>> /\ NextCall /\ UNCHANGED downFor /\ cooling' = DownAfter
  BY DEF Promote, Calling
<1>2. PICK m \in Members : m = Head(calls).on
  BY <1>1, HeadIs DEF Types
<1>3. statePrimary' = m
  BY <1>2 DEF Promote
<1>4. TickTyped'
  BY <1>1, <1>3, CalledTyped, NumbersAssumption DEF Types
<1>5. PICK r : r = [server[m] EXCEPT !.readonly = FALSE]
  OBVIOUS
<1>6. r \in Server /\ r.names = server[m].names
  BY <1>5, ServerFields DEF Types, Server
<1>7. PICK s : s = Promoted(r)
  OBVIOUS
<1>8. s \in Server /\ s.names = server[m].names
  BY <1>6, <1>7, PromotedIs
<1>9. server' = [server EXCEPT ![m] = s]
  BY <1>2, <1>5, <1>7 DEF Promote
<1>10. ServersTyped'
  BY <1>8, <1>9, ServersChange, ServerFields DEF Types, Becomes
<1> QED
  BY <1>4, <1>10, Untouched DEF Types, Promote, historyVars

LEMMA PromoteFailsTypes ==
  ASSUME Types, PromoteFails
  PROVE  Types'
<1>1. calls # <<>> /\ TickEnds /\ UNCHANGED <<downFor, statePrimary, cooling>>
  BY DEF PromoteFails, Calling
<1>2. TickTyped'
  BY <1>1, CalledTyped DEF Types, TickTyped
<1>3. PICK m \in Members : m = Head(calls).on
  BY <1>1, HeadIs DEF Types
<1>4. PICK s : s = [server[m] EXCEPT !.readonly = FALSE]
  OBVIOUS
<1>5. s \in Server /\ s.names = server[m].names
  BY <1>4, ServerFields DEF Types, Server
<1>6. UNCHANGED server \/ server' = [server EXCEPT ![m] = s]
  BY <1>3, <1>4 DEF PromoteFails
<1>7. ServersTyped'
  BY <1>5, <1>6, ServersChange, ServerFields, Untouched DEF Types, Becomes
<1> QED
  BY <1>2, <1>7, Untouched DEF Types, PromoteFails, historyVars

LEMMA WatcherRestartTypes ==
  ASSUME Types, WatcherRestart
  PROVE  Types'
<1>1. calls' \in Seq(Call) /\ probed' \in 0..Len(Order) /\ live' \in [Members -> Status]
  BY Places DEF WatcherRestart, TickEnds, Down, Status
<1>2. TickTyped'
  BY <1>1, NumbersAssumption DEF WatcherRestart, TickTyped
<1>3. FaultsTyped'
  BY HappensTyped DEF Types, WatcherRestart
<1> QED
  BY <1>2, <1>3, Untouched DEF Types, WatcherRestart, historyVars

\* The operator.
LEMMA StartSwitchoverTypes ==
  ASSUME Types, NEW target \in Members, StartSwitchover(target)
  PROVE  Types'
<1>1. PICK old : old = FindLivePrimary(Members)
  OBVIOUS
<1>2. old \in Members \union {Nobody}
  BY <1>1, FindLiveIs
<1>3. op' = [stage |-> IF old = Nobody THEN "promote" ELSE "fence", target |-> target, old |-> old]
  BY <1>1 DEF StartSwitchover
<1>4. UNCHANGED <<overlapped, aborted>> /\ UNCHANGED watcherVars /\ UNCHANGED <<server, pending, written, synced>>
  BY DEF StartSwitchover, historyVars
<1>5. OpTyped'
  BY <1>2, <1>3, <1>4 DEF Types, OpTyped, OpNamed, Op
<1>6. FaultsTyped'
  BY HappensTyped DEF Types, StartSwitchover
<1> QED
  BY <1>4, <1>5, <1>6, Untouched DEF Types

LEMMA FenceOldPrimaryTypes ==
  ASSUME Types, FenceOldPrimary
  PROVE  Types'
<1>1. PICK m \in Members : m = op.old
  BY DEF Types, OpTyped, OpNamed, FenceOldPrimary
<1>2. PICK s : s = [server[m] EXCEPT !.readonly = TRUE]
  OBVIOUS
<1>3. s \in Server /\ s.names = server[m].names
  BY <1>2, ServerFields DEF Types, Server
<1>4. UNCHANGED server \/ server' = [server EXCEPT ![m] = s]
  BY <1>1, <1>2 DEF FenceOldPrimary
<1>5. ServersTyped'
  BY <1>3, <1>4, ServersChange, ServerFields, Untouched DEF Types, Becomes
<1>6. op' = [op EXCEPT !.stage = "promote"] \/ op' = NoOp
  BY DEF FenceOldPrimary
<1>7. op' \in Op /\ OpNamed'
  BY <1>6 DEF Types, OpTyped, OpNamed, Op, NoOp, FenceOldPrimary
<1>8. live[m].up \in BOOLEAN
  BY DEF Types, TickTyped, Status
<1>9. {overlapped', aborted'} \subseteq BOOLEAN
  BY <1>1, <1>8 DEF Types, OpTyped, FenceOldPrimary
<1>10. OpTyped'
  BY <1>7, <1>9 DEF OpTyped
<1> QED
  BY <1>5, <1>10, Untouched DEF Types, FenceOldPrimary

LEMMA PromoteTargetTypes ==
  ASSUME Types, PromoteTarget
  PROVE  Types'
<1>1. PICK m \in Members : m = op.target
  BY DEF Types, OpTyped, OpNamed, PromoteTarget
<1>2. PICK s : s = Promoted(server[m])
  OBVIOUS
<1>3. s \in Server /\ s.names = server[m].names
  BY <1>2, ServerFields, PromotedIs DEF Types
<1>4. server' = [server EXCEPT ![m] = s]
  BY <1>1, <1>2 DEF PromoteTarget
<1>5. ServersTyped'
  BY <1>3, <1>4, ServersChange, ServerFields DEF Types, Becomes
<1>6. OpTyped'
  BY DEF Types, OpTyped, OpNamed, Op, NoOp, PromoteTarget, historyVars
<1> QED
  BY <1>5, <1>6, Untouched DEF Types, PromoteTarget, historyVars

LEMMA AbortSwitchoverTypes ==
  ASSUME Types, AbortSwitchover
  PROVE  Types'
<1>1. OpTyped'
  BY DEF Types, OpTyped, OpNamed, Op, NoOp, AbortSwitchover
<1> QED
  BY <1>1, Untouched DEF Types, AbortSwitchover

LEMMA StartRejoinTypes ==
  ASSUME Types, NEW m \in Members, StartRejoin(m)
  PROVE  Types'
<1>1. PICK primary \in Members : primary = FindLivePrimary(Members \ {m})
  BY FindLiveIs DEF StartRejoin
<1>2. PICK s : s = [up |-> FALSE, recovery |-> TRUE, readonly |-> FALSE, follows |-> primary,
                    names |-> NoNames, wal |-> <<>>, replayed |-> 0, cloneFrom |-> primary]
  OBVIOUS
<1>3. s \in Server /\ s.names = NoNames
  BY <1>2, NoNamesAre DEF Server
<1>4. ServersTyped'
  BY <1>1, <1>2, <1>3, NoNamesAre, ServersChange DEF Types, StartRejoin, Becomes
<1> QED
  BY <1>4, Untouched, HappensTyped, DroppedTyped DEF Types, StartRejoin, historyVars

LEMMA BaseBackupTypes ==
  ASSUME Types, NEW m \in Members, BaseBackup(m)
  PROVE  Types'
<1>1. PICK source \in Members : source = server[m].cloneFrom
  BY ServerFields DEF Types, BaseBackup
<1>2. PICK length \in Nat : length = Len(server[source].wal)
  BY ServerFields DEF Types
<1>3. PICK s : s = [server[m] EXCEPT !.up = TRUE, !.names = server[source].names, !.wal = server[source].wal,
                                     !.replayed = length, !.cloneFrom = Nobody]
  OBVIOUS
<1>4. s \in Server /\ s.names = server[source].names
  BY <1>3, ServerFields DEF Types, Server
<1>5. server' = [server EXCEPT ![m] = s]
  BY <1>1, <1>2, <1>3, ServerFields DEF Types, ServersTyped, BaseBackup
<1>6. ServersTyped'
  BY <1>4, <1>5, ServersChange, ServerFields DEF Types, Becomes
<1> QED
  BY <1>6, Untouched DEF Types, BaseBackup, historyVars

-----------------------------------------------------------------------------
\* Every step keeps the types.
LEMMA TypesStep ==
  ASSUME Types, [Next]_vars
  PROVE  Types'
<1>1. CASE UNCHANGED vars
  BY <1>1, Untouched DEF Types, vars, watcherVars, historyVars
<1>2. CASE WatcherStep
  BY <1>2, ProbeTypes, DecideTypes, CallFailsTypes, FenceTypes, RepointTypes, ApplyPrimaryConfigTypes,
     PromoteTypes, PromoteFailsTypes DEF WatcherStep
<1>3. CASE WatcherRestart \/ FenceOldPrimary \/ PromoteTarget \/ AbortSwitchover
  BY <1>3, WatcherRestartTypes, FenceOldPrimaryTypes, PromoteTargetTypes, AbortSwitchoverTypes
<1>4. ASSUME NEW m \in Members, Write(m) \/ Replay(m) \/ Crash(m) \/ Restart(m)
      PROVE  Types'
  BY <1>4, WriteTypes, ReplayTypes, CrashTypes, RestartTypes
<1>5. ASSUME NEW m \in Members, StartSwitchover(m) \/ StartRejoin(m) \/ BaseBackup(m)
      PROVE  Types'
  BY <1>5, StartSwitchoverTypes, StartRejoinTypes, BaseBackupTypes
<1>6. ASSUME NEW m \in Members, NEW w \in Writes, Commit(w, m)
      PROVE  Types'
  BY <1>6, CommitTypes
<1>7. ASSUME NEW m \in Members, NEW s \in Members, Replicate(s, m)
      PROVE  Types'
  BY <1>7, ReplicateTypes
<1> QED
  BY <1>1, <1>2, <1>3, <1>4, <1>5, <1>6, <1>7 DEF Next

LEMMA TypesAlways == Spec => []Types
  BY InitTypes, TypesStep, PTL DEF Spec

\* Every variable of the failover has its type, in every cluster: a sequence of calls always
\* names members, a switchover under way names its target, and no primary is ever configured to
\* wait for more standbys than it names.
THEOREM FailoverTypeCorrect == Spec => []TypeOK
<1>1. Types => TypeOK
  BY TypesAre
<1> QED
  BY <1>1, TypesAlways, PTL

-----------------------------------------------------------------------------
(* The watcher never fences the last primary. *)

\* The member that a tick keeps as the primary: the last of its calls configures it.
Kept == calls[Len(calls)].on

\* What the probes saw as a primary still is one, and so is the member the tick decided to keep
\* for as long as another is to be fenced, unless a switchover overlapped.
SeenIsPrimary == calls = <<>> /\ ~overlapped => \A m \in Members : SeenPrimary(m) => IsPrimary(m)
KeptIsPrimary ==
  \A i \in DOMAIN calls : calls[i].op = "fence" =>
    /\ calls[Len(calls)].op = "configure" /\ calls[i].on # Kept
    /\ SeenPrimary(Kept) /\ (~overlapped => IsPrimary(Kept))
Fencing == SeenIsPrimary /\ KeptIsPrimary

\* No primary is lost in a step, except one that a switchover fences under a tick's eyes.
SeenStay == \A m \in Members : SeenPrimary(m) /\ IsPrimary(m) => IsPrimary(m)' \/ overlapped'
\* No primary is lost in a step, except one the watcher fences.
OthersStay == \A m \in Members : IsPrimary(m) /\ ~(Calling("fence") /\ Head(calls).on = m) => IsPrimary(m)'

LEMMA CallsInDomain ==
  ASSUME TickTyped, NEW i \in DOMAIN calls
  PROVE  /\ i \in 1..Len(calls) /\ Len(calls) \in DOMAIN calls /\ Len(calls) \in Nat \ {0}
         /\ calls[i].on \in Members /\ Kept \in Members
<1>1. i \in 1..Len(calls) /\ Len(calls) \in DOMAIN calls /\ Len(calls) \in Nat \ {0}
  BY DEF TickTyped
<1>2. calls[i] \in Call /\ calls[Len(calls)] \in Call
  BY <1>1 DEF TickTyped
<1> QED
  BY <1>1, <1>2 DEF Call, Kept

\* A step of postgres, its clients or the operator.
LEMMA OutsideTheWatcher ==
  ASSUME Types, Fencing, UNCHANGED <<live, calls>>, overlapped => overlapped', SeenStay
  PROVE  Fencing'
<1>1. SeenIsPrimary'
  BY DEF Fencing, SeenIsPrimary, SeenStay, SeenPrimary
<1>2. ASSUME NEW i \in DOMAIN calls, calls[i].op = "fence"
      PROVE  SeenPrimary(Kept) /\ (~overlapped' => IsPrimary(Kept)')
  <2>1. Kept \in Members /\ SeenPrimary(Kept) /\ (~overlapped => IsPrimary(Kept))
    BY <1>2, CallsInDomain DEF Types, Fencing, KeptIsPrimary
  <2>2. PICK k \in Members : k = Kept
    BY <2>1
  <2>3. Kept' = k
    BY <2>2 DEF Kept
  <2>4. ~overlapped' => IsPrimary(k)'
    BY <2>1, <2>2 DEF SeenStay
  <2>5. ~overlapped' => IsPrimary(Kept)'
    BY <2>3, <2>4 DEF IsPrimary
  <2> QED
    BY <2>1, <2>5
<1>3. KeptIsPrimary'
  BY <1>2 DEF Fencing, KeptIsPrimary, SeenPrimary, Kept
<1> QED
  BY <1>1, <1>3 DEF Fencing

LEMMA TickOver ==
  ASSUME TickEnds
  PROVE  Fencing'
<1>1. SeenIsPrimary'
  BY DEF TickEnds, SeenIsPrimary, SeenPrimary, Down
<1>2. KeptIsPrimary'
  BY DEF TickEnds, KeptIsPrimary
<1> QED
  BY <1>1, <1>2 DEF Fencing

\* One call of the tick is made.
LEMMA CallMade ==
  ASSUME Types, Fencing, calls # <<>>, NextCall, UNCHANGED overlapped, OthersStay
  PROVE  Fencing'
<1>1. CASE Len(calls) = 1
  BY <1>1, TickOver DEF NextCall
<1>2. CASE Len(calls) # 1
  <2>1. calls' = Tail(calls) /\ UNCHANGED live
    BY <1>2 DEF NextCall
  <2>2. PICK n \in Nat : n = Len(calls) /\ n > 1
    BY <1>2, HeadIs DEF Types
  <2>3. Len(calls') = n - 1 /\ DOMAIN calls' = 1..(n - 1) /\ \A i \in 1..(n - 1) : calls'[i] = calls[i + 1]
    BY <2>1, <2>2 DEF Types, TickTyped
  <2>4. calls' # <<>> /\ calls'[n - 1] = calls[n] /\ 1 \in DOMAIN calls /\ DOMAIN calls = 1..n
    BY <2>2, <2>3 DEF Types, TickTyped
  <2>5. SeenIsPrimary'
    BY <2>4 DEF SeenIsPrimary
  <2>6. PICK k : k = calls[n].on /\ k = Kept /\ k = calls'[n - 1].on
    BY <2>2, <2>4 DEF Kept
  <2>7. Kept' = k
    BY <2>3, <2>6 DEF Kept
  <2>8. ASSUME NEW i \in 1..(n - 1), calls'[i].op = "fence"
        PROVE  /\ calls'[n - 1].op = "configure" /\ calls'[i].on # k
               /\ SeenPrimary(k) /\ (~overlapped => IsPrimary(k)')
    <3>1. i + 1 \in DOMAIN calls /\ calls[i + 1].op = "fence"
      BY <2>2, <2>3, <2>4, <2>8
    <3>2. calls[n].op = "configure" /\ calls[i + 1].on # k /\ SeenPrimary(k) /\ (~overlapped => IsPrimary(k))
      BY <2>2, <2>6, <3>1 DEF Fencing, KeptIsPrimary
    <3>3. k \in Members
      BY <2>6, <3>1, CallsInDomain DEF Types
    <3>4. ~(Calling("fence") /\ Head(calls).on = k)
      <4>1. Head(calls) = calls[1]
        BY HeadIs DEF Types
      <4>2. calls[1].op = "fence" => calls[1].on # k
        BY <2>2, <2>4, <2>6 DEF Fencing, KeptIsPrimary
      <4> QED
        BY <4>1, <4>2 DEF Calling
    <3>5. ~overlapped => IsPrimary(k)'
      BY <3>2, <3>3, <3>4 DEF OthersStay
    <3> QED
      BY <2>3, <2>4, <3>2, <3>5
  <2>9. SeenPrimary(k)' <=> SeenPrimary(k)
    BY <2>1 DEF SeenPrimary
  <2>10. \A i \in DOMAIN calls' : calls'[i].op = "fence" =>
           /\ calls'[Len(calls')].op = "configure" /\ calls'[i].on # k
           /\ SeenPrimary(k)' /\ (~overlapped' => IsPrimary(k)')
    BY <2>3, <2>8, <2>9
  <2>11. KeptIsPrimary'
    BY <2>7, <2>10 DEF KeptIsPrimary, SeenPrimary, IsPrimary
  <2> QED
    BY <2>5, <2>11 DEF Fencing
<1> QED
  BY <1>1, <1>2

\* What the steps do to the primaries.
LEMMA PostgresStays ==
  ASSUME Types, NEW m \in Members,
         \/ Write(m) \/ Replay(m) \/ Crash(m) \/ Restart(m) \/ BaseBackup(m)
         \/ \E w \in Writes : Commit(w, m)
         \/ \E s \in Members : Replicate(s, m)
  PROVE  SeenStay /\ UNCHANGED <<live, calls, overlapped>>
<1>1. server \in [Members -> Server]
  BY DEF Types, ServersTyped
<1>2. UNCHANGED <<live, calls, overlapped>>
  BY DEF Write, Replay, Crash, Restart, BaseBackup, Commit, Replicate, watcherVars, historyVars
<1>3. ASSUME NEW k \in Members
      PROVE  server'[k].recovery = server[k].recovery /\ server'[k].readonly = server[k].readonly
  <2>1. CASE Write(m)
    BY <1>1, <2>1 DEF Write, Server
  <2>2. CASE Replay(m) \/ Crash(m) \/ Restart(m)
    BY <1>1, <2>2 DEF Replay, Crash, Restart, Server
  <2>3. CASE BaseBackup(m)
    BY <1>1, <2>3 DEF BaseBackup, Server
  <2>4. CASE \E w \in Writes : Commit(w, m)
    BY <2>4 DEF Commit
  <2>5. CASE \E s \in Members : Replicate(s, m)
    BY <1>1, <2>5 DEF Replicate, Server
  <2> QED
    BY <2>1, <2>2, <2>3, <2>4, <2>5
<1> QED
  BY <1>2, <1>3 DEF SeenStay, IsPrimary

LEMMA OperatorStays ==
  ASSUME Types,
         \/ FenceOldPrimary \/ PromoteTarget \/ AbortSwitchover
         \/ \E m \in Members : StartSwitchover(m) \/ StartRejoin(m)
  PROVE  SeenStay /\ UNCHANGED <<live, calls>> /\ (overlapped => overlapped')
<1>1. server \in [Members -> Server]
  BY DEF Types, ServersTyped
<1>2. CASE FenceOldPrimary
  <2>1. PICK old \in Members : old = op.old
    BY <1>2 DEF Types, OpTyped, OpNamed, FenceOldPrimary
  <2>2. \A k \in Members : k # old => server'[k] = server[k]
    BY <1>1, <1>2, <2>1 DEF FenceOldPrimary
  <2>3. live[old].up /\ server'[old] # server[old] => overlapped'
    BY <1>2, <2>1 DEF FenceOldPrimary
  <2> QED
    BY <1>2, <2>2, <2>3 DEF SeenStay, SeenPrimary, IsPrimary, FenceOldPrimary, watcherVars
<1>3. CASE PromoteTarget
  <2>1. PICK m \in Members : m = op.target
    BY <1>3 DEF Types, OpTyped, OpNamed, PromoteTarget
  <2>2. server[m].recovery /\ \A k \in Members : k # m => server'[k] = server[k]
    BY <1>1, <1>3, <2>1 DEF PromoteTarget
  <2> QED
    BY <1>3, <2>2 DEF SeenStay, IsPrimary, PromoteTarget, watcherVars, historyVars
<1>4. CASE AbortSwitchover
  BY <1>4 DEF SeenStay, IsPrimary, AbortSwitchover, watcherVars
<1>5. ASSUME NEW m \in Members, StartSwitchover(m)
      PROVE  SeenStay /\ UNCHANGED <<live, calls>> /\ (overlapped => overlapped')
  BY <1>5 DEF SeenStay, IsPrimary, StartSwitchover, watcherVars, historyVars
<1>6. ASSUME NEW m \in Members, StartRejoin(m)
      PROVE  SeenStay /\ UNCHANGED <<live, calls>> /\ (overlapped => overlapped')
  <2>1. server[m].readonly /\ \A k \in Members : k # m => server'[k] = server[k]
    BY <1>1, <1>6 DEF StartRejoin
  <2> QED
    BY <1>6, <2>1 DEF SeenStay, IsPrimary, StartRejoin, watcherVars, historyVars
<1> QED
  BY <1>2, <1>3, <1>4, <1>5, <1>6

\* The calls of a tick take the role of a primary from nobody but the member they fence.
LEMMA CallsStay ==
  ASSUME Types,
         \/ Fence \/ Repoint \/ ApplyPrimaryConfig \/ Promote
         \/ CallFails("fence") \/ CallFails("repoint") \/ CallFails("configure")
  PROVE  OthersStay /\ calls # <<>> /\ NextCall /\ UNCHANGED overlapped
<1>1. server \in [Members -> Server]
  BY DEF Types, ServersTyped
<1>2. calls # <<>> /\ NextCall /\ UNCHANGED overlapped
  BY DEF Fence, Repoint, ApplyPrimaryConfig, Promote, CallFails, Calling, historyVars
<1>3. PICK m \in Members : m = Head(calls).on
  BY <1>2, HeadIs DEF Types
<1>4. OthersStay
  <2>1. CASE Fence
    BY <1>1, <1>3, <2>1 DEF OthersStay, IsPrimary, Fence
  <2>2. CASE Repoint
    BY <1>1, <1>3, <2>2 DEF OthersStay, IsPrimary, Repoint, Server
  <2>3. CASE ApplyPrimaryConfig
    <3>1. PICK names : names = SyncStandbyNames(m)
      OBVIOUS
    <3>2. server' = [server EXCEPT ![m].names = names]
      BY <1>3, <2>3, <3>1 DEF ApplyPrimaryConfig
    <3> QED
      BY <1>1, <3>2 DEF OthersStay, IsPrimary, Server
  <2>4. CASE Promote
    <3>1. server[m].recovery /\ \A k \in Members : k # m => server'[k] = server[k]
      BY <1>1, <1>3, <2>4 DEF Promote
    <3> QED
      BY <3>1 DEF OthersStay, IsPrimary
  <2>5. CASE CallFails("fence") \/ CallFails("repoint") \/ CallFails("configure")
    BY <2>5 DEF OthersStay, IsPrimary, CallFails
  <2> QED
    BY <2>1, <2>2, <2>3, <2>4, <2>5
<1> QED
  BY <1>2, <1>4

LEMMA ProbeFencing ==
  ASSUME Types, Fencing, Probe
  PROVE  Fencing'
<1>1. PICK m : m = Order[probed + 1]
  OBVIOUS
<1>2. m \in Members
  BY <1>1, Places DEF Types, TickTyped, Probe
<1>3. PICK s : s = server[m]
  OBVIOUS
<1>4. PICK seen : seen = IF s.up THEN [up |-> TRUE, recovery |-> s.recovery, fenced |-> s.readonly,
                                       lsn |-> s.replayed, follows |-> s.follows]
                                 ELSE Down
  OBVIOUS
<1>5. live' = [live EXCEPT ![m] = seen] /\ calls = <<>> /\ UNCHANGED <<server, calls, overlapped>>
  BY <1>1, <1>3, <1>4 DEF Probe, historyVars
<1>6. \A k \in Members : live'[k] = IF k = m THEN seen ELSE live[k]
  BY <1>5 DEF Types, TickTyped
<1>7. seen.up /\ ~seen.recovery /\ ~seen.fenced => ~s.recovery /\ ~s.readonly
  BY <1>4 DEF Down
<1>8. SeenIsPrimary'
  BY <1>3, <1>5, <1>6, <1>7 DEF Fencing, SeenIsPrimary, SeenPrimary, IsPrimary
<1>9. KeptIsPrimary'
  BY <1>5 DEF KeptIsPrimary
<1> QED
  BY <1>8, <1>9 DEF Fencing

LEMMA DecideFencing ==
  ASSUME Types, Fencing, DecideKeep \/ DecidePromote \/ DecideWait
  PROVE  Fencing'
<1>1. CASE DecideKeep
  <2>1. calls = <<>> /\ UNCHANGED <<server, live, overlapped>>
    BY <1>1 DEF DecideKeep, Deciding, historyVars
  <2>2. Keep \in Members /\ SeenPrimary(Keep) /\ (~overlapped => IsPrimary(Keep))
    BY <1>1, <2>1, KeepIs DEF DecideKeep, Primaries, Fencing, SeenIsPrimary
  <2>3. PICK k : k = Keep
    OBVIOUS
  <2>4. /\ calls' # <<>> /\ calls'[Len(calls')].op = "configure" /\ calls'[Len(calls')].on = k
        /\ \A i \in DOMAIN calls' : calls'[i].op = "fence" => calls'[i].on # k
    BY <1>1, <2>3, KeepCalls
  <2>5. SeenPrimary(k)' /\ (~overlapped' => IsPrimary(k)')
    BY <2>1, <2>2, <2>3 DEF SeenPrimary, IsPrimary
  <2>6. Kept' = k
    BY <2>4 DEF Kept
  <2>7. KeptIsPrimary'
    BY <2>4, <2>5, <2>6 DEF KeptIsPrimary, SeenPrimary, IsPrimary
  <2>8. SeenIsPrimary'
    BY <2>4 DEF SeenIsPrimary
  <2> QED
    BY <2>7, <2>8 DEF Fencing
<1>2. CASE DecidePromote
  <2>1. calls = <<>> /\ UNCHANGED <<server, live, overlapped>>
    BY <1>2 DEF DecidePromote, Deciding, historyVars
  <2>2. KeptIsPrimary'
    BY <1>2, PromoteCalls DEF KeptIsPrimary
  <2>3. SeenIsPrimary'
    BY <2>1 DEF Fencing, SeenIsPrimary, SeenPrimary, IsPrimary
  <2> QED
    BY <2>2, <2>3 DEF Fencing
<1>3. CASE DecideWait
  BY <1>3, TickOver DEF DecideWait
<1> QED
  BY <1>1, <1>2, <1>3

LEMMA FencingStep ==
  ASSUME Types, Fencing, [Next]_vars
  PROVE  Fencing'
<1>1. CASE UNCHANGED vars
  <2>1. SeenStay /\ UNCHANGED <<live, calls, overlapped>>
    BY <1>1 DEF SeenStay, IsPrimary, vars, watcherVars, historyVars
  <2> QED
    BY <2>1, OutsideTheWatcher
<1>2. CASE Probe \/ DecideKeep \/ DecidePromote \/ DecideWait
  BY <1>2, ProbeFencing, DecideFencing
<1>3. CASE \/ Fence \/ Repoint \/ ApplyPrimaryConfig \/ Promote
           \/ CallFails("fence") \/ CallFails("repoint") \/ CallFails("configure")
  BY <1>3, CallsStay, CallMade
<1>4. CASE PromoteFails \/ WatcherRestart
  BY <1>4, TickOver DEF PromoteFails, WatcherRestart
<1>5. CASE \/ FenceOldPrimary \/ PromoteTarget \/ AbortSwitchover
           \/ \E m \in Members : StartSwitchover(m) \/ StartRejoin(m)
  BY <1>5, OperatorStays, OutsideTheWatcher
<1>6. ASSUME NEW m \in Members,
             \/ Write(m) \/ Replay(m) \/ Crash(m) \/ Restart(m) \/ BaseBackup(m)
             \/ \E w \in Writes : Commit(w, m)
             \/ \E s \in Members : Replicate(s, m)
      PROVE  Fencing'
  BY <1>6, PostgresStays, OutsideTheWatcher
<1> QED
  BY <1>1, <1>2, <1>3, <1>4, <1>5, <1>6 DEF Next, WatcherStep

LEMMA FencingAlways == Spec => [](Types /\ Fencing)
<1>1. Init => Types /\ Fencing
  <2> SUFFICES ASSUME Init PROVE Types /\ Fencing
    OBVIOUS
  <2>1. Types
    BY InitTypes
  <2>2. live = [m \in Members |-> Down] /\ calls = <<>>
    BY DEF Init
  <2>3. SeenIsPrimary
    BY <2>2 DEF SeenIsPrimary, SeenPrimary, Down
  <2>4. KeptIsPrimary
    BY <2>2 DEF KeptIsPrimary
  <2> QED
    BY <2>1, <2>3, <2>4 DEF Fencing
<1>2. (Types /\ Fencing) /\ [Next]_vars => (Types /\ Fencing)'
  BY TypesStep, FencingStep
<1> QED
  BY <1>1, <1>2, PTL DEF Spec

\* The watcher never fences the last primary of a cluster, whatever its size and whatever
\* crashes, restarts, rejoins and promotions by hand happen between the probes of a tick and its
\* calls, unless a switchover fenced a primary that the running tick had already seen.
THEOREM LastPrimaryNotFenced == Spec => FenceLeavesPrimaryUnlessOverlapped
<1>1. Types /\ Fencing /\ [Next]_vars =>
        [\A m \in Members : FencesNow(m) /\ ~overlapped => \E k \in Members \ {m} : IsPrimary(k)]_vars
  <2> SUFFICES ASSUME Types, Fencing, NEW m \in Members, FencesNow(m), ~overlapped
               PROVE  \E k \in Members \ {m} : IsPrimary(k)
    OBVIOUS
  <2>1. calls # <<>> /\ Head(calls).op = "fence" /\ Head(calls).on = m
    BY DEF FencesNow, Calling
  <2>2. 1 \in DOMAIN calls /\ calls[1].op = "fence" /\ calls[1].on = m
    BY <2>1, HeadIs DEF Types, TickTyped
  <2>3. Kept \in Members /\ Kept # m /\ IsPrimary(Kept)
    BY <2>2, CallsInDomain DEF Types, Fencing, KeptIsPrimary
  <2> QED
    BY <2>3
<1> QED
  BY <1>1, FencingAlways, PTL DEF Spec, FenceLeavesPrimaryUnlessOverlapped

-----------------------------------------------------------------------------
(* A promotion keeps what synchronous standbys acknowledged. *)

Incumbent == Order[1]
Standbys == Members \ {Incumbent}

\* No more than one member has crashed, and there was no switchover.
Calm == faults["crash"] <= 1 /\ faults["switchover"] = 0
Quiet == op.stage = "idle" /\ ~overlapped
Awaits(what) == \E i \in DOMAIN calls : calls[i].op = what

\* What the probe of this tick reported of a standby includes the write.
Reported(s, w) == \E k \in DOMAIN server[s].wal : server[s].wal[k] = w /\ k <= live[s].lsn
Extends(t, s) == Len(s) <= Len(t) /\ \A k \in 1..Len(s) : t[k] = s[k]

\* Before the first promotion the members keep the roles they started with.
Replicas ==
  /\ ~server[Incumbent].recovery /\ ~server[Incumbent].readonly /\ server[Incumbent].cloneFrom = Nobody
  /\ \A m \in Standbys :
       /\ server[m].up /\ server[m].recovery /\ ~server[m].readonly /\ server[m].cloneFrom = Nobody
       /\ Extends(server[Incumbent].wal, server[m].wal)
       /\ server[m].replayed <= Len(server[m].wal)
Snapshot ==
  /\ ~live[Incumbent].recovery /\ ~live[Incumbent].fenced
  /\ \A m \in Standbys :
       /\ live[m].up <=> Place(m) <= probed
       /\ live[m].up => live[m].recovery /\ live[m].lsn <= server[m].replayed
SyncedHeld == \A w \in synced : \E s \in Standbys : Holds(s, w)
Unpromoted ==
  Replicas /\ Snapshot /\ SyncedHeld /\ ~Awaits("fence") /\ pending \subseteq Writes \X {Incumbent}

\* Nobody has crashed: every tick sees the primary.
Steady ==
  /\ Unpromoted /\ faults["crash"] = 0
  /\ server[Incumbent].up
  /\ probed > 0 => SeenPrimary(Incumbent)
  /\ ~Awaits("promote")

\* The primary has crashed: a tick that finds it down probes the standbys afterwards, and the
\* standby it promotes reported at least as much as any other.
SeenDown == probed > 0 /\ ~live[Incumbent].up
SeenSynced == \A w \in synced : \E s \in Standbys : Holds(s, w) /\ (live[s].up => Reported(s, w))
BestIsPromoted ==
  \A i \in DOMAIN calls : calls[i].op = "promote" =>
    /\ SeenDown /\ probed = Len(Order) /\ calls[i].on \in Standbys
    /\ \A m \in Standbys : live[m].lsn <= live[calls[i].on].lsn
Fallen ==
  /\ Unpromoted /\ faults["crash"] = 1
  /\ ~server[Incumbent].up /\ pending = {}
  /\ SeenDown => SeenSynced
  /\ BestIsPromoted

\* The one crash is over and some member is writable, which it stays: the watcher fences none
\* but the others.
Safe ==
  /\ faults["crash"] = 1
  /\ \E m \in Members : Writable(m)
  /\ calls = <<>> => \A m \in Members : SeenPrimary(m) => Writable(m)
  /\ Awaits("fence") => Writable(Kept)

Guarded == Calm => Quiet /\ (Steady \/ Fallen \/ Safe)

LEMMA IncumbentIs ==
  /\ Incumbent \in Members /\ Place(Incumbent) = 1 /\ Len(Order) >= 1 /\ Standbys \in SUBSET Members
  /\ \A m \in Standbys : m \in Members /\ m # Incumbent
<1>1. Len(Order) \in Nat /\ Len(Order) # 0
  BY Places, ClusterAssumption
<1>2. 1 \in 1..Len(Order) /\ Incumbent \in Members
  BY <1>1, Places DEF Incumbent
<1>3. Place(Incumbent) \in 1..Len(Order) /\ Order[Place(Incumbent)] = Order[1]
  BY <1>2, Places DEF Incumbent
<1>4. Place(Incumbent) = 1
  BY <1>2, <1>3, Places, ClusterAssumption
<1> QED
  BY <1>1, <1>2, <1>4 DEF Standbys

LEMMA CallsShrink ==
  ASSUME TickTyped, calls # <<>>, NextCall \/ TickEnds
  PROVE  /\ \A i \in DOMAIN calls' : \E j \in DOMAIN calls : calls'[i] = calls[j]
         /\ calls' # <<>> => Kept' = Kept /\ UNCHANGED <<live, probed>>
<1>1. CASE TickEnds
  BY <1>1 DEF TickEnds
<1>2. CASE calls' = Tail(calls) /\ Len(calls) # 1 /\ UNCHANGED <<live, probed>>
  <2>0. Len(calls) \in Nat /\ Len(calls) > 1
    <3>1. Len(calls) \in Nat \ {0}
      BY HeadIs
    <3>2. Len(calls) # 1
      BY <1>2
    <3> QED
      BY <3>1, <3>2
  <2>1. PICK n \in Nat : n = Len(calls) /\ n > 1
    BY <2>0
  <2>2. Len(calls') = n - 1 /\ DOMAIN calls' = 1..(n - 1) /\ \A i \in 1..(n - 1) : calls'[i] = calls[i + 1]
    BY <1>2, <2>1 DEF TickTyped
  <2>3. DOMAIN calls = 1..n /\ calls'[n - 1] = calls[n]
    BY <2>1, <2>2 DEF TickTyped
  <2>4. \A i \in 1..(n - 1) : i + 1 \in 1..n
    BY <2>1
  <2> QED
    BY <1>2, <2>1, <2>2, <2>3, <2>4 DEF Kept
<1> QED
  BY <1>1, <1>2 DEF NextCall

LEMMA AwaitsLess ==
  ASSUME TickTyped, calls # <<>>, NextCall \/ TickEnds, NEW what, Awaits(what)'
  PROVE  Awaits(what) /\ Kept' = Kept
  BY CallsShrink DEF Awaits

-----------------------------------------------------------------------------
(* Some member stays writable. *)

WritableStay == \A m \in Members : Writable(m) => Writable(m)'
OthersWritable == \A m \in Members : Writable(m) /\ ~(Calling("fence") /\ Head(calls).on = m) => Writable(m)'

LEMMA SafeOutside ==
  ASSUME Types, Safe, UNCHANGED <<live, calls>>, WritableStay, faults'["crash"] = faults["crash"]
  PROVE  Safe'
<1>1. \E m \in Members : Writable(m)'
  BY DEF Safe, WritableStay
<1>2. calls' = <<>> => \A m \in Members : SeenPrimary(m)' => Writable(m)'
  BY DEF Safe, WritableStay, SeenPrimary
<1>3. Awaits("fence")' => Writable(Kept)'
  <2> SUFFICES ASSUME Awaits("fence")' PROVE Writable(Kept)'
    OBVIOUS
  <2>1. Awaits("fence")
    BY DEF Awaits
  <2>2. PICK k \in Members : k = Kept
    BY <2>1, CallsInDomain DEF Types, Awaits
  <2>3. Kept' = k /\ Writable(k)'
    BY <2>1, <2>2 DEF Safe, WritableStay, Kept
  <2> QED
    BY <2>3 DEF Writable, IsPrimary
<1> QED
  BY <1>1, <1>2, <1>3 DEF Safe

LEMMA SafeTickOver ==
  ASSUME TickEnds, \E m \in Members : Writable(m)', faults'["crash"] = 1
  PROVE  Safe'
<1>1. calls' = <<>> => \A m \in Members : SeenPrimary(m)' => Writable(m)'
  BY DEF TickEnds, SeenPrimary, Down
<1>2. ~Awaits("fence")'
  BY DEF TickEnds, Awaits
<1> QED
  BY <1>1, <1>2 DEF Safe

LEMMA SafeCallMade ==
  ASSUME Types, Fencing, Safe, calls # <<>>, NextCall, OthersWritable, UNCHANGED faults
  PROVE  Safe'
<1>1. \E m \in Members : Writable(m)'
  <2>1. CASE Calling("fence")
    <3>1. Head(calls) = calls[1] /\ 1 \in DOMAIN calls
      BY HeadIs DEF Types, TickTyped
    <3>2. calls[1].op = "fence" /\ Awaits("fence")
      BY <2>1, <3>1 DEF Calling, Awaits
    <3>3. Kept \in Members /\ Head(calls).on # Kept
      BY <3>1, <3>2, CallsInDomain DEF Types, Fencing, KeptIsPrimary
    <3>4. PICK k \in Members : k = Kept
      BY <3>3
    <3>5. Writable(k)'
      BY <3>2, <3>3, <3>4 DEF Safe, OthersWritable
    <3> QED
      BY <3>5
  <2>2. CASE ~Calling("fence")
    BY <2>2 DEF Safe, OthersWritable
  <2> QED
    BY <2>1, <2>2
<1>2. CASE TickEnds
  BY <1>1, <1>2, SafeTickOver DEF Safe
<1>3. CASE ~TickEnds
  <2>1. calls' # <<>>
    <3>1. calls' = Tail(calls) /\ Len(calls) # 1 /\ Len(calls) \in Nat \ {0}
      BY <1>3, HeadIs DEF NextCall, Types
    <3>2. Len(calls') # 0
      BY <3>1 DEF Types, TickTyped
    <3> QED
      BY <3>2
  <2>2. Awaits("fence")' => Writable(Kept)'
    <3> SUFFICES ASSUME Awaits("fence")' PROVE Writable(Kept)'
      OBVIOUS
    <3>1. Awaits("fence") /\ Kept' = Kept
      BY AwaitsLess DEF Types
    <3>2. PICK k \in Members : k = Kept
      BY <3>1, CallsInDomain DEF Types, Awaits
    <3>3. ~(Calling("fence") /\ Head(calls).on = k)
      <4>1. Head(calls) = calls[1] /\ 1 \in DOMAIN calls
        BY HeadIs DEF Types, TickTyped
      <4> QED
        BY <3>2, <4>1 DEF Fencing, KeptIsPrimary, Calling
    <3>4. Writable(k)'
      BY <3>1, <3>2, <3>3 DEF Safe, OthersWritable
    <3> QED
      BY <3>1, <3>2, <3>4 DEF Writable, IsPrimary
  <2> QED
    BY <1>1, <2>1, <2>2 DEF Safe
<1> QED
  BY <1>2, <1>3

LEMMA PostgresWritable ==
  ASSUME Types, NEW m \in Members,
         \/ Write(m) \/ Replay(m) \/ Restart(m) \/ BaseBackup(m) \/ StartRejoin(m)
         \/ \E w \in Writes : Commit(w, m)
         \/ \E s \in Members : Replicate(s, m)
  PROVE  WritableStay /\ UNCHANGED <<live, calls>> /\ faults'["crash"] = faults["crash"]
<1>1. server \in [Members -> Server]
  BY DEF Types, ServersTyped
<1>2. UNCHANGED <<live, calls>>
  BY DEF Write, Replay, Restart, BaseBackup, StartRejoin, Commit, Replicate, watcherVars
<1>3. faults'["crash"] = faults["crash"]
  BY DEF Types, FaultsTyped, Write, Replay, Restart, BaseBackup, StartRejoin, Commit, Replicate, Happens
<1>4. CASE \/ Write(m) \/ Replay(m) \/ Restart(m) \/ BaseBackup(m)
           \/ \E w \in Writes : Commit(w, m)
           \/ \E s \in Members : Replicate(s, m)
  <2>1. ASSUME NEW k \in Members
        PROVE  /\ server'[k].recovery = server[k].recovery /\ server'[k].readonly = server[k].readonly
               /\ server[k].up => server'[k].up
    <3>1. CASE Write(m)
      BY <1>1, <3>1 DEF Write, Server
    <3>2. CASE Replay(m) \/ Restart(m)
      BY <1>1, <3>2 DEF Replay, Restart, Server
    <3>3. CASE BaseBackup(m)
      BY <1>1, <3>3 DEF BaseBackup, Server
    <3>4. CASE \E w \in Writes : Commit(w, m)
      BY <3>4 DEF Commit
    <3>5. CASE \E s \in Members : Replicate(s, m)
      BY <1>1, <3>5 DEF Replicate, Server
    <3> QED
      BY <1>4, <3>1, <3>2, <3>3, <3>4, <3>5
  <2> QED
    BY <1>2, <1>3, <2>1 DEF WritableStay, Writable, IsPrimary
<1>5. CASE StartRejoin(m)
  <2>1. server[m].readonly /\ \A k \in Members : k # m => server'[k] = server[k]
    BY <1>1, <1>5 DEF StartRejoin
  <2> QED
    BY <1>2, <1>3, <2>1 DEF WritableStay, Writable, IsPrimary
<1> QED
  BY <1>4, <1>5

LEMMA CallsWritable ==
  ASSUME Types,
         \/ Fence \/ Repoint \/ ApplyPrimaryConfig \/ Promote
         \/ CallFails("fence") \/ CallFails("repoint") \/ CallFails("configure")
  PROVE  OthersWritable /\ calls # <<>> /\ NextCall /\ UNCHANGED faults
<1>1. OthersStay /\ calls # <<>> /\ NextCall
  BY CallsStay
<1>2. UNCHANGED faults
  BY DEF Fence, Repoint, ApplyPrimaryConfig, Promote, CallFails
<1>3. server \in [Members -> Server]
  BY DEF Types, ServersTyped
<1>4. PICK m \in Members : m = Head(calls).on
  BY <1>1, HeadIs DEF Types
<1>5. \A k \in Members : server[k].up => server'[k].up
  <2>1. CASE Fence
    BY <1>3, <1>4, <2>1 DEF Fence, Server
  <2>2. CASE Repoint
    BY <1>3, <1>4, <2>2 DEF Repoint, Server
  <2>3. CASE ApplyPrimaryConfig
    <3>1. PICK names : names = SyncStandbyNames(m)
      OBVIOUS
    <3>2. server' = [server EXCEPT ![m].names = names]
      BY <1>4, <2>3, <3>1 DEF ApplyPrimaryConfig
    <3> QED
      BY <1>3, <3>2 DEF Server
  <2>4. CASE Promote
    <3>1. PICK r : r = [server[m] EXCEPT !.readonly = FALSE]
      OBVIOUS
    <3>2. PICK s : s = Promoted(r)
      OBVIOUS
    <3>3. server' = [server EXCEPT ![m] = s] /\ server[m].up
      BY <1>4, <2>4, <3>1, <3>2 DEF Promote
    <3>4. s.up = server[m].up
      BY <1>3, <3>1, <3>2 DEF Promoted, Server
    <3> QED
      BY <1>3, <3>3, <3>4
  <2>5. CASE CallFails("fence") \/ CallFails("repoint") \/ CallFails("configure")
    BY <2>5 DEF CallFails
  <2> QED
    BY <2>1, <2>2, <2>3, <2>4, <2>5
<1> QED
  BY <1>1, <1>2, <1>5 DEF OthersWritable, OthersStay, Writable

LEMMA ProbeSafe ==
  ASSUME Types, Safe, Probe
  PROVE  Safe'
<1>1. PICK m : m = Order[probed + 1]
  OBVIOUS
<1>2. m \in Members
  BY <1>1, Places DEF Types, TickTyped, Probe
<1>3. PICK s : s = server[m]
  OBVIOUS
<1>4. PICK seen : seen = IF s.up THEN [up |-> TRUE, recovery |-> s.recovery, fenced |-> s.readonly,
                                       lsn |-> s.replayed, follows |-> s.follows]
                                 ELSE Down
  OBVIOUS
<1>5. live' = [live EXCEPT ![m] = seen] /\ calls = <<>> /\ UNCHANGED <<server, calls, faults>>
  BY <1>1, <1>3, <1>4 DEF Probe
<1>6. \A k \in Members : live'[k] = IF k = m THEN seen ELSE live[k]
  BY <1>5 DEF Types, TickTyped
<1>7. seen.up /\ ~seen.recovery /\ ~seen.fenced => s.up /\ ~s.recovery /\ ~s.readonly
  BY <1>4 DEF Down
<1>8. \A k \in Members : Writable(k)' <=> Writable(k)
  BY <1>5 DEF Writable, IsPrimary
<1>9. \A k \in Members : SeenPrimary(k)' => Writable(k)
  BY <1>3, <1>5, <1>6, <1>7 DEF Safe, SeenPrimary, Writable, IsPrimary
<1>10. ~Awaits("fence")'
  BY <1>5 DEF Awaits
<1> QED
  BY <1>5, <1>8, <1>9, <1>10 DEF Safe

LEMMA DecideSafe ==
  ASSUME Types, Safe, DecideKeep \/ DecidePromote \/ DecideWait
  PROVE  Safe'
<1>1. calls = <<>> /\ UNCHANGED <<server, faults>>
  BY DEF DecideKeep, DecidePromote, DecideWait, Deciding
<1>2. \A k \in Members : Writable(k)' <=> Writable(k)
  BY <1>1 DEF Writable, IsPrimary
<1>3. (\E k \in Members : Writable(k)') /\ faults'["crash"] = 1
  BY <1>1, <1>2 DEF Safe
<1>4. CASE DecideKeep
  <2>1. PICK k \in Members : k = Keep /\ Writable(k)
    BY <1>1, <1>4, KeepIs DEF DecideKeep, Primaries, Safe
  <2>2. calls' # <<>> /\ Kept' = k
    BY <1>4, <2>1, KeepCalls DEF Kept
  <2>3. Writable(k)'
    BY <1>2, <2>1
  <2>4. Writable(Kept)'
    BY <2>2, <2>3 DEF Writable, IsPrimary
  <2> QED
    BY <1>3, <2>2, <2>4 DEF Safe
<1>5. CASE DecidePromote
  <2>1. ~Awaits("fence")'
    BY <1>5, PromoteCalls DEF Awaits
  <2>2. UNCHANGED live
    BY <1>5 DEF DecidePromote
  <2>3. \A k \in Members : SeenPrimary(k)' => Writable(k)'
    BY <1>1, <1>2, <2>2 DEF Safe, SeenPrimary
  <2> QED
    BY <1>3, <2>1, <2>3 DEF Safe
<1>6. CASE DecideWait
  BY <1>3, <1>6, SafeTickOver DEF DecideWait
<1> QED
  BY <1>4, <1>5, <1>6

\* Faults are only ever counted.
LEMMA FaultsCount ==
  ASSUME Types, [Next]_vars
  PROVE  /\ faults["crash"] \in Nat /\ faults["switchover"] \in Nat
         /\ faults'["crash"] \in Nat /\ faults'["switchover"] \in Nat
         /\ faults'["crash"] >= faults["crash"] /\ faults'["switchover"] >= faults["switchover"]
<1>1. faults \in [{"crash", "watcher", "switchover", "rejoin"} -> Nat]
  BY DEF Types, FaultsTyped
<1>2. UNCHANGED faults \/ Happens("crash") \/ Happens("watcher") \/ Happens("switchover") \/ Happens("rejoin")
  BY DEF Next, WatcherStep, vars, Probe, DecideKeep, DecidePromote, DecideWait, Fence, CallFails, Repoint,
     ApplyPrimaryConfig, Promote, PromoteFails, WatcherRestart, FenceOldPrimary, PromoteTarget, AbortSwitchover,
     Write, Replay, Crash, Restart, StartSwitchover, StartRejoin, BaseBackup, Commit, Replicate
<1> QED
  BY <1>1, <1>2 DEF Happens

\* Without a switchover the operator leaves the members alone, but for a rejoin.
LEMMA QuietSteps ==
  ASSUME Types, Quiet, Next, Calm'
  PROVE  /\ Quiet' /\ Calm
         /\ \/ WatcherStep \/ WatcherRestart
            \/ \E m \in Members :
                 \/ Write(m) \/ Replay(m) \/ Crash(m) \/ Restart(m) \/ StartRejoin(m) \/ BaseBackup(m)
                 \/ \E w \in Writes : Commit(w, m)
                 \/ \E s \in Members : Replicate(s, m)
<1>1. Calm
  BY FaultsCount DEF Calm
<1>2. ~(FenceOldPrimary \/ PromoteTarget \/ AbortSwitchover)
  BY DEF Quiet, FenceOldPrimary, PromoteTarget, AbortSwitchover
<1>3. ASSUME NEW m \in Members, StartSwitchover(m)
      PROVE  FALSE
  <2>1. faults'["switchover"] = faults["switchover"] + 1
    BY <1>3 DEF StartSwitchover, Happens, Types, FaultsTyped
  <2> QED
    BY <1>1, <2>1 DEF Calm
<1>4. \/ WatcherStep \/ WatcherRestart
      \/ \E m \in Members :
           \/ Write(m) \/ Replay(m) \/ Crash(m) \/ Restart(m) \/ StartRejoin(m) \/ BaseBackup(m)
           \/ \E w \in Writes : Commit(w, m)
           \/ \E s \in Members : Replicate(s, m)
  BY <1>2, <1>3 DEF Next
<1>5. UNCHANGED <<op, overlapped>>
  BY <1>4 DEF WatcherStep, Probe, DecideKeep, DecidePromote, DecideWait, Fence, CallFails, Repoint,
     ApplyPrimaryConfig, Promote, PromoteFails, WatcherRestart, historyVars,
     Write, Replay, Crash, Restart, StartRejoin, BaseBackup, Commit, Replicate
<1> QED
  BY <1>1, <1>4, <1>5 DEF Quiet

LEMMA SafeStep ==
  ASSUME Types, Fencing, Quiet, Safe, Next, Calm'
  PROVE  Safe'
<1>1. CASE Probe \/ DecideKeep \/ DecidePromote \/ DecideWait
  BY <1>1, ProbeSafe, DecideSafe
<1>2. CASE \/ Fence \/ Repoint \/ ApplyPrimaryConfig \/ Promote
           \/ CallFails("fence") \/ CallFails("repoint") \/ CallFails("configure")
  BY <1>2, CallsWritable, SafeCallMade
<1>3. CASE PromoteFails
  <2>1. calls # <<>>
    BY <1>3 DEF PromoteFails, Calling
  <2>2. PICK m \in Members : m = Head(calls).on
    BY <2>1, HeadIs DEF Types
  <2>3. \A k \in Members : Writable(k) => Writable(k)'
    BY <1>3, <2>2 DEF PromoteFails, Writable, IsPrimary, Types, ServersTyped, Server
  <2>4. TickEnds /\ UNCHANGED faults
    BY <1>3 DEF PromoteFails
  <2> QED
    BY <2>3, <2>4, SafeTickOver DEF Safe
<1>4. CASE WatcherRestart
  <2>1. TickEnds /\ UNCHANGED server /\ faults'["crash"] = faults["crash"]
    BY <1>4 DEF WatcherRestart, Happens, Types, FaultsTyped
  <2> QED
    BY <2>1, SafeTickOver DEF Safe, Writable, IsPrimary
<1>5. ASSUME NEW m \in Members, Crash(m)
      PROVE  FALSE
  <2>1. faults'["crash"] = faults["crash"] + 1
    BY <1>5 DEF Crash, Happens, Types, FaultsTyped
  <2> QED
    BY <2>1 DEF Calm, Safe
<1>6. ASSUME NEW m \in Members,
             \/ Write(m) \/ Replay(m) \/ Restart(m) \/ BaseBackup(m) \/ StartRejoin(m)
             \/ \E w \in Writes : Commit(w, m)
             \/ \E s \in Members : Replicate(s, m)
      PROVE  Safe'
  BY <1>6, PostgresWritable, SafeOutside
<1> QED
  BY <1>1, <1>2, <1>3, <1>4, <1>5, <1>6, QuietSteps DEF WatcherStep

-----------------------------------------------------------------------------
(* Before the first promotion. *)

LEMMA PrefixIs ==
  ASSUME NEW s \in Seq(Writes), NEW t \in Seq(Writes), IsPrefix(s, t)
  PROVE  Extends(t, s)
<1>1. Len(s) \in Nat /\ Len(t) \in Nat /\ Len(s) <= Len(t) /\ SubSeq(s, 1, Len(s)) = SubSeq(t, 1, Len(s))
  BY DEF IsPrefix
<1>2. \A k \in 1..Len(s) : SubSeq(s, 1, Len(s))[k] = s[k] /\ SubSeq(t, 1, Len(s))[k] = t[k]
  BY <1>1
<1> QED
  BY <1>1, <1>2 DEF Extends

LEMMA ExtendsItself ==
  ASSUME NEW s \in Seq(Writes)
  PROVE  Extends(s, s)
  BY DEF Extends

\* One more element of a longer sequence that both are prefixes of.
LEMMA ExtendsMore ==
  ASSUME NEW t \in Seq(Writes), NEW m \in Seq(Writes), NEW s \in Seq(Writes),
         Extends(t, m), Extends(m, s), Len(s) < Len(m)
  PROVE  \A r : r = Append(s, m[Len(s) + 1]) =>
           Extends(t, r) /\ Len(r) = Len(s) + 1 /\ \A k \in 1..Len(s) : r[k] = s[k]
<1> SUFFICES ASSUME NEW r, r = Append(s, m[Len(s) + 1])
             PROVE  Extends(t, r) /\ Len(r) = Len(s) + 1 /\ \A k \in 1..Len(s) : r[k] = s[k]
  OBVIOUS
<1>1. PICK n \in Nat : n = Len(s)
  OBVIOUS
<1>2. Len(m) \in Nat /\ Len(t) \in Nat /\ n + 1 <= Len(m) /\ Len(m) <= Len(t)
  BY <1>1 DEF Extends
<1>3. m[n + 1] \in Writes /\ t[n + 1] = m[n + 1]
  BY <1>1, <1>2 DEF Extends
<1>4. \A k \in 1..n : s[k] = m[k] /\ m[k] = t[k]
  BY <1>1, <1>2 DEF Extends
<1>5. Len(r) = n + 1 /\ r[n + 1] = m[n + 1] /\ \A k \in 1..n : r[k] = s[k]
  BY <1>1, <1>3
<1>6. \A k \in 1..(n + 1) : k \in 1..n \/ k = n + 1
  BY <1>1
<1>7. \A k \in 1..(n + 1) : t[k] = r[k]
  BY <1>3, <1>4, <1>5, <1>6
<1>8. Len(r) <= Len(t)
  BY <1>2, <1>5
<1> QED
  BY <1>1, <1>5, <1>7, <1>8 DEF Extends

LEMMA ExtendsLonger ==
  ASSUME NEW t \in Seq(Writes), NEW s \in Seq(Writes), NEW x \in Writes, Extends(t, s)
  PROVE  Extends(Append(t, x), s)
<1>1. PICK r : r = Append(t, x)
  OBVIOUS
<1>2. Len(t) \in Nat /\ Len(s) \in Nat /\ Len(r) = Len(t) + 1 /\ \A k \in 1..Len(t) : r[k] = t[k]
  BY <1>1
<1>3. \A k \in 1..Len(s) : k \in 1..Len(t)
  BY <1>2 DEF Extends
<1>4. Extends(r, s)
  BY <1>2, <1>3 DEF Extends
<1> QED
  BY <1>1, <1>4

\* A standby's history and what it has replayed only grow.
Grows(s) ==
  /\ server'[s].replayed >= server[s].replayed
  /\ \A k \in DOMAIN server[s].wal : k \in DOMAIN server'[s].wal /\ server'[s].wal[k] = server[s].wal[k]
Growing == Replicas' /\ (\A s \in Standbys : Grows(s)) /\ server'[Incumbent].up = server[Incumbent].up

\* Settings are not histories.
SettingsOnly ==
  \A m \in Members :
    /\ server'[m].up = server[m].up /\ server'[m].recovery = server[m].recovery
    /\ server'[m].readonly = server[m].readonly /\ server'[m].cloneFrom = server[m].cloneFrom
    /\ server'[m].wal = server[m].wal /\ server'[m].replayed = server[m].replayed

LEMMA SettingsGrow ==
  ASSUME Types, Replicas, SettingsOnly
  PROVE  Growing
<1>1. Incumbent \in Members /\ \A m \in Standbys : m \in Members
  BY IncumbentIs
<1>2. Replicas'
  BY <1>1 DEF Replicas, SettingsOnly, Standbys, Incumbent
<1>3. \A s \in Standbys : Grows(s)
  BY <1>1, ServerFields DEF Types, Grows, SettingsOnly
<1> QED
  BY <1>1, <1>2, <1>3 DEF Growing, SettingsOnly

LEMMA WriteGrows ==
  ASSUME Types, Replicas, NEW m \in Members, Write(m)
  PROVE  Growing /\ m = Incumbent /\ server[m].up
<1>1. m = Incumbent /\ server[m].up
  BY DEF Replicas, Write, Writable, IsPrimary, Standbys
<1>2. Incumbent \in Members /\ \A s \in Standbys : s \in Members /\ s # Incumbent
  BY IncumbentIs
<1>3. PICK x \in Writes : x = written + 1
  BY NumbersAssumption DEF Types, WritesTyped, Write, Writes
<1>4. PICK wal : wal = Append(server[m].wal, x)
  OBVIOUS
<1>5. /\ server'[m].wal = wal /\ server'[m].up = server[m].up
      /\ server'[m].recovery = server[m].recovery /\ server'[m].readonly = server[m].readonly
      /\ server'[m].cloneFrom = server[m].cloneFrom
  <2>1. PICK length : length = server[m].replayed + 1
    OBVIOUS
  <2>2. server' = [server EXCEPT ![m].wal = wal, ![m].replayed = length]
    BY <1>3, <1>4, <2>1 DEF Write
  <2> QED
    BY <2>2 DEF Types, ServersTyped, Server
<1>6. \A s \in Standbys : server'[s] = server[s]
  BY <1>1, <1>2 DEF Write, Types, ServersTyped
<1>7. ASSUME NEW s \in Standbys
      PROVE  Extends(wal, server[s].wal)
  <2>1. server[s].wal \in Seq(Writes) /\ server[m].wal \in Seq(Writes) /\ Extends(server[m].wal, server[s].wal)
    BY <1>1, <1>2, ServerFields DEF Types, Replicas
  <2> QED
    BY <1>4, <2>1, ExtendsLonger
<1>8. Replicas'
  <2>1. \A s \in Standbys : Extends(server'[Incumbent].wal, server'[s].wal)
    BY <1>1, <1>5, <1>6, <1>7
  <2> QED
    BY <1>1, <1>5, <1>6, <2>1 DEF Replicas, Standbys, Incumbent
<1>9. \A s \in Standbys : Grows(s)
  BY <1>2, <1>6, ServerFields DEF Grows, Types
<1> QED
  BY <1>1, <1>5, <1>8, <1>9 DEF Growing

LEMMA ReplayGrows ==
  ASSUME Types, Replicas, NEW m \in Members, Replay(m)
  PROVE  Growing
<1>1. Incumbent \in Members /\ \A s \in Standbys : s \in Members /\ s # Incumbent
  BY IncumbentIs
<1>2. m \in Standbys
  BY DEF Replicas, Replay, Standbys
<1>3. \A k \in Members : k # m => server'[k] = server[k]
  BY DEF Replay, Types, ServersTyped
<1>4. /\ server'[m].replayed = server[m].replayed + 1 /\ server'[m].wal = server[m].wal
      /\ server'[m].up = server[m].up /\ server'[m].recovery = server[m].recovery
      /\ server'[m].readonly = server[m].readonly /\ server'[m].cloneFrom = server[m].cloneFrom
  BY DEF Replay, Types, ServersTyped, Server
<1>5. server'[m].replayed <= Len(server'[m].wal) /\ server'[m].replayed >= server[m].replayed
  BY <1>4, ServerFields DEF Types, Replay
<1>6. Replicas'
  BY <1>1, <1>2, <1>3, <1>4, <1>5 DEF Replicas, Standbys, Incumbent
<1>7. \A s \in Standbys : Grows(s)
  BY <1>1, <1>3, <1>4, <1>5, ServerFields DEF Grows, Types
<1> QED
  BY <1>1, <1>2, <1>3, <1>6, <1>7 DEF Growing

LEMMA ReplicateGrows ==
  ASSUME Types, Replicas, NEW m \in Members, NEW s \in Members, Replicate(s, m)
  PROVE  Growing
<1>1. Incumbent \in Members /\ \A k \in Standbys : k \in Members /\ k # Incumbent
  BY IncumbentIs
<1>2. s \in Standbys
  BY DEF Replicas, Replicate, Streams, Standbys
<1>3. PICK iw, mw, sw : iw = server[Incumbent].wal /\ mw = server[m].wal /\ sw = server[s].wal
  OBVIOUS
<1>4. iw \in Seq(Writes) /\ mw \in Seq(Writes) /\ sw \in Seq(Writes) /\ server[s].replayed \in Nat
  BY <1>1, <1>3, ServerFields DEF Types
<1>5. PICK wal : wal = Append(sw, mw[Len(sw) + 1])
  OBVIOUS
<1>6. Extends(iw, mw) /\ Extends(mw, sw) /\ Len(sw) < Len(mw)
  <2>1. Extends(iw, mw)
    BY <1>3, <1>4, ExtendsItself DEF Replicas, Standbys
  <2>2. IsPrefix(sw, mw) /\ Len(sw) < Len(mw)
    BY <1>3 DEF Replicate, Streams
  <2> QED
    BY <1>4, <2>1, <2>2, PrefixIs
<1>7. Extends(iw, wal) /\ Len(wal) = Len(sw) + 1 /\ \A k \in 1..Len(sw) : wal[k] = sw[k]
  <2>1. \A r : r = Append(sw, mw[Len(sw) + 1]) =>
          Extends(iw, r) /\ Len(r) = Len(sw) + 1 /\ \A k \in 1..Len(sw) : r[k] = sw[k]
    <3>1. iw \in Seq(Writes) /\ mw \in Seq(Writes) /\ sw \in Seq(Writes)
      BY <1>4
    <3> QED
      BY <1>6, <3>1, ExtendsMore
  <2> QED
    BY <1>5, <2>1
<1>8. server' = [server EXCEPT ![s].wal = wal]
  BY <1>3, <1>5 DEF Replicate, Types, ServersTyped, Server
<1>9. \A k \in Members : k # s => server'[k] = server[k]
  BY <1>8 DEF Types, ServersTyped
<1>10. /\ server'[s].replayed = server[s].replayed /\ server'[s].wal = wal
       /\ server'[s].up = server[s].up /\ server'[s].recovery = server[s].recovery
       /\ server'[s].readonly = server[s].readonly /\ server'[s].cloneFrom = server[s].cloneFrom
  BY <1>8 DEF Types, ServersTyped, Server
<1>11. server'[s].replayed <= Len(server'[s].wal)
  <2>1. server[s].replayed <= Len(sw)
    BY <1>2, <1>3 DEF Replicas
  <2> QED
    BY <1>4, <1>7, <1>10, <2>1
<1>12. Replicas'
  BY <1>1, <1>2, <1>3, <1>7, <1>9, <1>10, <1>11 DEF Replicas, Standbys, Incumbent
<1>13. Grows(s)
  <2>1. mw[Len(sw) + 1] \in Writes
    BY <1>4, <1>6
  <2>2. wal \in Seq(Writes)
    BY <1>4, <1>5, <2>1
  <2>3. \A k \in DOMAIN sw : k \in DOMAIN wal /\ wal[k] = sw[k]
    BY <1>4, <1>7, <2>2
  <2> QED
    BY <1>3, <1>4, <1>10, <2>3 DEF Grows
<1>14. \A k \in Standbys : Grows(k)
  <2> SUFFICES ASSUME NEW k \in Standbys, k # s PROVE Grows(k)
    BY <1>13
  <2> QED
    BY <1>1, <1>9, ServerFields DEF Grows, Types
<1> QED
  BY <1>1, <1>2, <1>9, <1>12, <1>14 DEF Growing

-----------------------------------------------------------------------------
(* The steps before the first promotion. *)

LEMMA CallingAwaits ==
  ASSUME TickTyped, NEW what, Calling(what)
  PROVE  Awaits(what) /\ calls # <<>> /\ 1 \in DOMAIN calls /\ Head(calls) = calls[1] /\ calls[1].op = what
<1>1. calls # <<>> /\ Head(calls).op = what
  BY DEF Calling
<1>2. Head(calls) = calls[1] /\ 1 \in DOMAIN calls
  BY <1>1, HeadIs DEF TickTyped
<1> QED
  BY <1>1, <1>2 DEF Awaits

LEMMA SameServers ==
  ASSUME Types, Replicas, UNCHANGED server
  PROVE  Growing
  BY SettingsGrow DEF SettingsOnly

\* What a standby holds it holds for ever, and what was reported of it stays true.
LEMMA HeldStays ==
  ASSUME Types, Types', NEW s \in Standbys, Grows(s)
  PROVE  \A w : /\ Holds(s, w) => Holds(s, w)'
                /\ live'[s].lsn = live[s].lsn /\ Reported(s, w) => Reported(s, w)'
<1>1. s \in Members
  BY IncumbentIs
<1>2. server[s].wal \in Seq(Writes) /\ server[s].replayed \in Nat /\ server'[s].replayed \in Nat
  BY <1>1, ServerFields DEF Types, ServersTyped, Server
<1>3. \A k \in DOMAIN server[s].wal : k \in Nat
  BY <1>2
<1>4. ASSUME NEW w, Holds(s, w)
      PROVE  Holds(s, w)'
  <2>1. PICK k \in DOMAIN server[s].wal : server[s].wal[k] = w /\ (RemoteApply => k <= server[s].replayed)
    BY <1>4 DEF Holds
  <2>2. k \in DOMAIN server'[s].wal /\ server'[s].wal[k] = w
    BY <2>1 DEF Grows
  <2>3. RemoteApply => k <= server'[s].replayed
    BY <1>2, <1>3, <2>1 DEF Grows
  <2> QED
    BY <2>2, <2>3 DEF Holds
<1>5. ASSUME NEW w, Reported(s, w), live'[s].lsn = live[s].lsn
      PROVE  Reported(s, w)'
  BY <1>5 DEF Reported, Grows
<1> QED
  BY <1>4, <1>5

LEMMA UnpromotedNext ==
  ASSUME Types, Types', Unpromoted, Replicas', \A s \in Standbys : Grows(s),
         synced' = synced, pending' \subseteq Writes \X {Incumbent},
         UNCHANGED <<live, probed>> \/ TickEnds, ~Awaits("fence")'
  PROVE  /\ Unpromoted'
         /\ SeenSynced \/ TickEnds => SeenSynced'
<1>1. Incumbent \in Members /\ \A m \in Standbys : m \in Members
  BY IncumbentIs
<1>2. SyncedHeld'
  <2> SUFFICES ASSUME NEW w \in synced PROVE \E s \in Standbys : Holds(s, w)'
    BY DEF SyncedHeld, Standbys, Incumbent
  <2>1. PICK s \in Standbys : Holds(s, w)
    BY DEF Unpromoted, SyncedHeld
  <2>2. Grows(s)
    OBVIOUS
  <2>3. Holds(s, w)'
    BY <2>1, <2>2, HeldStays
  <2> QED
    BY <2>3
<1>3. Snapshot'
  <2>1. CASE UNCHANGED <<live, probed>>
    <3>1. ASSUME NEW m \in Standbys
          PROVE  live[m].up => live[m].lsn <= server'[m].replayed
      <4>1. live[m].lsn \in Nat /\ server[m].replayed \in Nat /\ server'[m].replayed \in Nat
        BY <1>1, ServerFields DEF Types, TickTyped, Status, ServersTyped, Server
      <4>2. live[m].up => live[m].lsn <= server[m].replayed
        BY DEF Unpromoted, Snapshot
      <4>3. server'[m].replayed >= server[m].replayed
        BY DEF Grows
      <4> QED
        BY <4>1, <4>2, <4>3
    <3> QED
      BY <2>1, <3>1 DEF Unpromoted, Snapshot, Standbys, Incumbent
  <2>2. CASE TickEnds
    <3>1. \A m \in Members : ~live'[m].up /\ ~live'[m].recovery /\ ~live'[m].fenced
      BY <2>2 DEF TickEnds, Down
    <3>2. \A m \in Members : ~(Place(m) <= probed')
      BY <2>2, Places DEF TickEnds
    <3> QED
      BY <1>1, <3>1, <3>2 DEF Snapshot, Standbys, Incumbent
  <2> QED
    BY <2>1, <2>2
<1>4. Unpromoted'
  BY <1>2, <1>3 DEF Unpromoted, Incumbent
<1>5. SeenSynced \/ TickEnds => SeenSynced'
  <2>1. CASE TickEnds
    <3>1. \A m \in Standbys : ~live'[m].up
      BY <1>1, <2>1 DEF TickEnds, Down
    <3> QED
      BY <1>2, <3>1 DEF SyncedHeld, SeenSynced, Standbys, Incumbent
  <2>2. CASE SeenSynced /\ UNCHANGED <<live, probed>>
    <3> SUFFICES ASSUME NEW w \in synced PROVE \E s \in Standbys : Holds(s, w)' /\ (live'[s].up => Reported(s, w)')
      BY DEF SeenSynced, Standbys, Incumbent
    <3>1. PICK s \in Standbys : Holds(s, w) /\ (live[s].up => Reported(s, w))
      BY <2>2 DEF SeenSynced
    <3>2. Grows(s) /\ live' = live
      BY <2>2
    <3>3. Holds(s, w)' /\ (live'[s].up => Reported(s, w)')
      BY <3>1, <3>2, HeldStays
    <3> QED
      BY <3>3
  <2> QED
    BY <2>1, <2>2
<1> QED
  BY <1>4, <1>5

LEMMA SteadyNext ==
  ASSUME Types, Types', Steady, Growing, synced' = synced, pending' \subseteq Writes \X {Incumbent},
         faults'["crash"] = faults["crash"], UNCHANGED <<live, probed>> \/ TickEnds, ~Awaits("fence")', ~Awaits("promote")'
  PROVE  Steady'
<1>1. Incumbent \in Members /\ \A m \in Standbys : m \in Members
  BY IncumbentIs
<1>2. Unpromoted /\ Replicas' /\ \A s \in Standbys : Grows(s)
  BY DEF Steady, Growing
<1>3. Unpromoted'
  BY <1>1, <1>2, UnpromotedNext
<1>4. (probed > 0 => SeenPrimary(Incumbent))'
  BY DEF Steady, TickEnds, SeenPrimary, Incumbent
<1> QED
  BY <1>1, <1>3, <1>4 DEF Steady, Growing, Incumbent

LEMMA FallenNext ==
  ASSUME Types, Types', Fallen, Growing, synced' = synced, pending' = {},
         faults'["crash"] = faults["crash"], UNCHANGED <<live, probed>> \/ TickEnds, ~Awaits("fence")',
         BestIsPromoted'
  PROVE  Fallen'
<1>1. Incumbent \in Members /\ \A m \in Standbys : m \in Members
  BY IncumbentIs
<1>2. Unpromoted /\ Replicas' /\ \A s \in Standbys : Grows(s)
  BY DEF Fallen, Growing
<1>3. Unpromoted' /\ (SeenSynced \/ TickEnds => SeenSynced')
  BY <1>1, <1>2, UnpromotedNext
<1>4. SeenDown' => SeenSynced'
  BY <1>3 DEF Fallen, SeenDown, Incumbent
<1> QED
  BY <1>1, <1>3, <1>4 DEF Fallen, Growing, Incumbent

\* Steps of postgres alone.
LEMMA DataStep ==
  ASSUME Types, Types', Steady \/ Fallen, Growing, UNCHANGED <<live, probed, calls, synced>>,
         pending' = pending \/ (server[Incumbent].up /\ pending' \subseteq Writes \X {Incumbent}),
         faults'["crash"] = faults["crash"]
  PROVE  Steady' \/ Fallen'
<1>1. Incumbent \in Members /\ \A m \in Standbys : m \in Members
  BY IncumbentIs
<1>2. \A what : Awaits(what)' <=> Awaits(what)
  BY DEF Awaits
<1>3. CASE Steady
  <2>1. ~Awaits("fence")' /\ ~Awaits("promote")' /\ pending' \subseteq Writes \X {Incumbent}
    BY <1>2, <1>3 DEF Steady, Unpromoted
  <2> QED
    BY <1>3, <2>1, SteadyNext
<1>4. CASE Fallen
  <2>1. ~Awaits("fence")' /\ pending' = {}
    BY <1>2, <1>4 DEF Fallen, Unpromoted
  <2>2. BestIsPromoted'
    BY <1>4 DEF Fallen, BestIsPromoted, SeenDown, Standbys, Incumbent
  <2> QED
    BY <1>4, <2>1, <2>2, FallenNext
<1> QED
  BY <1>3, <1>4

\* A call that changes the settings of a member, or fails.
LEMMA CallStep ==
  ASSUME Types, Types', Steady \/ Fallen, Growing, UNCHANGED <<synced, pending, faults>>,
         calls # <<>>, NextCall
  PROVE  Steady' \/ Fallen'
<1>1. Incumbent \in Members /\ \A m \in Standbys : m \in Members
  BY IncumbentIs
<1>2. \A what : Awaits(what)' => Awaits(what)
  BY AwaitsLess DEF Types
<1>3. UNCHANGED <<live, probed>> \/ TickEnds
  BY DEF NextCall
<1>4. CASE Steady
  <2>1. ~Awaits("fence")' /\ ~Awaits("promote")' /\ pending' \subseteq Writes \X {Incumbent}
    BY <1>2, <1>4 DEF Steady, Unpromoted
  <2> QED
    BY <1>3, <1>4, <2>1, SteadyNext
<1>5. CASE Fallen
  <2>1. ~Awaits("fence")' /\ pending' = {}
    BY <1>2, <1>5 DEF Fallen, Unpromoted
  <2>2. BestIsPromoted'
    <3> SUFFICES ASSUME NEW i \in DOMAIN calls', calls'[i].op = "promote"
                 PROVE  /\ SeenDown' /\ probed' = Len(Order) /\ calls'[i].on \in Standbys
                        /\ \A m \in Standbys : live'[m].lsn <= live'[calls'[i].on].lsn
      BY DEF BestIsPromoted, SeenDown, Standbys, Incumbent
    <3>1. PICK j \in DOMAIN calls : calls'[i] = calls[j]
      BY CallsShrink DEF Types
    <3>2. calls' # <<>>
      OBVIOUS
    <3>3. UNCHANGED <<live, probed>>
      BY <1>3, <3>2 DEF TickEnds
    <3> QED
      BY <1>5, <3>1, <3>3 DEF Fallen, BestIsPromoted, SeenDown, Incumbent
  <2> QED
    BY <1>3, <1>5, <2>1, <2>2, FallenNext
<1> QED
  BY <1>4, <1>5

LEMMA CommitHeld ==
  ASSUME Types, Replicas, NEW m \in Members, m = Incumbent, NEW w \in Writes, Commit(w, m), server[m].names.quorum > 0
  PROVE  \E s \in Standbys : Holds(s, w)
<1>1. PICK holders : holders = {s \in server[m].names.who : Streams(s, m) /\ Holds(s, w)}
  OBVIOUS
<1>2. Cardinality(holders) >= server[m].names.quorum
  BY <1>1 DEF Commit, Acknowledged
<1>3. server[m].names.quorum \in Nat /\ server[m].names.who \subseteq Members
  BY ServerFields, ClusterAssumption, Small DEF Types, Names
<1>4. holders # {}
  BY <1>2, <1>3, FS_EmptySet
<1>5. PICK s \in holders : TRUE
  BY <1>4
<1>6. s \in Members /\ server[s].recovery /\ Holds(s, w)
  BY <1>1, <1>3, <1>5 DEF Streams
<1> QED
  BY <1>6 DEF Replicas, Standbys

LEMMA CommitStep ==
  ASSUME Types, Types', Steady \/ Fallen, NEW m \in Members, NEW w \in Writes, Commit(w, m)
  PROVE  Steady'
<1>1. Steady /\ m = Incumbent
  BY DEF Steady, Fallen, Unpromoted, Commit
<1>2. UNCHANGED <<server, live, probed, calls, faults>> /\ pending' \subseteq Writes \X {Incumbent}
  BY <1>1 DEF Commit, watcherVars, Steady, Unpromoted
<1>3. SyncedHeld'
  <2>1. \A v \in synced : \E s \in Standbys : Holds(s, v)
    BY <1>1 DEF Steady, Unpromoted, SyncedHeld
  <2>2. server[m].names.quorum > 0 => \E s \in Standbys : Holds(s, w)
    BY <1>1, CommitHeld DEF Steady, Unpromoted
  <2>3. \A v \in synced' : v \in synced \/ (v = w /\ server[m].names.quorum > 0)
    BY DEF Commit
  <2>4. \A v \in synced' : \E s \in Standbys : Holds(s, v)
    BY <2>1, <2>2, <2>3
  <2> QED
    BY <1>2, <2>4 DEF SyncedHeld, Holds, Standbys, Incumbent
<1>4. Replicas' /\ Snapshot' /\ ~Awaits("fence")' /\ ~Awaits("promote")'
  BY <1>1, <1>2 DEF Steady, Unpromoted, Replicas, Snapshot, Awaits, Standbys, Incumbent
<1> QED
  BY <1>1, <1>2, <1>3, <1>4 DEF Steady, Unpromoted, SeenPrimary, Incumbent

LEMMA ProbeStep ==
  ASSUME RemoteApply, Types, Types', Steady \/ Fallen, Probe
  PROVE  Steady' \/ Fallen'
<1>1. Incumbent \in Members /\ Place(Incumbent) = 1 /\ \A m \in Standbys : m \in Members /\ m # Incumbent
  BY IncumbentIs
<1>2. PICK m : m = Order[probed + 1]
  OBVIOUS
<1>3. m \in Members /\ probed \in Nat /\ Place(m) = probed + 1
  <2>1. probed + 1 \in 1..Len(Order) /\ probed \in Nat
    BY Places DEF Types, TickTyped, Probe
  <2>2. m \in Members
    BY <1>2, <2>1, Places
  <2>3. Place(m) \in DOMAIN Order /\ probed + 1 \in DOMAIN Order /\ Order[Place(m)] = Order[probed + 1]
    BY <1>2, <2>1, <2>2, Places
  <2> QED
    BY <2>1, <2>2, <2>3, ClusterAssumption
<1>4. PICK s : s = server[m]
  OBVIOUS
<1>5. PICK seen : seen = IF s.up THEN [up |-> TRUE, recovery |-> s.recovery, fenced |-> s.readonly,
                                       lsn |-> s.replayed, follows |-> s.follows]
                                 ELSE Down
  OBVIOUS
<1>6. /\ live' = [live EXCEPT ![m] = seen] /\ probed' = probed + 1 /\ calls = <<>>
      /\ UNCHANGED <<server, calls, faults, pending, synced>>
  BY <1>2, <1>4, <1>5 DEF Probe, historyVars
<1>7. \A k \in Members : live'[k] = IF k = m THEN seen ELSE live[k]
  BY <1>6 DEF Types, TickTyped
<1>8. Unpromoted
  BY DEF Steady, Fallen
<1>9. Replicas' /\ SyncedHeld' /\ ~Awaits("fence")' /\ ~Awaits("promote")'
  BY <1>6, <1>8 DEF Unpromoted, Replicas, SyncedHeld, Holds, Awaits, Standbys, Incumbent
<1>10. m \in Standbys => seen.up /\ seen.recovery /\ seen.lsn = server[m].replayed
  BY <1>4, <1>5, <1>8 DEF Unpromoted, Replicas
<1>11. m = Incumbent => ~seen.recovery /\ ~seen.fenced /\ seen.up = server[Incumbent].up
  BY <1>1, <1>4, <1>5, <1>8, ServerFields DEF Types, Unpromoted, Replicas, Down
<1>12. Snapshot'
  <2>1. ASSUME NEW k \in Standbys
        PROVE  /\ live'[k].up <=> Place(k) <= probed'
               /\ live'[k].up => live'[k].recovery /\ live'[k].lsn <= server[k].replayed
    <3>1. CASE k = m
      <4>1. server[k].replayed <= server[k].replayed
        BY <1>1, ServerFields DEF Types
      <4> QED
        BY <1>1, <1>3, <1>6, <1>7, <1>10, <3>1, <4>1
    <3>2. CASE k # m
      <4>1. Place(k) # Place(m) /\ Place(k) \in Nat
        BY <1>1, <1>3, <3>2, Places
      <4>2. Place(k) <= probed' <=> Place(k) <= probed
        BY <1>3, <1>6, <4>1
      <4> QED
        BY <1>1, <1>7, <1>8, <3>2, <4>2 DEF Unpromoted, Snapshot
    <3> QED
      BY <3>1, <3>2
  <2>2. ~live'[Incumbent].recovery /\ ~live'[Incumbent].fenced
    BY <1>1, <1>7, <1>8, <1>11 DEF Unpromoted, Snapshot
  <2> QED
    BY <1>6, <1>8, <2>1, <2>2 DEF Unpromoted, Snapshot, Standbys, Incumbent
<1>13. Unpromoted'
  BY <1>6, <1>8, <1>9, <1>12 DEF Unpromoted, Incumbent
<1>14. CASE Steady
  <2>1. SeenPrimary(Incumbent)'
    <3>1. CASE m = Incumbent
      BY <1>1, <1>7, <1>11, <1>14, <3>1 DEF Steady, SeenPrimary, Incumbent
    <3>2. CASE m # Incumbent
      <4>1. probed > 0
        BY <1>2, <1>3, <3>2 DEF Incumbent
      <4> QED
        BY <1>1, <1>7, <1>14, <3>2, <4>1 DEF Steady, SeenPrimary, Incumbent
    <3> QED
      BY <3>1, <3>2
  <2> QED
    BY <1>6, <1>9, <1>13, <1>14, <2>1 DEF Steady, SeenPrimary, Incumbent
<1>15. CASE Fallen
  <2>1. SeenSynced => SeenSynced'
    <3> SUFFICES ASSUME SeenSynced, NEW w \in synced
                 PROVE  \E k \in Standbys : Holds(k, w)' /\ (live'[k].up => Reported(k, w)')
      BY <1>6 DEF SeenSynced, Standbys, Incumbent
    <3>1. PICK k \in Standbys : Holds(k, w) /\ (live[k].up => Reported(k, w))
      BY DEF SeenSynced
    <3>2. Holds(k, w)'
      BY <1>6, <3>1 DEF Holds
    <3>3. live'[k].up => Reported(k, w)'
      <4>1. CASE k = m
        BY <1>1, <1>6, <1>7, <1>10, <3>1, <4>1 DEF Holds, Reported
      <4>2. CASE k # m
        BY <1>1, <1>6, <1>7, <3>1, <4>2 DEF Reported
      <4> QED
        BY <4>1, <4>2
    <3> QED
      BY <3>2, <3>3
  <2>2. SeenDown' => SeenSynced'
    <3>1. CASE probed = 0
      <4>1. \A k \in Standbys : k # m /\ ~live[k].up
        BY <1>1, <1>2, <1>8, <3>1, Places DEF Unpromoted, Snapshot, Incumbent
      <4> QED
        BY <1>15, <2>1, <4>1 DEF Fallen, Unpromoted, SyncedHeld, SeenSynced
    <3>2. CASE probed # 0
      <4>1. probed > 0 /\ m # Incumbent
        BY <1>1, <1>3, <3>2
      <4>2. SeenDown' => SeenDown
        BY <1>1, <1>7, <4>1 DEF SeenDown, Incumbent
      <4> QED
        BY <1>15, <2>1, <4>2 DEF Fallen
    <3> QED
      BY <3>1, <3>2
  <2>3. BestIsPromoted'
    BY <1>6 DEF BestIsPromoted
  <2> QED
    BY <1>6, <1>13, <1>15, <2>2, <2>3 DEF Fallen, Incumbent
<1> QED
  BY <1>14, <1>15

\* A tick that has probed everybody, before the first promotion.
LEMMA DecidingIs ==
  ASSUME Types, Unpromoted, Deciding
  PROVE  /\ Candidates = Standbys /\ Primaries \subseteq {Incumbent}
         /\ Primaries = {} <=> SeenDown
<1>1. Incumbent \in Members /\ \A m \in Standbys : m \in Members /\ m # Incumbent
  BY IncumbentIs
<1>2. \A m \in Members : Place(m) <= probed
  BY Places DEF Deciding
<1>3. \A m \in Standbys : live[m].up /\ live[m].recovery
  BY <1>1, <1>2 DEF Unpromoted, Snapshot
<1>4. ~live[Incumbent].recovery /\ ~live[Incumbent].fenced
  BY DEF Unpromoted, Snapshot
<1>5. \A m \in Members : m = Incumbent \/ m \in Standbys
  BY DEF Standbys
<1>6. Candidates = Standbys
  BY <1>1, <1>3, <1>4, <1>5 DEF Candidates
<1>7. Primaries \subseteq {Incumbent}
  BY <1>1, <1>3, <1>5 DEF Primaries, SeenPrimary
<1>8. probed > 0
  BY IncumbentIs DEF Deciding
<1>9. Primaries = {} <=> SeenDown
  BY <1>1, <1>4, <1>7, <1>8 DEF Primaries, SeenPrimary, SeenDown
<1> QED
  BY <1>6, <1>7, <1>9

LEMMA DecideKeepStep ==
  ASSUME Types, Types', Steady \/ Fallen, DecideKeep
  PROVE  Steady' \/ Fallen'
<1>1. Incumbent \in Members /\ \A m \in Standbys : m \in Members /\ m # Incumbent
  BY IncumbentIs
<1>2. Unpromoted /\ Growing
  BY SameServers DEF Steady, Fallen, Unpromoted, DecideKeep
<1>3. Primaries = {Incumbent} /\ Keep = Incumbent
  BY <1>2, DecidingIs, KeepIs DEF DecideKeep
<1>4. ~Awaits("fence")' /\ ~Awaits("promote")'
  <2>1. \A i \in DOMAIN calls' : calls'[i].op # "promote" /\ (calls'[i].op = "fence" => calls'[i].on \in Primaries \ {Keep})
    BY KeepCalls
  <2> QED
    BY <1>3, <2>1 DEF Awaits
<1>5. UNCHANGED <<live, probed, faults, pending, synced>>
  BY DEF DecideKeep, historyVars
<1>6. CASE Steady
  BY <1>2, <1>4, <1>5, <1>6, SteadyNext DEF Unpromoted
<1>7. CASE Fallen
  <2>1. BestIsPromoted'
    BY <1>4 DEF Awaits, BestIsPromoted
  <2>2. pending' = {}
    BY <1>5, <1>7 DEF Fallen
  <2> QED
    BY <1>2, <1>4, <1>5, <1>7, <2>1, <2>2, FallenNext
<1> QED
  BY <1>6, <1>7

LEMMA DecidePromoteStep ==
  ASSUME Types, Types', Steady \/ Fallen, DecidePromote
  PROVE  Fallen'
<1>1. Incumbent \in Members /\ \A m \in Standbys : m \in Members /\ m # Incumbent
  BY IncumbentIs
<1>2. Unpromoted /\ Growing
  BY SameServers DEF Steady, Fallen, Unpromoted, DecidePromote
<1>3. Fallen
  <2>1. CASE Steady
    <3>1. probed > 0
      BY IncumbentIs DEF DecidePromote, Deciding
    <3>2. SeenPrimary(Incumbent)
      BY <2>1, <3>1 DEF Steady
    <3> QED
      BY <1>2, <3>2, DecidingIs DEF DecidePromote, SeenPrimary, SeenDown
  <2> QED
    BY <2>1
<1>4. UNCHANGED <<live, probed, faults, pending, synced>> /\ probed = Len(Order) /\ SeenDown
  BY <1>2, DecidingIs DEF DecidePromote, historyVars, Deciding
<1>5. ~Awaits("fence")'
  BY PromoteCalls DEF Awaits
<1>6. BestIsPromoted'
  <2> SUFFICES ASSUME NEW i \in DOMAIN calls', calls'[i].op = "promote"
               PROVE  /\ SeenDown' /\ probed' = Len(Order) /\ calls'[i].on \in Standbys
                      /\ \A m \in Standbys : live'[m].lsn <= live'[calls'[i].on].lsn
    BY DEF BestIsPromoted, SeenDown, Standbys, Incumbent
  <2>1. PICK n : n = calls'[i].on
    OBVIOUS
  <2>2. n \in Members /\ Winner(n)
    BY <2>1, PromoteCalls
  <2>3. Candidates = Standbys
    BY <1>2, DecidingIs DEF DecidePromote
  <2>4. \A m \in Standbys : live[m].lsn \in Nat
    BY <1>1 DEF Types, TickTyped, Status
  <2>5. n \in Standbys /\ \A m \in Standbys : live[m].lsn <= live[n].lsn
    BY <2>2, <2>3, <2>4 DEF Winner
  <2> QED
    BY <1>4, <2>1, <2>5 DEF SeenDown, Incumbent
<1>7. SeenSynced /\ pending' = {}
  BY <1>3, <1>4 DEF Fallen
<1> QED
  BY <1>2, <1>3, <1>4, <1>5, <1>6, <1>7, FallenNext

\* The tick is over, without a decision or with the watcher.
LEMMA TickOverStep ==
  ASSUME Types, Types', Steady \/ Fallen, DecideWait \/ WatcherRestart
  PROVE  Steady' \/ Fallen'
<1>1. Incumbent \in Members /\ \A m \in Standbys : m \in Members /\ m # Incumbent
  BY IncumbentIs
<1>2. Unpromoted /\ Growing
  BY SameServers DEF Steady, Fallen, Unpromoted, DecideWait, WatcherRestart
<1>3. TickEnds /\ UNCHANGED <<pending, synced>> /\ faults'["crash"] = faults["crash"]
  BY DEF DecideWait, WatcherRestart, historyVars, Happens, Types, FaultsTyped
<1>4. ~Awaits("fence")' /\ ~Awaits("promote")' /\ BestIsPromoted'
  BY <1>3 DEF TickEnds, Awaits, BestIsPromoted
<1>5. CASE Steady
  BY <1>2, <1>3, <1>4, <1>5, SteadyNext DEF Unpromoted
<1>6. CASE Fallen
  <2>1. pending' = {}
    BY <1>3, <1>6 DEF Fallen
  <2> QED
    BY <1>2, <1>3, <1>4, <1>6, <2>1, FallenNext
<1> QED
  BY <1>5, <1>6

\* No member but the primary is seen as one, and nobody is to be fenced.
LEMMA SafeFrom ==
  ASSUME Types, Unpromoted, UNCHANGED <<live, calls>>, faults'["crash"] = 1, Writable(Incumbent)'
  PROVE  Safe'
<1>1. Incumbent \in Members /\ \A m \in Members : m = Incumbent \/ m \in Standbys
  BY IncumbentIs DEF Standbys
<1>2. \A m \in Standbys : ~SeenPrimary(m)
  BY DEF Unpromoted, Snapshot, SeenPrimary
<1>3. PICK n \in Members : n = Incumbent
  BY <1>1
<1>4. Writable(n)'
  BY <1>3 DEF Writable, IsPrimary, Incumbent
<1>5. \A m \in Members : SeenPrimary(m)' => Writable(m)'
  <2> SUFFICES ASSUME NEW m \in Members, SeenPrimary(m)' PROVE Writable(m)'
    OBVIOUS
  <2>1. SeenPrimary(m)
    BY DEF SeenPrimary
  <2>2. m = n
    BY <1>1, <1>2, <1>3, <2>1
  <2> QED
    BY <1>4, <2>2
<1>6. ~Awaits("fence")'
  BY DEF Unpromoted, Awaits
<1> QED
  BY <1>4, <1>5, <1>6 DEF Safe

LEMMA CrashStep ==
  ASSUME Types, Types', Steady \/ Fallen, NEW m \in Members, Crash(m), Calm'
  PROVE  Fallen' \/ Safe'
<1>1. Incumbent \in Members /\ \A s \in Standbys : s \in Members /\ s # Incumbent
  BY IncumbentIs
<1>2. faults'["crash"] = faults["crash"] + 1 /\ faults["crash"] \in Nat
  BY DEF Crash, Happens, Types, FaultsTyped
<1>3. Steady /\ faults'["crash"] = 1
  BY <1>2 DEF Steady, Fallen, Calm
<1>4. /\ UNCHANGED <<live, probed, calls, synced>>
      /\ server' = [server EXCEPT ![m].up = FALSE]
  BY DEF Crash, watcherVars, historyVars
<1>5. \A k \in Members :
        /\ server'[k].recovery = server[k].recovery /\ server'[k].readonly = server[k].readonly
        /\ server'[k].cloneFrom = server[k].cloneFrom /\ server'[k].wal = server[k].wal
        /\ server'[k].replayed = server[k].replayed
        /\ server'[k].up = (server[k].up /\ k # m)
  BY <1>4 DEF Types, ServersTyped, Server
<1>6. CASE m = Incumbent
  <2>1. Unpromoted /\ Replicas
    BY <1>3 DEF Steady, Unpromoted
  <2>2. Replicas'
    BY <1>1, <1>5, <1>6, <2>1 DEF Replicas, Standbys, Incumbent
  <2>3. \A s \in Standbys : Grows(s)
    BY <1>1, <1>5, ServerFields DEF Grows, Types
  <2>4. pending' = {}
    BY <1>3, <1>6 DEF Crash, Dropped, Steady, Unpromoted
  <2>5. ~Awaits("fence")' /\ ~Awaits("promote")'
    BY <1>3, <1>4 DEF Awaits, Steady, Unpromoted
  <2>6. Unpromoted'
    BY <1>4, <2>1, <2>2, <2>3, <2>4, <2>5, UnpromotedNext
  <2>7. BestIsPromoted'
    BY <2>5 DEF Awaits, BestIsPromoted
  <2>8. ~server'[Incumbent].up
    BY <1>1, <1>5, <1>6
  <2>9. ~SeenDown'
    BY <1>3, <1>4 DEF Steady, SeenDown, SeenPrimary, Incumbent
  <2> QED
    BY <1>3, <2>4, <2>6, <2>7, <2>8, <2>9 DEF Fallen, Incumbent
<1>7. CASE m # Incumbent
  <2>1. Unpromoted /\ server'[Incumbent].up /\ ~server'[Incumbent].recovery /\ ~server'[Incumbent].readonly
    BY <1>1, <1>3, <1>5, <1>7 DEF Steady, Unpromoted, Replicas
  <2>2. Writable(Incumbent)'
    BY <2>1 DEF Writable, IsPrimary, Incumbent
  <2> QED
    BY <1>3, <1>4, <2>1, <2>2, SafeFrom
<1> QED
  BY <1>6, <1>7

LEMMA RestartStep ==
  ASSUME Types, Steady \/ Fallen, NEW m \in Members, Restart(m)
  PROVE  Safe'
<1>1. Incumbent \in Members /\ \A k \in Members : k = Incumbent \/ k \in Standbys
  BY IncumbentIs DEF Standbys
<1>2. Fallen /\ m = Incumbent
  BY <1>1 DEF Restart, Steady, Fallen, Unpromoted, Replicas
<1>3. server'[m].up /\ server'[m].recovery = server[m].recovery /\ server'[m].readonly = server[m].readonly
  BY DEF Restart, Types, ServersTyped, Server
<1>4. Writable(Incumbent)'
  BY <1>2, <1>3 DEF Fallen, Unpromoted, Replicas, Writable, IsPrimary, Incumbent
<1>5. Unpromoted /\ UNCHANGED <<live, calls>> /\ faults'["crash"] = 1
  BY <1>2 DEF Fallen, Restart, watcherVars
<1> QED
  BY <1>4, <1>5, SafeFrom

LEMMA PromoteStep ==
  ASSUME Types, Steady \/ Fallen, Promote
  PROVE  Safe'
<1>1. Awaits("promote") /\ calls # <<>>
  BY CallingAwaits DEF Promote, Types
<1>2. Fallen
  BY <1>1 DEF Steady
<1>3. PICK n \in Members : n = Head(calls).on
  BY <1>1, HeadIs DEF Types
<1>4. PICK r : r = [server[n] EXCEPT !.readonly = FALSE]
  OBVIOUS
<1>5. PICK s : s = Promoted(r)
  OBVIOUS
<1>6. server' = [server EXCEPT ![n] = s] /\ server[n].up
  BY <1>3, <1>4, <1>5 DEF Promote
<1>7. s.up /\ ~s.recovery /\ ~s.readonly
  <2>1. r \in Server /\ r.up /\ ~r.readonly
    BY <1>4, <1>6 DEF Types, ServersTyped, Server
  <2>2. PICK length : length = Len(r.wal)
    OBVIOUS
  <2>3. s = [r EXCEPT !.recovery = FALSE, !.replayed = length]
    BY <1>5, <2>2 DEF Promoted
  <2> QED
    BY <2>1, <2>3 DEF Server
<1>8. server'[n] = s
  BY <1>6 DEF Types, ServersTyped
<1>9. Writable(n)'
  BY <1>7, <1>8 DEF Writable, IsPrimary
<1>10. faults'["crash"] = 1 /\ NextCall
  BY <1>2 DEF Fallen, Promote
<1>11. CASE TickEnds
  BY <1>9, <1>10, <1>11, SafeTickOver
<1>12. CASE ~TickEnds
  <2>1. calls' = Tail(calls) /\ Len(calls) # 1 /\ Len(calls) \in Nat \ {0}
    BY <1>1, <1>10, <1>12, HeadIs DEF NextCall, Types
  <2>2. Len(calls') # 0
    BY <2>1 DEF Types, TickTyped
  <2>3. calls' # <<>>
    BY <2>2
  <2>4. ~Awaits("fence")'
    BY <1>1, <1>2, <1>10, AwaitsLess DEF Fallen, Unpromoted, Types
  <2> QED
    BY <1>9, <1>10, <2>3, <2>4 DEF Safe
<1> QED
  BY <1>11, <1>12

\* The standby that is to be promoted waits for it, and nobody is to be fenced, to rejoin or to
\* be cloned.
LEMMA NotYet ==
  ASSUME Types, Steady \/ Fallen
  PROVE  /\ ~PromoteFails /\ ~Fence /\ ~CallFails("fence")
         /\ \A m \in Members : ~StartRejoin(m) /\ ~BaseBackup(m)
<1>1. Unpromoted /\ Replicas
  BY DEF Steady, Fallen, Unpromoted
<1>2. ~Fence /\ ~CallFails("fence")
  BY <1>1, CallingAwaits DEF Unpromoted, Fence, CallFails, Types
<1>3. \A m \in Members : ~StartRejoin(m) /\ ~BaseBackup(m)
  BY <1>1 DEF Replicas, StartRejoin, BaseBackup, Standbys
<1>4. ASSUME PromoteFails
      PROVE  FALSE
  <2>1. Awaits("promote") /\ 1 \in DOMAIN calls /\ Head(calls) = calls[1] /\ calls[1].op = "promote"
    BY <1>4, CallingAwaits DEF PromoteFails, Types
  <2>2. calls[1].on \in Standbys
    BY <2>1 DEF Steady, Fallen, BestIsPromoted
  <2> QED
    BY <1>1, <1>4, <2>1, <2>2 DEF PromoteFails, Replicas
<1> QED
  BY <1>2, <1>3, <1>4

LEMMA SettingsStep ==
  ASSUME Types, Types', Steady \/ Fallen, Repoint \/ ApplyPrimaryConfig \/ CallFails("repoint") \/ CallFails("configure")
  PROVE  Steady' \/ Fallen'
<1>1. calls # <<>> /\ NextCall /\ UNCHANGED <<synced, pending, faults>>
  BY DEF Repoint, ApplyPrimaryConfig, CallFails, Calling, historyVars
<1>2. PICK m \in Members : m = Head(calls).on
  BY <1>1, HeadIs DEF Types
<1>3. SettingsOnly
  <2>1. CASE Repoint
    BY <1>2, <2>1 DEF Repoint, SettingsOnly, Types, ServersTyped, Server
  <2>2. CASE ApplyPrimaryConfig
    <3>1. PICK names : names = SyncStandbyNames(m)
      OBVIOUS
    <3>2. server' = [server EXCEPT ![m].names = names]
      BY <1>2, <2>2, <3>1 DEF ApplyPrimaryConfig
    <3> QED
      BY <3>2 DEF SettingsOnly, Types, ServersTyped, Server
  <2>3. CASE CallFails("repoint") \/ CallFails("configure")
    BY <2>3 DEF CallFails, SettingsOnly
  <2> QED
    BY <2>1, <2>2, <2>3
<1>4. Growing
  BY <1>3, SettingsGrow DEF Steady, Fallen, Unpromoted
<1> QED
  BY <1>1, <1>4, CallStep

LEMMA PostgresStep ==
  ASSUME Types, Types', Steady \/ Fallen, NEW m \in Members,
         Write(m) \/ Replay(m) \/ \E s \in Members : Replicate(s, m)
  PROVE  Steady' \/ Fallen'
<1>1. Replicas
  BY DEF Steady, Fallen, Unpromoted
<1>2. UNCHANGED <<live, probed, calls, synced, faults>>
  BY DEF Write, Replay, Replicate, watcherVars, historyVars
<1>3. CASE Write(m)
  <2>1. Growing /\ m = Incumbent /\ server[Incumbent].up
    BY <1>1, <1>3, WriteGrows
  <2>2. pending \subseteq Writes \X {Incumbent} /\ pending' = pending \cup {<<written + 1, m>>}
    BY <1>3 DEF Write, Steady, Fallen, Unpromoted
  <2>3. written + 1 \in Writes
    BY <1>3, NumbersAssumption DEF Types, WritesTyped, Write, Writes
  <2>4. pending' \subseteq Writes \X {Incumbent}
    BY <2>1, <2>2, <2>3
  <2> QED
    BY <1>2, <2>1, <2>4, DataStep
<1>4. CASE Replay(m)
  BY <1>1, <1>2, <1>4, ReplayGrows, DataStep DEF Replay
<1>5. CASE \E s \in Members : Replicate(s, m)
  BY <1>1, <1>2, <1>5, ReplicateGrows, DataStep DEF Replicate
<1> QED
  BY <1>3, <1>4, <1>5

LEMMA UnpromotedStep ==
  ASSUME RemoteApply, Types, Types', Quiet, Steady \/ Fallen, Next, Calm'
  PROVE  Steady' \/ Fallen' \/ Safe'
<1>1. CASE Probe \/ DecideKeep \/ DecidePromote \/ DecideWait \/ WatcherRestart
  BY <1>1, ProbeStep, DecideKeepStep, DecidePromoteStep, TickOverStep
<1>2. CASE \/ Fence \/ CallFails("fence") \/ Repoint \/ CallFails("repoint")
           \/ ApplyPrimaryConfig \/ CallFails("configure") \/ Promote \/ PromoteFails
  BY <1>2, NotYet, SettingsStep, PromoteStep
<1>3. ASSUME NEW m \in Members,
             \/ Write(m) \/ Replay(m) \/ Crash(m) \/ Restart(m) \/ StartRejoin(m) \/ BaseBackup(m)
             \/ \E w \in Writes : Commit(w, m)
             \/ \E s \in Members : Replicate(s, m)
      PROVE  Steady' \/ Fallen' \/ Safe'
  BY <1>3, NotYet, PostgresStep, CrashStep, RestartStep, CommitStep
<1> QED
  BY <1>1, <1>2, <1>3, QuietSteps DEF WatcherStep

LEMMA GuardedStep ==
  ASSUME RemoteApply, Types, Types', Fencing, Guarded, [Next]_vars
  PROVE  Guarded'
<1>1. CASE UNCHANGED vars
  <2>1. UNCHANGED <<server, pending, live, probed, calls, op, faults, synced, overlapped>>
    BY <1>1 DEF vars, watcherVars, historyVars
  <2>2. Calm' <=> Calm
    BY <2>1 DEF Calm
  <2>3. Quiet' <=> Quiet
    BY <2>1 DEF Quiet
  <2>4. Unpromoted' <=> Unpromoted
    BY <2>1 DEF Unpromoted, Replicas, Snapshot, SyncedHeld, Holds, Awaits, Standbys, Incumbent
  <2>5. Steady => Steady'
    BY <2>1, <2>4 DEF Steady, SeenPrimary, Awaits, Incumbent
  <2>6. Fallen => Fallen'
    BY <2>1, <2>4 DEF Fallen, SeenDown, SeenSynced, Reported, Holds, BestIsPromoted, Standbys, Incumbent
  <2>7. Safe => Safe'
    BY <2>1 DEF Safe, Writable, IsPrimary, SeenPrimary, Awaits, Kept
  <2> QED
    BY <2>2, <2>3, <2>5, <2>6, <2>7 DEF Guarded
<1>2. CASE Next
  <2> SUFFICES ASSUME Calm' PROVE Quiet' /\ (Steady' \/ Fallen' \/ Safe')
    BY DEF Guarded
  <2>1. Calm
    BY FaultsCount DEF Calm
  <2>2. Quiet /\ (Steady \/ Fallen \/ Safe)
    BY <2>1 DEF Guarded
  <2>3. Quiet'
    BY <1>2, <2>2, QuietSteps
  <2>4. CASE Safe
    BY <1>2, <2>2, <2>3, <2>4, SafeStep
  <2>5. CASE Steady \/ Fallen
    BY <1>2, <2>2, <2>3, <2>5, UnpromotedStep
  <2> QED
    BY <2>2, <2>4, <2>5
<1> QED
  BY <1>1, <1>2

LEMMA InitGuarded ==
  ASSUME Init
  PROVE  Guarded
<1>1. Incumbent \in Members /\ \A m \in Standbys : m \in Members /\ m # Incumbent
  BY IncumbentIs
<1>2. server[Incumbent].up /\ ~server[Incumbent].recovery /\ ~server[Incumbent].readonly
        /\ server[Incumbent].cloneFrom = Nobody /\ server[Incumbent].wal = <<>>
  BY <1>1 DEF Init, Incumbent
<1>3. \A m \in Standbys :
        /\ server[m].up /\ server[m].recovery /\ ~server[m].readonly /\ server[m].cloneFrom = Nobody
        /\ server[m].wal = <<>> /\ server[m].replayed = 0
  BY <1>1 DEF Init, Incumbent
<1>4. Extends(<<>>, <<>>) /\ 0 <= Len(<<>>)
  BY DEF Extends
<1>5. Replicas
  BY <1>2, <1>3, <1>4 DEF Replicas
<1>6. \A m \in Members : live[m] = Down
  BY DEF Init
<1>7. \A m \in Members : ~(Place(m) <= 0)
  BY Places
<1>8. Snapshot
  BY <1>1, <1>6, <1>7 DEF Snapshot, Down, Init
<1>9. \A what : ~Awaits(what)
  BY DEF Init, Awaits
<1>10. Unpromoted
  BY <1>5, <1>8, <1>9 DEF Unpromoted, SyncedHeld, Init
<1>11. Steady
  BY <1>1, <1>2, <1>6, <1>9, <1>10 DEF Steady, Init
<1> QED
  BY <1>11 DEF Guarded, Quiet, Init, NoOp

LEMMA GuardedAlways ==
  ASSUME RemoteApply
  PROVE  Spec => [](Types /\ Fencing /\ Guarded)
<1>1. Init => Guarded
  BY InitGuarded
<1>2. Types /\ Types' /\ Fencing /\ Guarded /\ [Next]_vars => Guarded'
  BY GuardedStep
<1> QED
  BY <1>1, <1>2, FencingAlways, PTL DEF Spec

\* When the primary of any cluster has crashed and no other member has, the standby that the
\* watcher promotes has every write that was acknowledged by synchronous standbys, whatever the
\* watcher's restarts and rejoins between.  It takes remote_apply, as the watcher compares what
\* the standbys have replayed.
THEOREM PromotionKept ==
  ASSUME RemoteApply
  PROVE  Spec => PromotionKeepsSynced
<1>1. Types /\ Guarded /\ [Next]_vars =>
        [Promote /\ faults["crash"] <= 1 /\ faults["switchover"] = 0 /\ (\A m \in Members : ~Writable(m))
           => synced \subseteq ToSet(server[Head(calls).on].wal)]_vars
  <2> SUFFICES ASSUME Types, Guarded, Promote, Calm, \A m \in Members : ~Writable(m), NEW w \in synced
               PROVE  w \in ToSet(server[Head(calls).on].wal)
    BY DEF Calm
  <2>1. Awaits("promote") /\ 1 \in DOMAIN calls /\ Head(calls) = calls[1] /\ calls[1].op = "promote"
    BY CallingAwaits DEF Promote, Types
  <2>2. Fallen
    BY <2>1 DEF Guarded, Steady, Safe
  <2>3. PICK n : n = calls[1].on
    OBVIOUS
  <2>4. n \in Standbys /\ SeenDown /\ probed = Len(Order) /\ \A m \in Standbys : live[m].lsn <= live[n].lsn
    BY <2>1, <2>2, <2>3 DEF Fallen, BestIsPromoted
  <2>5. Incumbent \in Members /\ \A m \in Standbys : m \in Members
    BY IncumbentIs
  <2>6. \A m \in Standbys : live[m].up
    BY <2>2, <2>4, <2>5, Places DEF Fallen, Unpromoted, Snapshot
  <2>7. PICK s \in Standbys : Reported(s, w)
    BY <2>2, <2>4, <2>6 DEF Fallen, SeenSynced
  <2>8. PICK k \in DOMAIN server[s].wal : server[s].wal[k] = w /\ k <= live[s].lsn
    BY <2>7 DEF Reported
  <2>9. PICK iw, sw, nw : iw = server[Incumbent].wal /\ sw = server[s].wal /\ nw = server[n].wal
    OBVIOUS
  <2>10. sw \in Seq(Writes) /\ nw \in Seq(Writes)
    BY <2>4, <2>5, <2>9, ServerFields DEF Types
  <2>11. Extends(iw, sw) /\ Extends(iw, nw) /\ live[n].lsn <= server[n].replayed /\ server[n].replayed <= Len(nw)
    BY <2>2, <2>4, <2>6, <2>9 DEF Fallen, Unpromoted, Replicas, Snapshot
  <2>12. k \in 1..Len(sw) /\ k <= Len(nw)
    <3>1. live[s].lsn \in Nat /\ live[n].lsn \in Nat /\ server[n].replayed \in Nat /\ Len(nw) \in Nat
      BY <2>4, <2>5, <2>10, ServerFields DEF Types, TickTyped, Status
    <3>2. k \in 1..Len(sw)
      BY <2>8, <2>9, <2>10
    <3>3. live[s].lsn <= live[n].lsn
      BY <2>4
    <3> QED
      BY <2>8, <2>11, <3>1, <3>2, <3>3
  <2>13. k \in 1..Len(nw)
    BY <2>10, <2>12
  <2>14. nw[k] = iw[k] /\ sw[k] = iw[k]
    BY <2>11, <2>12, <2>13 DEF Extends
  <2>15. nw[k] = w /\ k \in DOMAIN nw
    BY <2>8, <2>9, <2>10, <2>13, <2>14
  <2> QED
    BY <2>1, <2>3, <2>9, <2>15 DEF ToSet
<1> QED
  BY <1>1, GuardedAlways, PTL DEF Spec, PromotionKeepsSynced
=============================================================================
