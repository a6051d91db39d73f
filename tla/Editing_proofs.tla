--------------------------- MODULE Editing_proofs ---------------------------
(***************************************************************************)
(* Proofs about the sessions that edit a system and about its containers.   *)
(*                                                                         *)
(* Authoring: the edit queue serves its items, whatever the dialogs launch  *)
(* and resume and whatever disturbs the terminal.                           *)
(*                                                                         *)
(* Runtime: the containers that run are those of the active system, edits,  *)
(* activations, outages and restarts overlapping as they may.               *)
(***************************************************************************)
EXTENDS Authoring, Runtime, SequenceTheorems, FiniteSetTheorems, WellFoundedInduction, TLAPS

-----------------------------------------------------------------------------
(* Authoring. *)

\* The queue's own part: of the items, all of them different, the first has its turn and the others
\* wait; the terminal that is shown has one connection, to the session it shows; and a conversation
\* that has begun has been stored, one that has worked has done its task.
Places ==
  /\ \A i, j \in DOMAIN queue : queue[i].id = queue[j].id => i = j
  /\ \A i \in DOMAIN queue : queue[i].status = "pending" <=> i # 1
Attached ==
  /\ shown <=> conn.stage # "unmounted"
  /\ ~shown => conn = Unmounted
  /\ shown => conn.session = terminal.session
  /\ terminal.mode = "adhoc" <=> terminal.session = None
  /\ conn.mode = "adhoc" <=> conn.session = None
Progressed ==
  /\ conn.progress # "starting" /\ conn.session # None => conn.session \in created
  /\ conn.progress \in {"worked", "printed", "told"} => conn.session \in finished
ItemServed(it) ==
  /\ it.status = "running" /\ it.id \notin lapsed => Watched(it.id)
  /\ it.status = "done" => it.id \in finished
  /\ it.status = "pending" /\ it.id \notin lapsed => it.id \notin created /\ it.id # terminal.session
Served == \A i \in DOMAIN queue : ItemServed(queue[i])
Orderly == QueueTypeOK /\ Places /\ Attached /\ Progressed /\ Served

\* The dialogs' part: what is queued, stored or opened as new has been launched, what is resumed is of
\* a record, and a record's conversation has been launched, is about to be, or has been lost.
Within(X, Y) ==
  /\ Queued(queue) \subseteq X /\ created \subseteq X
  /\ terminal.mode = "new" => terminal.session \in X
  /\ conn.mode = "new" => conn.session \in X
  /\ terminal.session \in X \union Y \union {None}
Launches == kind \in Kind /\ DOMAIN task \subseteq Conv /\ Within(DOMAIN task, mishap.convs)
Mishaps ==
  /\ mishap = [keys |-> mishap.keys, convs |-> mishap.convs, runs |-> mishap.runs]
  /\ mishap.convs \subseteq Conv
Shaped(r, C) ==
  \A k \in DOMAIN r : r[k] = Record(r[k].conv, r[k].spec, r[k].wired) /\ r[k].conv \in C
Records ==
  Shaped(record, DOMAIN task \union mishap.convs \union {None} \union (IF Launching THEN {dialog.conv} ELSE {}))
Sending ==
  /\ dialog.stage \in {"closed", "open", "sent"}
  /\ dialog.stage = "sent" => dialog.conv \in Conv
  /\ Launching => dialog.conv \notin DOMAIN task /\ dialog.conv # terminal.session
Drafts == Launches /\ Mishaps /\ Records /\ Sending

IInv == Orderly /\ Drafts
-----------------------------------------------------------------------------
(* Sets of numbers, and sequences filtered. *)

\* Of some numbers one is the smallest, and of the places of a sequence one is the last.
LEMMA Minimum ==
  ASSUME NEW S \in SUBSET Nat, S # {}
  PROVE  \E m \in S : \A n \in S : m <= n
<1>1. PICK less : less = {ss \in Nat \X Nat : ss[1] < ss[2]}
  OBVIOUS
<1>2. IsWellFoundedOn(less, Nat)
  BY <1>1, NatLessThanWellFounded DEF OpToRel
<1>3. PICK m \in S : \A n \in S : <<n, m>> \notin less
  BY <1>2, WFMin
<1>4. ASSUME NEW n \in S PROVE m <= n
  <2>1. m \in Nat /\ n \in Nat /\ <<n, m>> \in Nat \X Nat /\ <<n, m>>[1] = n /\ <<n, m>>[2] = m
    OBVIOUS
  <2>2. ~(n < m)
    BY <1>1, <1>3, <2>1
  <2> QED
    BY <2>1, <2>2
<1> QED
  BY <1>4

Rises(f, at) == f \in [1..Cardinality(at) -> at] /\ \A j, k \in DOMAIN f : j < k => f[j] < f[k]

\* The places of a sequence can be listed in order, and then all of them are listed.
LEMMA AscendingIs ==
  ASSUME NEW n \in Nat, NEW at \in SUBSET (1..n)
  PROVE  /\ Cardinality(at) \in Nat
         /\ Rises(Ascending(at), at)
         /\ \A i \in at : \E k \in 1..Cardinality(at) : Ascending(at)[k] = i
<1>1. \A S \in SUBSET at : IsFiniteSet(S) /\ Cardinality(S) \in Nat /\ S \in SUBSET Nat
  <2> SUFFICES ASSUME NEW S \in SUBSET at PROVE IsFiniteSet(S) /\ Cardinality(S) \in Nat /\ S \in SUBSET Nat
    OBVIOUS
  <2>1. S \in SUBSET (1..n) /\ IsFiniteSet(1..n)
    BY FS_Interval
  <2>2. IsFiniteSet(S)
    BY <2>1, FS_Subset
  <2> QED
    BY <2>1, <2>2, FS_CardinalityType
<1>2. IsWellFoundedOn(StrictSubsetOrdering(at), SUBSET at)
  BY <1>1, FS_StrictSubsetOrderingWellFounded, FS_FiniteSubsetsOfFinite
<1> DEFINE Unlisted == {S \in SUBSET at : \A f : ~Rises(f, S)}
<1>3. Unlisted = {}
  <2> SUFFICES ASSUME Unlisted # {} PROVE FALSE
    OBVIOUS
  <2>1. PICK S \in Unlisted : \A T \in Unlisted : <<T, S>> \notin StrictSubsetOrdering(at)
    BY <1>2, WFMin
  <2>2. S \in SUBSET at /\ S \in SUBSET Nat /\ (\A f : ~Rises(f, S)) /\ IsFiniteSet(S) /\ S \in SUBSET (1..n)
    BY <1>1, <2>1
  <2>3. CASE S = {}
    <3>1. Cardinality(S) = 0 /\ 1..0 = {}
      BY <2>3, FS_EmptySet
    <3>2. Rises([k \in 1..0 |-> k], S)
      BY <2>3, <3>1 DEF Rises
    <3> QED
      BY <2>2, <3>2
  <2>4. CASE S # {}
    <3> DEFINE Down == {n - i : i \in S}
    <3>1. PICK d \in Down : \A e \in Down : d <= e
      <4>1. Down \in SUBSET Nat /\ Down # {}
        <5>1. ASSUME NEW i \in S PROVE n - i \in Nat
          BY <2>2
        <5> QED
          BY <2>4, <5>1
      <4> HIDE DEF Down
      <4> QED
        BY <4>1, Minimum
    <3>2. PICK x \in S : \A i \in S : i <= x
      <4>1. PICK x \in S : d = n - x
        BY <3>1
      <4>2. \A i \in S : n - i \in Down /\ i \in 0..n
        BY <2>2
      <4>3. \A i \in S : d <= n - i
        BY <3>1, <4>2
      <4> QED
        BY <4>1, <4>2, <4>3
    <3>3. PICK T : T = S \ {x}
      OBVIOUS
    <3>4. T \in SUBSET at /\ <<T, S>> \in StrictSubsetOrdering(at)
      BY <2>2, <3>2, <3>3 DEF StrictSubsetOrdering
    <3>5. PICK f : Rises(f, T)
      BY <2>1, <3>4
    <3>6. PICK c \in Nat : c = Cardinality(T) /\ Cardinality(S) = c + 1
      BY <1>1, <2>2, <3>2, <3>3, <3>4, FS_RemoveElement
    <3>7. PICK g : g = [k \in 1..(c + 1) |-> IF k = c + 1 THEN x ELSE f[k]]
      OBVIOUS
    <3>8. \A k \in 1..c : g[k] = f[k] /\ f[k] \in T
      BY <3>5, <3>6, <3>7 DEF Rises
    <3>9. g \in [1..(c + 1) -> S] /\ g[c + 1] = x /\ DOMAIN g = 1..(c + 1)
      <4>1. \A k \in 1..(c + 1) : k = c + 1 \/ k \in 1..c
        OBVIOUS
      <4>2. \A k \in 1..c : g[k] \in S
        BY <3>3, <3>8
      <4>3. g[c + 1] = x /\ DOMAIN g = 1..(c + 1)
        BY <3>7
      <4> QED
        BY <3>2, <3>7, <4>1, <4>2, <4>3
    <3>10. \A k \in 1..c : g[k] < x
      <4> SUFFICES ASSUME NEW k \in 1..c PROVE g[k] < x
        OBVIOUS
      <4>1. PICK y : y = g[k]
        OBVIOUS
      <4>2. y \in S /\ y # x
        BY <3>3, <3>8, <4>1
      <4>3. y <= x /\ y \in Nat /\ x \in Nat
        BY <2>2, <3>2, <4>2
      <4> QED
        BY <4>1, <4>2, <4>3
    <3>11. \A j, k \in 1..(c + 1) : j < k => g[j] < g[k]
      <4> SUFFICES ASSUME NEW j \in 1..(c + 1), NEW k \in 1..(c + 1), j < k PROVE g[j] < g[k]
        OBVIOUS
      <4>1. j \in 1..c
        OBVIOUS
      <4>2. CASE k = c + 1
        BY <3>9, <3>10, <4>1, <4>2
      <4>3. CASE k # c + 1
        <5>1. k \in 1..c
          BY <4>3
        <5> QED
          BY <3>5, <3>6, <3>8, <4>1, <5>1 DEF Rises
      <4> QED
        BY <4>2, <4>3
    <3>12. Rises(g, S)
      BY <3>6, <3>9, <3>11 DEF Rises
    <3> QED
      BY <2>2, <3>12
  <2> QED
    BY <2>3, <2>4
<1>4. PICK f : Rises(f, at)
  BY <1>3
<1>5. Rises(Ascending(at), at)
  BY <1>4 DEF Rises, Ascending
<1>6. PICK g, m : g = Ascending(at) /\ m = Cardinality(at)
  OBVIOUS
<1>7. m \in Nat /\ g \in [1..m -> at] /\ \A j, k \in 1..m : j < k => g[j] < g[k]
  BY <1>1, <1>5, <1>6 DEF Rises
<1>8. g \in Injection(1..m, at)
  <2>1. \A j, k \in 1..m : g[j] \in Nat /\ g[k] \in Nat /\ (j < k \/ k < j \/ j = k)
    <3>1. (\A j \in 1..m : g[j] \in at) /\ \A i \in at : i \in Nat
      BY <1>7
    <3>2. \A j, k \in 1..m : j < k \/ k < j \/ j = k
      OBVIOUS
    <3> QED
      BY <3>1, <3>2
  <2>2. \A j, k \in 1..m : g[j] = g[k] => j = k
    BY <1>7, <2>1
  <2> QED
    BY <1>7, <2>2 DEF Injection, IsInjective
<1>9. IsFiniteSet(at) /\ Cardinality(1..m) = Cardinality(at)
  BY <1>1, <1>6, <1>7, FS_Interval
<1>10. g \in Surjection(1..m, at)
  BY <1>8, <1>9, FS_Injection
<1> QED
  BY <1>1, <1>5, <1>6, <1>10 DEF Surjection

\* What is left of a sequence: its items at the places, in their order.
Selects(q, at, f, m, S) ==
  /\ m \in Nat /\ f \in [1..m -> at] /\ (at # {} => m > 0)
  /\ \A j, k \in 1..m : j < k => f[j] < f[k]
  /\ \A i \in at : \E k \in 1..m : f[k] = i
  /\ Filtered(q, at) \in Seq(S) /\ DOMAIN Filtered(q, at) = 1..m
  /\ \A k \in 1..m : Filtered(q, at)[k] = q[f[k]]

LEMMA FilteredIs ==
  ASSUME NEW S, NEW q \in Seq(S), NEW at \in SUBSET DOMAIN q
  PROVE  \E f, m : Selects(q, at, f, m, S)
<1>1. at \in SUBSET (1..Len(q)) /\ Len(q) \in Nat /\ \A i \in at : q[i] \in S
  OBVIOUS
<1>2. PICK f, m : f = Ascending(at) /\ m = Cardinality(at)
  OBVIOUS
<1>3. m \in Nat /\ Rises(f, at) /\ \A i \in at : \E k \in 1..m : f[k] = i
  BY <1>1, <1>2, AscendingIs
<1>4. f \in [1..m -> at] /\ \A j, k \in 1..m : j < k => f[j] < f[k]
  BY <1>2, <1>3 DEF Rises
<1>5. PICK r : r = [k \in 1..m |-> q[f[k]]]
  OBVIOUS
<1>6. r \in Seq(S) /\ DOMAIN r = 1..m /\ \A k \in 1..m : r[k] = q[f[k]]
  BY <1>1, <1>3, <1>4, <1>5
<1>7. Filtered(q, at) = r
  BY <1>2, <1>5 DEF Filtered
<1>8. at # {} => m > 0
  <2> SUFFICES ASSUME NEW i \in at PROVE m > 0
    OBVIOUS
  <2>1. PICK k \in 1..m : f[k] = i
    BY <1>3
  <2> QED
    BY <1>3, <2>1
<1>9. Selects(q, at, f, m, S)
  BY <1>3, <1>4, <1>6, <1>7, <1>8 DEF Selects
<1> QED
  BY <1>9
-----------------------------------------------------------------------------
(* The queue when it is settled. *)

Item == [id : Conv, status : Status]
Distinct(q) == \A i, j \in DOMAIN q : q[i].id = q[j].id => i = j
Waits(q) == \A i \in DOMAIN q : q[i].status = "pending"
Turns(q) == \A i \in DOMAIN q : q[i].status = "pending" <=> i # 1

LEMMA QueueTyped ==
  ASSUME QueueTypeOK
  PROVE  /\ queue \in Seq(Item) /\ Len(queue) \in Nat /\ DOMAIN queue = 1..Len(queue)
         /\ \A i \in DOMAIN queue : queue[i] \in Item /\ queue[i].id \in Conv
<1>1. queue \in Seq(Item)
  BY DEF QueueTypeOK, Item
<1>2. \A i \in DOMAIN queue : queue[i] \in Item
  BY <1>1
<1> QED
  BY <1>1, <1>2 DEF Item

\* Something has its turn, or there is nothing.
LEMMA SettleBusy ==
  ASSUME NEW q \in Seq(Item), Turns(q), NEW t, NEW s \in BOOLEAN, Settle(q, t, s)
  PROVE  queue' = q /\ terminal' = t /\ shown' = s /\ conn' = Attach(t, s)
<1>1. ~(Active(q) = {} /\ PendingAt(q) # {})
  <2> SUFFICES ASSUME NEW i \in PendingAt(q) PROVE Active(q) # {}
    OBVIOUS
  <2>1. 1 \in DOMAIN q /\ q[1].status # "pending" /\ q[1] \in Item
    BY DEF PendingAt, Turns
  <2> QED
    BY <2>1 DEF Active, Item, Status
<1> QED
  BY <1>1 DEF Settle

\* The first of those that wait has it now.
LEMMA SettleIdle ==
  ASSUME NEW q \in Seq(Item), q # <<>>, Waits(q), NEW t, NEW s, Settle(q, t, s)
  PROVE  /\ queue' = [q EXCEPT ![1].status = "running"]
         /\ terminal' = [session |-> q[1].id, mode |-> "new"]
         /\ shown' = TRUE
         /\ conn' = Attach([session |-> q[1].id, mode |-> "new"], TRUE)
<1>1. Active(q) = {} /\ PendingAt(q) = 1..Len(q) /\ 1 \in 1..Len(q)
  BY DEF Active, PendingAt, Waits
<1>2. (CHOOSE i \in PendingAt(q) : \A j \in PendingAt(q) : i <= j) = 1
  <2>1. \A i \in 1..Len(q) : (\A j \in 1..Len(q) : i <= j) <=> i = 1
    BY <1>1
  <2> QED
    BY <1>1, <2>1
<1> QED
  BY <1>1, <1>2 DEF Settle

LEMMA Promotes ==
  ASSUME QueueTypeOK, Attached, Progressed,
         NEW q \in Seq(Item), q # <<>>, Distinct(q), Waits(q), NEW t, NEW s, Settle(q, t, s),
         created' = created, finished' = finished, upsets' \in 0..MaxUpsets, lapsed' \subseteq Conv,
         \A i \in DOMAIN q : q[i].id \notin lapsed' => q[i].id \notin created /\ q[i].id # terminal.session
  PROVE  Orderly'
<1> PICK id, next : id = q[1].id /\ next = [session |-> id, mode |-> "new"]
  OBVIOUS
<1>1. /\ queue' = [q EXCEPT ![1].status = "running"]
      /\ terminal' = next /\ shown' = TRUE /\ conn' = Attach(next, TRUE)
  BY SettleIdle
<1>2. 1 \in DOMAIN q /\ DOMAIN queue' = DOMAIN q /\ DOMAIN q = 1..Len(q) /\ \A i \in DOMAIN q : q[i] \in Item
  BY <1>1
<1>3. id \in Conv /\ id # None
  BY <1>2, NoneIsNoConversation DEF Item
<1>4. queue' \in Seq(Item) /\ queue'[1] = [id |-> id, status |-> "running"]
  BY <1>1, <1>2 DEF Item, Status
<1>5. \A i \in DOMAIN q : i # 1 => queue'[i] = q[i]
  BY <1>1, <1>2
<1>6. \A i \in DOMAIN q : queue'[i].id = q[i].id
  BY <1>4, <1>5
<1>7. Places'
  BY <1>2, <1>4, <1>5, <1>6 DEF Places, Distinct, Waits
<1>8. CASE KeepsConnection(next)
  <2>1. conn' = conn /\ conn.session = id /\ shown /\ terminal.session = id
    BY <1>1, <1>8 DEF Attach, KeepsConnection, Attached
  <2>2. QueueTypeOK'
    BY <1>1, <1>3, <1>4, <2>1 DEF QueueTypeOK, Item, Session, Mode
  <2>3. Attached' /\ Progressed'
    BY <1>1, <1>3, <1>8, <2>1 DEF Attached, Progressed, KeepsConnection
  <2>4. id \in lapsed'
    BY <1>2, <2>1
  <2>5. Served'
    <3> SUFFICES ASSUME NEW i \in DOMAIN q PROVE ItemServed(queue[i])'
      BY <1>2 DEF Served
    <3>1. CASE i = 1
      BY <1>4, <2>4, <3>1 DEF ItemServed
    <3>2. CASE i # 1
      <4>1. queue'[i] = q[i] /\ q[i].status = "pending" /\ q[i].id # id
        BY <1>2, <1>5, <3>2 DEF Waits, Distinct
      <4> QED
        BY <1>1, <4>1 DEF ItemServed
    <3> QED
      BY <3>1, <3>2
  <2> QED
    BY <1>7, <2>2, <2>3, <2>5 DEF Orderly
<1>9. CASE ~KeepsConnection(next)
  <2>1. /\ conn' = [session |-> id, mode |-> "new", stage |-> "deferred", progress |-> "starting"]
        /\ queue' \in Seq(Item) /\ terminal' = next /\ shown' = TRUE
    BY <1>1, <1>4, <1>9 DEF Attach, Deferred
  <2>2. QueueTypeOK'
    BY <1>3, <2>1 DEF QueueTypeOK, Item, Session, Mode, Stage, Progress
  <2>3. Attached' /\ Progressed'
    BY <1>3, <2>1 DEF Attached, Progressed
  <2>4. Served'
    <3> SUFFICES ASSUME NEW i \in DOMAIN q PROVE ItemServed(queue[i])'
      BY <1>2 DEF Served
    <3>1. CASE i = 1
      <4>1. id \notin lapsed' => id \notin created
        BY <1>2
      <4> QED
        BY <1>4, <2>1, <3>1, <4>1 DEF ItemServed, Watched
    <3>2. CASE i # 1
      <4>1. queue'[i] = q[i] /\ q[i].status = "pending" /\ q[i].id # id
        BY <1>2, <1>5, <3>2 DEF Waits, Distinct
      <4> QED
        BY <1>1, <4>1 DEF ItemServed
    <3> QED
      BY <3>1, <3>2
  <2> QED
    BY <1>7, <2>2, <2>3, <2>4 DEF Orderly
<1> QED
  BY <1>8, <1>9

\* When nothing is promoted, the terminal and its connection stay.
LEMMA StaysPut ==
  ASSUME Orderly, NEW q \in Seq(Item), Distinct(q), Turns(q), Settle(q, terminal, shown),
         created' = created, finished' = finished, upsets' \in 0..MaxUpsets,
         lapsed' \subseteq Conv, lapsed \subseteq lapsed',
         \A i \in DOMAIN q : ItemServed(q[i])
  PROVE  Orderly'
<1>1. PICK t, s : t = terminal /\ s = shown
  OBVIOUS
<1>2. s \in BOOLEAN /\ Settle(q, t, s)
  BY <1>1 DEF Orderly, QueueTypeOK
<1>3. queue' = q /\ terminal' = t /\ shown' = s /\ conn' = Attach(t, s)
  BY <1>2, SettleBusy
<1>4. conn' = conn
  BY <1>1, <1>3 DEF Orderly, Attached, Attach, KeepsConnection
<1>5. QueueTypeOK'
  BY <1>1, <1>3, <1>4 DEF Orderly, QueueTypeOK, Item
<1>6. Places' /\ Attached' /\ Progressed'
  BY <1>1, <1>3, <1>4 DEF Orderly, Places, Distinct, Turns, Attached, Progressed
<1>7. Served'
  <2> SUFFICES ASSUME NEW i \in DOMAIN q PROVE ItemServed(queue[i])'
    BY <1>3 DEF Served
  <2>1. ItemServed(q[i]) /\ queue'[i] = q[i]
    BY <1>3
  <2> QED
    BY <1>1, <1>3, <1>4, <2>1 DEF ItemServed, Watched
<1> QED
  BY <1>5, <1>6, <1>7 DEF Orderly
-----------------------------------------------------------------------------
(* The steps of the queue. *)

LEMMA Appended ==
  ASSUME NEW q \in Seq(Item), NEW it \in Item
  PROVE  /\ Append(q, it) \in Seq(Item) /\ DOMAIN Append(q, it) = DOMAIN q \union {Len(q) + 1}
         /\ Append(q, it)[Len(q) + 1] = it /\ \A i \in DOMAIN q : Append(q, it)[i] = q[i] /\ i # Len(q) + 1
  OBVIOUS

LEMMA EnqueueOrderly ==
  ASSUME Orderly, NEW id \in Conv, Enqueue(id),
         id \notin Queued(queue), id \notin created, id # terminal.session
  PROVE  Orderly'
<1> PICK it, q, t, s : it = [id |-> id, status |-> "pending"] /\ q = Append(queue, it) /\ t = terminal /\ s = shown
  OBVIOUS
<1>1. queue \in Seq(Item) /\ it \in Item
  BY DEF Orderly, QueueTypeOK, Item, Status
<1>2. /\ q \in Seq(Item) /\ DOMAIN q = DOMAIN queue \union {Len(queue) + 1}
      /\ q[Len(queue) + 1] = it /\ \A i \in DOMAIN queue : q[i] = queue[i] /\ i # Len(queue) + 1
  BY <1>1, Appended
<1>3. Settle(q, t, s) /\ created' = created /\ finished' = finished /\ lapsed' = lapsed /\ upsets' = upsets
  BY DEF Enqueue
<1>4. Distinct(q)
  <2>1. \A i \in DOMAIN queue : q[i].id # id
    BY <1>2 DEF Queued
  <2> QED
    BY <1>2, <2>1 DEF Orderly, Places, Distinct
<1>5. CASE queue = <<>>
  <2>1. DOMAIN q = {1} /\ q[1] = it /\ q # <<>>
    BY <1>1, <1>2, <1>5
  <2>2. Waits(q)
    BY <2>1 DEF Waits
  <2>3. \A i \in DOMAIN q : q[i].id \notin lapsed' => q[i].id \notin created /\ q[i].id # terminal.session
    BY <2>1
  <2> QED
    BY <1>2, <1>3, <1>4, <2>1, <2>2, <2>3, Promotes DEF Orderly, QueueTypeOK
<1>6. CASE queue # <<>>
  <2>1. Len(queue) + 1 # 1 /\ 1 \in DOMAIN queue
    BY <1>1, <1>6
  <2>2. Turns(q)
    BY <1>2, <2>1 DEF Turns, Orderly, Places
  <2>3. ItemServed(it)
    BY DEF ItemServed
  <2>4. \A i \in DOMAIN q : ItemServed(q[i])
    BY <1>2, <2>3 DEF Orderly, Served
  <2>5. Settle(q, terminal, shown)
    BY <1>3
  <2> QED
    BY <1>2, <1>3, <1>4, <2>2, <2>4, <2>5, StaysPut DEF Orderly, QueueTypeOK
<1> QED
  BY <1>5, <1>6

LEMMA ReopenOrderly ==
  ASSUME Orderly, NEW id \in Conv, Reopen(id)
  PROVE  Orderly'
<1> PICK t : t = [session |-> id, mode |-> "resume"]
  OBVIOUS
<1>1. /\ terminal' = t /\ shown' = TRUE /\ conn' = Attach(t, TRUE)
      /\ lapsed' = lapsed \union ({id} \intersect Unstarted(queue)) \union (Running(queue) \ {id})
      /\ queue' = queue /\ created' = created /\ finished' = finished /\ upsets' \in 0..MaxUpsets
  BY UpsetsCounted DEF Reopen, Orderly, QueueTypeOK, Upset
<1>2. id # None /\ lapsed' \subseteq Conv
  <2>1. \A i \in DOMAIN queue : queue[i].id \in Conv
    BY QueueTyped DEF Orderly
  <2> QED
    BY <1>1, <2>1, NoneIsNoConversation DEF Orderly, QueueTypeOK, Running, Unstarted, PendingAt
<1>3. Places'
  BY <1>1 DEF Orderly, Places
<1>4. \A i \in DOMAIN queue : queue[i].status = "running" /\ queue[i].id \notin lapsed' => queue[i].id = id
  BY <1>1 DEF Running
<1>5. \A i \in DOMAIN queue : queue[i].status = "pending" /\ queue[i].id \notin lapsed' => queue[i].id # id
  BY <1>1 DEF Unstarted, PendingAt
<1>6. CASE KeepsConnection(t)
  <2>1. conn' = conn /\ conn.session = id /\ conn.stage # "unmounted" /\ shown /\ terminal.session = id
    BY <1>1, <1>6 DEF Attach, KeepsConnection, Orderly, Attached
  <2>2. QueueTypeOK' /\ Attached' /\ Progressed'
    BY <1>1, <1>2, <2>1 DEF Orderly, QueueTypeOK, Session, Mode, Attached, Progressed
  <2>3. Served'
    <3> SUFFICES ASSUME NEW i \in DOMAIN queue PROVE ItemServed(queue[i])'
      BY <1>1 DEF Served
    <3>1. ItemServed(queue[i]) /\ queue'[i] = queue[i]
      BY <1>1 DEF Orderly, Served
    <3> QED
      BY <1>1, <1>4, <1>5, <2>1, <3>1 DEF ItemServed, Watched
  <2> QED
    BY <1>3, <2>2, <2>3 DEF Orderly
<1>7. CASE ~KeepsConnection(t)
  <2>1. conn' = [session |-> id, mode |-> "resume", stage |-> "deferred", progress |-> "starting"]
    BY <1>1, <1>7 DEF Attach, Deferred
  <2>2. terminal' = t /\ shown' = TRUE /\ t.session = id /\ t.mode = "resume"
    BY <1>1
  <2>3. QueueTypeOK'
    <3>1. terminal' \in [session : Session, mode : Mode] /\ shown' \in BOOLEAN
      BY <2>2 DEF Session, Mode
    <3>2. conn' \in [session : Session, mode : Mode, stage : Stage, progress : Progress]
      BY <2>1 DEF Session, Mode, Stage, Progress
    <3> QED
      BY <1>1, <1>2, <3>1, <3>2 DEF Orderly, QueueTypeOK
  <2>4. Attached' /\ Progressed'
    BY <1>2, <2>1, <2>2 DEF Attached, Progressed
  <2>5. \A i \in DOMAIN queue : queue[i].status = "running" => queue[i].id \in lapsed'
    <3> SUFFICES ASSUME NEW i \in DOMAIN queue, queue[i].status = "running", queue[i].id \notin lapsed' PROVE FALSE
      OBVIOUS
    <3>1. queue[i].id = id /\ queue[i].id \notin lapsed
      BY <1>1, <1>4
    <3>2. Watched(id)
      BY <3>1 DEF Orderly, Served, ItemServed
    <3> QED
      BY <1>7, <3>2 DEF Watched, KeepsConnection, Orderly, Attached
  <2>6. Served'
    <3> SUFFICES ASSUME NEW i \in DOMAIN queue PROVE ItemServed(queue[i])'
      BY <1>1 DEF Served
    <3>1. ItemServed(queue[i]) /\ queue'[i] = queue[i]
      BY <1>1 DEF Orderly, Served
    <3> QED
      BY <1>1, <1>5, <2>5, <3>1 DEF ItemServed
  <2> QED
    BY <1>3, <2>3, <2>4, <2>6 DEF Orderly
<1> QED
  BY <1>6, <1>7

\* What the connection does, while the queue and the terminal's session stay.
LEMMA ConnectionOrderly ==
  ASSUME Orderly, Connect \/ Opened \/ Start \/ Work \/ PrintToken
  PROVE  Orderly'
<1>1. /\ queue' = queue /\ terminal'.session = terminal.session /\ shown' = shown
      /\ lapsed' = lapsed /\ upsets' = upsets
  BY DEF Connect, Opened, Start, Work, PrintToken, Orderly, QueueTypeOK
<1>2. QueueTypeOK'
  <2>1. conn.session # None => conn.session \in Conv
    BY DEF Orderly, QueueTypeOK, Session
  <2>2. CASE Connect
    BY <2>2 DEF Connect, Orderly, QueueTypeOK, Stage
  <2>3. CASE Opened
    BY <2>3 DEF Opened, Orderly, QueueTypeOK, Stage, Mode
  <2>4. CASE Start
    BY <2>1, <2>4 DEF Start, Orderly, QueueTypeOK, Progress
  <2>5. CASE Work
    BY <2>1, <2>5 DEF Work, Orderly, QueueTypeOK, Progress, Progressed
  <2>6. CASE PrintToken
    BY <2>6 DEF PrintToken, Orderly, QueueTypeOK, Progress
  <2> QED
    BY <2>2, <2>3, <2>4, <2>5, <2>6
<1>3. Places'
  BY <1>1 DEF Orderly, Places
<1>4. Attached'
  <2>1. conn'.session = conn.session /\ conn'.mode = conn.mode
        /\ (conn'.stage = "unmounted" <=> conn.stage = "unmounted") /\ (conn.stage = "unmounted" => conn' = conn)
    BY DEF Connect, Opened, Start, Work, PrintToken, HasPty, Orderly, QueueTypeOK
  <2>2. terminal'.mode = "adhoc" <=> terminal.mode = "adhoc"
    BY DEF Connect, Opened, Start, Work, PrintToken, Orderly, QueueTypeOK
  <2> QED
    BY <1>1, <2>1, <2>2 DEF Orderly, Attached, Unmounted
<1>5. Progressed'
  BY DEF Connect, Opened, Start, Work, PrintToken, Orderly, QueueTypeOK, Progressed
<1>6. Served'
  <2> SUFFICES ASSUME NEW i \in DOMAIN queue PROVE ItemServed(queue[i])'
    BY <1>1 DEF Served
  <2> PICK it : it = queue[i]
    OBVIOUS
  <2>1. ItemServed(it) /\ queue'[i] = it
    BY <1>1 DEF Orderly, Served
  <2>2. finished \subseteq finished'
    BY DEF Connect, Opened, Start, Work, PrintToken
  <2>3. created' = created \/ created' = created \union ({conn.session} \ {None})
    BY DEF Connect, Opened, Start, Work, PrintToken
  <2>4. conn.session \in {terminal.session, None}
    BY DEF Orderly, Attached, Unmounted
  <2>5. Watched(it.id) => Watched(it.id)'
    BY <1>1 DEF Connect, Opened, Start, Work, PrintToken, Watched, Orderly, QueueTypeOK
  <2> QED
    BY <1>1, <2>1, <2>2, <2>3, <2>4, <2>5 DEF ItemServed
<1> QED
  BY <1>2, <1>3, <1>4, <1>5, <1>6 DEF Orderly

LEMMA SessionDoneOrderly ==
  ASSUME Orderly, SessionDone
  PROVE  Orderly'
<1>1. /\ conn.stage = "open" /\ conn.progress = "printed" /\ conn' = [conn EXCEPT !.progress = "told"]
      /\ terminal' = terminal /\ shown' = shown /\ created' = created /\ finished' = finished
      /\ lapsed' = lapsed /\ upsets' = upsets
  BY DEF SessionDone
<1>2. /\ queue \in Seq(Item) /\ Len(queue) \in Nat /\ DOMAIN queue = 1..Len(queue)
      /\ \A i \in DOMAIN queue : queue[i] \in Item /\ queue[i].id \in Conv
  BY QueueTyped DEF Orderly
<1>3. PICK r : r = conn' /\ r \in [session : Session, mode : Mode, stage : Stage, progress : Progress]
             /\ r.session = conn.session /\ r.mode = conn.mode /\ r.stage = "open" /\ r.progress = "told"
  BY <1>1 DEF Orderly, QueueTypeOK, Progress
<1>4. Attached' /\ Progressed'
  BY <1>1, <1>3 DEF Orderly, Attached, Progressed
<1>5. \A i \in DOMAIN queue : queue[i].status = "running" => i = 1
  BY DEF Orderly, Places
<1>6. CASE conn.session \in Running(queue)
  <2>1. PICK n \in DOMAIN queue : queue[n].status = "running" /\ queue[n].id = conn.session
    BY <1>6 DEF Running
  <2>2. 1 \in DOMAIN queue /\ queue[1].status = "running" /\ queue[1].id = conn.session
    BY <1>5, <2>1
  <2>3. PICK it : it = [id |-> conn.session, status |-> "done"]
    OBVIOUS
  <2>4. it = [queue[1] EXCEPT !.status = "done"] /\ it \in Item
    BY <1>2, <2>2, <2>3 DEF Item, Status
  <2>5. queue' = [i \in DOMAIN queue |->
                    IF queue[i].status = "running" THEN [queue[i] EXCEPT !.status = "done"] ELSE queue[i]]
    BY <1>6 DEF SessionDone
  <2>6. DOMAIN queue' = DOMAIN queue /\ queue'[1] = it /\ \A j \in DOMAIN queue : j # 1 => queue'[j] = queue[j]
    BY <1>5, <2>2, <2>4, <2>5
  <2>7. queue' \in Seq(Item)
    <3>1. \A j \in 1..Len(queue) : queue'[j] \in Item
      BY <1>2, <2>4, <2>6
    <3>2. PICK f : f = queue' /\ f = [j \in 1..Len(queue) |-> queue'[j]]
      BY <1>2, <2>5, <2>6
    <3> QED
      BY <1>2, <3>1, <3>2
  <2>8. QueueTypeOK'
    BY <1>1, <1>3, <2>7 DEF Orderly, QueueTypeOK, Item
  <2>9. Places'
    <3>1. \A j \in DOMAIN queue : queue'[j].id = queue[j].id /\ (queue'[j].status = "pending" <=> queue[j].status = "pending")
      BY <2>2, <2>3, <2>6
    <3> QED
      BY <2>6, <3>1 DEF Orderly, Places
  <2>10. Served'
    <3> SUFFICES ASSUME NEW j \in DOMAIN queue PROVE ItemServed(queue[j])'
      BY <2>6 DEF Served
    <3>1. CASE j = 1
      BY <1>1, <2>3, <2>6, <3>1 DEF ItemServed, Orderly, Progressed
    <3>2. CASE j # 1
      <4>1. queue'[j] = queue[j] /\ queue[j].status = "pending" /\ ItemServed(queue[j])
        BY <2>6, <3>2 DEF Orderly, Places, Served
      <4> QED
        BY <1>1, <4>1 DEF ItemServed
    <3> QED
      BY <3>1, <3>2
  <2> QED
    BY <1>4, <2>8, <2>9, <2>10 DEF Orderly
<1>7. CASE conn.session \notin Running(queue)
  <2>1. queue' = queue
    BY <1>7 DEF SessionDone
  <2>2. QueueTypeOK' /\ Places'
    BY <1>1, <1>3, <2>1 DEF Orderly, QueueTypeOK, Places
  <2>3. Served'
    <3> SUFFICES ASSUME NEW j \in DOMAIN queue PROVE ItemServed(queue[j])'
      BY <2>1 DEF Served
    <3>1. ItemServed(queue[j]) /\ queue'[j] = queue[j]
      BY <2>1 DEF Orderly, Served
    <3>2. queue[j].status = "running" => queue[j].id # conn.session
      BY <1>7 DEF Running
    <3> QED
      BY <1>1, <3>1, <3>2 DEF ItemServed, Watched
  <2> QED
    BY <1>4, <2>2, <2>3 DEF Orderly
<1> QED
  BY <1>6, <1>7

LEMMA ExitOrderly ==
  ASSUME Orderly, Exit
  PROVE  Orderly'
<1>1. /\ conn.stage = "open" /\ queue' = queue /\ terminal' = terminal /\ shown' = shown
      /\ created' = created /\ finished' = finished /\ upsets' \in 0..MaxUpsets
      /\ lapsed' = lapsed \union ({conn.session} \intersect Running(queue))
  BY UpsetsCounted DEF Exit, Upset, Orderly, QueueTypeOK
<1>2. \A i \in DOMAIN queue : queue[i].id \in Conv
  BY QueueTyped DEF Orderly
<1>3. PICK r : r = conn' /\ r \in [session : Session, mode : Mode, stage : Stage, progress : Progress]
             /\ r.session = conn.session /\ r.mode = conn.mode /\ r.stage = "closed" /\ r.progress = conn.progress
  BY DEF Exit, Orderly, QueueTypeOK, Stage
<1>4. QueueTypeOK' /\ Places'
  BY <1>1, <1>2, <1>3 DEF Orderly, QueueTypeOK, Places, Running
<1>5. Attached' /\ Progressed'
  BY <1>1, <1>3 DEF Orderly, Attached, Progressed
<1>6. Served'
  <2> SUFFICES ASSUME NEW j \in DOMAIN queue PROVE ItemServed(queue[j])'
    BY <1>1 DEF Served
  <2>1. ItemServed(queue[j]) /\ queue'[j] = queue[j]
    BY <1>1 DEF Orderly, Served
  <2>2. queue[j].status = "running" => queue[j].id \in lapsed'
    BY <1>1, <2>1 DEF Running, ItemServed, Watched
  <2> QED
    BY <1>1, <2>1, <2>2 DEF ItemServed
<1> QED
  BY <1>4, <1>5, <1>6 DEF Orderly

LEMMA ToggleOrderly ==
  ASSUME Orderly, Toggle
  PROVE  Orderly'
<1>1. /\ queue' = queue /\ terminal' = terminal /\ shown' = ~shown /\ conn' = Attach(terminal, ~shown)
      /\ created' = created /\ finished' = finished /\ upsets' \in 0..MaxUpsets
      /\ lapsed' = lapsed \union (IF shown THEN Running(queue) ELSE {})
  BY UpsetsCounted DEF Toggle, Upset, Orderly, QueueTypeOK
<1>2. \A i \in DOMAIN queue : queue[i].id \in Conv
  BY QueueTyped DEF Orderly
<1>3. terminal \in [session : Session, mode : Mode] /\ shown \in BOOLEAN
  BY DEF Orderly, QueueTypeOK
<1>4. /\ conn' \in [session : Session, mode : Mode, stage : Stage, progress : Progress]
      /\ conn'.progress = "starting" /\ (conn'.mode = "adhoc" <=> conn'.session = None)
      /\ shown => conn' = Unmounted
      /\ ~shown => conn'.session = terminal.session /\ conn'.stage # "unmounted"
  <2>1. CASE shown
    <3>1. conn' = Unmounted
      BY <1>1, <2>1 DEF Attach
    <3> QED
      BY <2>1, <3>1 DEF Unmounted, Session, Mode, Stage, Progress
  <2>2. CASE ~shown
    <3>1. conn' = Deferred(terminal)
      BY <1>1, <2>2 DEF Attach, KeepsConnection, Orderly, Attached, Unmounted
    <3> QED
      BY <1>3, <2>2, <3>1 DEF Deferred, Stage, Progress, Orderly, Attached
  <2> QED
    BY <2>1, <2>2
<1>5. QueueTypeOK' /\ Places'
  BY <1>1, <1>2, <1>3, <1>4 DEF Orderly, QueueTypeOK, Places, Running
<1>6. Attached' /\ Progressed'
  <2>1. Progressed'
    BY <1>4 DEF Progressed
  <2>2. terminal'.mode = "adhoc" <=> terminal'.session = None
    BY <1>1 DEF Orderly, Attached
  <2>3. CASE shown
    <3>1. shown' = FALSE /\ conn' = Unmounted /\ conn'.stage = "unmounted" /\ (conn'.mode = "adhoc" <=> conn'.session = None)
      <4>1. shown' = FALSE
        BY <1>1, <1>3, <2>3
      <4>2. conn' = Unmounted /\ (conn'.mode = "adhoc" <=> conn'.session = None)
        BY <1>4, <2>3
      <4> QED
        BY <4>1, <4>2 DEF Unmounted
    <3>2. Unmounted' = Unmounted
      BY DEF Unmounted
    <3> QED
      BY <2>1, <2>2, <3>1, <3>2 DEF Attached
  <2>4. CASE ~shown
    BY <1>1, <1>4, <2>1, <2>2, <2>4 DEF Attached
  <2> QED
    BY <2>3, <2>4
<1>7. Served'
  <2> SUFFICES ASSUME NEW j \in DOMAIN queue PROVE ItemServed(queue[j])'
    BY <1>1 DEF Served
  <2>1. ItemServed(queue[j]) /\ queue'[j] = queue[j]
    BY <1>1 DEF Orderly, Served
  <2>2. queue[j].status = "running" => queue[j].id \in lapsed'
    BY <1>1, <2>1 DEF Running, ItemServed, Watched
  <2> QED
    BY <1>1, <2>1, <2>2 DEF ItemServed
<1> QED
  BY <1>5, <1>6, <1>7 DEF Orderly

LEMMA ReloadOrderly ==
  ASSUME Orderly, Reload
  PROVE  Orderly'
<1>1. /\ queue' = <<>> /\ terminal' = [session |-> None, mode |-> "adhoc"] /\ shown' = FALSE /\ conn' = Unmounted
      /\ created' = created /\ finished' = finished /\ upsets' \in 0..MaxUpsets
      /\ lapsed' = lapsed \union Queued(queue)
  BY UpsetsCounted DEF Reload, Upset, Orderly, QueueTypeOK
<1>2. lapsed' \subseteq Conv
  BY <1>1, QueueTyped DEF Orderly, QueueTypeOK, Queued
<1>3. QueueTypeOK'
  <2>1. terminal' \in [session : Session, mode : Mode] /\ shown' \in BOOLEAN
    BY <1>1 DEF Session, Mode
  <2>2. conn' \in [session : Session, mode : Mode, stage : Stage, progress : Progress]
    BY <1>1 DEF Unmounted, Session, Mode, Stage, Progress
  <2> QED
    BY <1>1, <1>2, <2>1, <2>2 DEF Orderly, QueueTypeOK
<1>4. Places' /\ Served'
  BY <1>1 DEF Places, Served
<1>5. Attached' /\ Progressed'
  BY <1>1 DEF Attached, Progressed, Unmounted
<1> QED
  BY <1>3, <1>4, <1>5 DEF Orderly

\* Of what is left when the first item goes, all waits; of what is left when another goes, the first
\* still has its turn.
LEMMA Left ==
  ASSUME NEW q \in Seq(Item), Distinct(q), Turns(q), NEW at \in SUBSET DOMAIN q
  PROVE  /\ Filtered(q, at) \in Seq(Item) /\ Distinct(Filtered(q, at))
         /\ 1 \notin at => Waits(Filtered(q, at))
         /\ 1 \in at => Turns(Filtered(q, at))
         /\ at # {} => Filtered(q, at) # <<>>
         /\ \A k \in DOMAIN Filtered(q, at) : \E i \in at : Filtered(q, at)[k] = q[i]
<1>1. PICK f, m :
         /\ m \in Nat /\ f \in [1..m -> at] /\ (at # {} => m > 0)
         /\ \A j, k \in 1..m : j < k => f[j] < f[k]
         /\ \A i \in at : \E k \in 1..m : f[k] = i
         /\ Filtered(q, at) \in Seq(Item) /\ DOMAIN Filtered(q, at) = 1..m
         /\ \A k \in 1..m : Filtered(q, at)[k] = q[f[k]]
  <2>1. PICK f, m : Selects(q, at, f, m, Item)
    BY FilteredIs
  <2> QED
    BY <2>1 DEF Selects
<1>2. PICK r : r = Filtered(q, at)
  OBVIOUS
<1>3. \A k \in 1..m : r[k] = q[f[k]] /\ f[k] \in at /\ f[k] \in DOMAIN q /\ f[k] \in Nat
  BY <1>1, <1>2
<1>4. \A j, k \in 1..m : f[j] = f[k] => j = k
  <2> SUFFICES ASSUME NEW j \in 1..m, NEW k \in 1..m, f[j] = f[k], j # k PROVE FALSE
    OBVIOUS
  <2>1. j < k \/ k < j
    OBVIOUS
  <2> QED
    BY <1>1, <1>3, <2>1
<1>5. Distinct(r)
  <2> SUFFICES ASSUME NEW j \in 1..m, NEW k \in 1..m, r[j].id = r[k].id PROVE j = k
    BY <1>1, <1>2 DEF Distinct
  <2>1. f[j] = f[k]
    BY <1>3 DEF Distinct
  <2> QED
    BY <1>4, <2>1
<1>6. 1 \notin at => Waits(r)
  BY <1>1, <1>2, <1>3 DEF Waits, Turns
<1>7. 1 \in at => Turns(r)
  <2> SUFFICES ASSUME 1 \in at, NEW k \in 1..m PROVE r[k].status = "pending" <=> k # 1
    BY <1>1, <1>2 DEF Turns
  <2>1. PICK j \in 1..m : f[j] = 1
    BY <1>1
  <2>2. j = 1
    <3> SUFFICES ASSUME j # 1 PROVE FALSE
      OBVIOUS
    <3>1. 1 \in 1..m /\ 1 < j
      BY <1>1
    <3>2. f[1] < 1 /\ f[1] \in DOMAIN q
      BY <1>1, <1>3, <2>1, <3>1
    <3> QED
      BY <3>2
  <2>3. f[k] = 1 <=> k = 1
    BY <1>4, <2>1, <2>2
  <2> QED
    BY <1>3, <2>3 DEF Turns
<1>8. at # {} => r # <<>>
  <2>1. at # {} => 1 \in 1..m
    BY <1>1
  <2> QED
    BY <1>1, <1>2, <2>1
<1> QED
  BY <1>1, <1>2, <1>3, <1>5, <1>6, <1>7, <1>8

\* Settling what is left.
LEMMA LeftOrderly ==
  ASSUME Orderly, NEW at \in SUBSET DOMAIN queue, at # {}, NEW t, NEW s \in BOOLEAN,
         1 \in at => t = terminal /\ s = shown,
         Settle(Filtered(queue, at), t, s),
         created' = created, finished' = finished, upsets' \in 0..MaxUpsets,
         lapsed' \subseteq Conv, lapsed \subseteq lapsed'
  PROVE  Orderly'
<1>1. queue \in Seq(Item) /\ Distinct(queue) /\ Turns(queue)
  BY QueueTyped DEF Orderly, Places, Distinct, Turns
<1>2. PICK q : q = Filtered(queue, at)
  OBVIOUS
<1>3. /\ q \in Seq(Item) /\ Distinct(q) /\ (1 \notin at => Waits(q)) /\ (1 \in at => Turns(q))
      /\ q # <<>> /\ \A k \in DOMAIN q : \E i \in at : q[k] = queue[i]
  BY <1>1, <1>2, Left
<1>4. \A k \in DOMAIN q : ItemServed(q[k])
  BY <1>3 DEF Orderly, Served
<1>5. CASE 1 \in at
  BY <1>2, <1>3, <1>4, <1>5, StaysPut
<1>6. CASE 1 \notin at
  <2>1. \A k \in DOMAIN q : q[k].id \notin lapsed' => q[k].id \notin created /\ q[k].id # terminal.session
    BY <1>3, <1>4, <1>6 DEF Waits, ItemServed
  <2>2. QueueTypeOK /\ Attached /\ Progressed /\ Settle(q, t, s) /\ Waits(q)
    BY <1>2, <1>3, <1>6 DEF Orderly
  <2> QED
    BY <1>3, <2>1, <2>2, Promotes
<1> QED
  BY <1>5, <1>6

\* Nothing is left, and the terminal stays or is closed.
LEMMA NothingLeft ==
  ASSUME Orderly, NEW at, at = {}, NEW t, NEW s \in BOOLEAN,
         \/ t = terminal /\ s = shown
         \/ t = [session |-> None, mode |-> "adhoc"] /\ s = FALSE,
         Settle(Filtered(queue, at), t, s),
         created' = created, finished' = finished, upsets' \in 0..MaxUpsets,
         lapsed' \subseteq Conv, lapsed \subseteq lapsed'
  PROVE  Orderly'
<1>1. PICK q : q = Filtered(queue, at)
  OBVIOUS
<1>2. q = <<>>
  BY <1>1, FS_EmptySet DEF Filtered
<1>3. q \in Seq(Item) /\ Turns(q) /\ Distinct(q) /\ Settle(q, t, s) /\ DOMAIN q = {}
  <2>1. DOMAIN q = {} /\ q \in Seq(Item)
    BY <1>2
  <2>2. Turns(q) /\ Distinct(q)
    BY <2>1 DEF Turns, Distinct
  <2> QED
    BY <1>1, <2>1, <2>2
<1>4. queue' = q /\ terminal' = t /\ shown' = s /\ conn' = Attach(t, s)
  BY <1>3, SettleBusy
<1>5. CASE t = terminal /\ s = shown
  BY <1>3, <1>5, StaysPut
<1>6. CASE t = [session |-> None, mode |-> "adhoc"] /\ s = FALSE
  <2>1. conn' = Unmounted
    BY <1>4, <1>6 DEF Attach
  <2>2. Places' /\ Served'
    BY <1>3, <1>4 DEF Places, Served
  <2>3. Attached' /\ Progressed'
    BY <1>4, <1>6, <2>1 DEF Attached, Progressed, Unmounted
  <2>4. QueueTypeOK'
    <3>1. terminal' \in [session : Session, mode : Mode] /\ shown' \in BOOLEAN
      BY <1>4, <1>6 DEF Session, Mode
    <3>2. conn' \in [session : Session, mode : Mode, stage : Stage, progress : Progress]
      BY <2>1 DEF Unmounted, Session, Mode, Stage, Progress
    <3> QED
      BY <1>3, <1>4, <3>1, <3>2 DEF Orderly, QueueTypeOK, Item
  <2> QED
    BY <2>2, <2>3, <2>4 DEF Orderly
<1> QED
  BY <1>5, <1>6

LEMMA AdvanceOrderly ==
  ASSUME Orderly, Advance
  PROVE  Orderly'
<1> PICK at, t, s : at = {i \in DOMAIN queue : queue[i].status # "done"} /\ t = terminal /\ s = shown
  OBVIOUS
<1>1. PICK d \in DOMAIN queue : queue[d].status = "done"
  BY DEF Advance
<1>2. d = 1
  BY <1>1 DEF Orderly, Places
<1>3. at \in SUBSET DOMAIN queue /\ 1 \notin at
  BY <1>1, <1>2
<1>4. /\ Settle(Filtered(queue, at), t, s) /\ s \in BOOLEAN
      /\ created' = created /\ finished' = finished /\ lapsed' = lapsed /\ upsets' = upsets
  BY DEF Advance, Orderly, QueueTypeOK
<1>5. upsets' \in 0..MaxUpsets /\ lapsed' \subseteq Conv
  BY <1>4 DEF Orderly, QueueTypeOK
<1>6. CASE at # {}
  BY <1>3, <1>4, <1>5, <1>6, LeftOrderly
<1>7. CASE at = {}
  BY <1>3, <1>4, <1>5, <1>7, NothingLeft
<1> QED
  BY <1>6, <1>7

LEMMA CancelOrderly ==
  ASSUME Orderly, NEW id, Cancel(id)
  PROVE  Orderly'
<1> PICK at, closes :
      /\ at = {i \in DOMAIN queue : queue[i].id # id}
      /\ closes = (id \in Running(queue) /\ Unstarted(queue) = {}) /\ closes \in BOOLEAN
  OBVIOUS
<1> PICK t, s : t = (IF closes THEN [session |-> None, mode |-> "adhoc"] ELSE terminal) /\ s = (shown /\ ~closes)
  OBVIOUS
<1>1. /\ Settle(Filtered(queue, at), t, s) /\ lapsed' = lapsed \union {id}
      /\ created' = created /\ finished' = finished /\ upsets' \in 0..MaxUpsets
  <2>1. upsets' \in 0..MaxUpsets
    BY UpsetsCounted DEF Cancel, Upset, Orderly, QueueTypeOK
  <2>2. Filtered(queue, at) = Without(queue, id)
    BY DEF Without
  <2>3. Settle(Without(queue, id), t, s) /\ lapsed' = lapsed \union {id} /\ created' = created /\ finished' = finished
    BY DEF Cancel
  <2> QED
    BY <2>1, <2>2, <2>3
<1>2. PICK c \in DOMAIN queue : queue[c].id = id /\ queue[c].status \in {"running", "pending"}
  BY DEF Cancel, Running, Unstarted, PendingAt
<1>3. at = DOMAIN queue \ {c} /\ at \in SUBSET DOMAIN queue
  BY <1>2 DEF Orderly, Places
<1>4. lapsed' \subseteq Conv /\ lapsed \subseteq lapsed' /\ s \in BOOLEAN
  BY <1>1, <1>2, QueueTyped DEF Orderly, QueueTypeOK
<1>5. CASE closes
  <2>1. c = 1
    BY <1>2, <1>5 DEF Unstarted, PendingAt, Orderly, Places
  <2>2. \A i \in DOMAIN queue : queue[i].status = "pending" => FALSE
    BY <1>5 DEF Unstarted, PendingAt
  <2>3. at = {} /\ 1 \notin at
    BY <1>3, <2>1, <2>2 DEF Orderly, Places
  <2> QED
    BY <1>1, <1>3, <1>4, <1>5, <2>3, NothingLeft
<1>6. CASE ~closes
  <2>1. t = terminal /\ s = shown
    BY <1>6 DEF Orderly, QueueTypeOK
  <2>2. CASE at # {}
    BY <1>1, <1>3, <1>4, <2>1, <2>2, LeftOrderly
  <2>3. CASE at = {}
    <3>1. c = 1 /\ queue[c].status = "running"
      <4>1. 1 \in DOMAIN queue
        BY <1>2, QueueTyped DEF Orderly
      <4> QED
        BY <1>2, <1>3, <2>3, <4>1 DEF Orderly, Places
    <3>2. closes
      BY <1>2, <1>3, <2>3, <3>1 DEF Running, Unstarted, PendingAt
    <3> QED
      BY <1>6, <3>2
  <2> QED
    BY <2>2, <2>3
<1> QED
  BY <1>5, <1>6

LEMMA QueueInitOrderly ==
  ASSUME QueueInit
  PROVE  Orderly
<1>1. /\ queue = <<>> /\ terminal = [session |-> None, mode |-> "adhoc"] /\ shown = FALSE /\ conn = Unmounted
      /\ created = {} /\ finished = {} /\ lapsed = {} /\ upsets \in 0..MaxUpsets
  BY DEF QueueInit
<1>2. QueueTypeOK
  <2>1. terminal \in [session : Session, mode : Mode] /\ shown \in BOOLEAN
    BY <1>1 DEF Session, Mode
  <2>2. conn \in [session : Session, mode : Mode, stage : Stage, progress : Progress]
    BY <1>1 DEF Unmounted, Session, Mode, Stage, Progress
  <2> QED
    BY <1>1, <2>1, <2>2 DEF QueueTypeOK
<1>3. Places /\ Served
  BY <1>1 DEF Places, Served
<1>4. Attached /\ Progressed
  BY <1>1 DEF Attached, Progressed, Unmounted
<1> QED
  BY <1>2, <1>3, <1>4 DEF Orderly

LEMMA QueueStepOrderly ==
  ASSUME Orderly, QueueNext \/ Work \/ Reload
  PROVE  Orderly'
<1>1. CASE Connect \/ Opened \/ Start \/ Work \/ PrintToken
  BY <1>1, ConnectionOrderly
<1>2. CASE SessionDone
  BY <1>2, SessionDoneOrderly
<1>3. CASE Exit
  BY <1>3, ExitOrderly
<1>4. CASE Advance
  BY <1>4, AdvanceOrderly
<1>5. CASE \E id \in Queued(queue) : Cancel(id)
  <2>1. PICK id : Cancel(id)
    BY <1>5
  <2> QED
    BY <2>1, CancelOrderly
<1>6. CASE Toggle
  BY <1>6, ToggleOrderly
<1>7. CASE Reload
  BY <1>7, ReloadOrderly
<1> QED
  BY <1>1, <1>2, <1>3, <1>4, <1>5, <1>6, <1>7 DEF QueueNext

LEMMA OrderlyServes ==
  ASSUME Orderly
  PROVE  QueueServed
<1>1. queue \in Seq(Item) /\ DOMAIN queue = 1..Len(queue) /\ \A i \in DOMAIN queue : queue[i] \in Item
  BY QueueTyped DEF Orderly
<1>2. \A i \in DOMAIN queue : i \in Active(queue) <=> i = 1
  BY <1>1 DEF Active, Item, Status, Orderly, Places
<1>3. \A i \in DOMAIN queue : i \in PendingAt(queue) <=> i # 1
  BY DEF PendingAt, Orderly, Places
<1>4. Active(queue) \subseteq DOMAIN queue /\ PendingAt(queue) \subseteq DOMAIN queue
  BY DEF Active, PendingAt
<1>5. Cardinality(Active(queue)) <= 1
  <2>1. Active(queue) \in SUBSET {1}
    BY <1>2, <1>4
  <2>2. IsFiniteSet({1}) /\ Cardinality({1}) = 1
    BY FS_Singleton
  <2> QED
    BY <2>1, <2>2, FS_Subset
<1>6. \A i \in Active(queue), j \in PendingAt(queue) : i < j
  BY <1>1, <1>2, <1>3, <1>4
<1>7. queue # <<>> => Active(queue) # {}
  <2>1. queue # <<>> => 1 \in DOMAIN queue
    BY <1>1
  <2> QED
    BY <1>2, <2>1
<1> QED
  BY <1>5, <1>6, <1>7 DEF QueueServed, Orderly, Served, ItemServed

-----------------------------------------------------------------------------
(* Which conversations the queue and the terminal are about. *)

LEMMA AttachWithin ==
  ASSUME NEW X, NEW t, NEW s, t.mode = "new" => t.session \in X, conn.mode = "new" => conn.session \in X
  PROVE  Attach(t, s).mode = "new" => Attach(t, s).session \in X
  BY DEF Attach, Unmounted, Deferred

LEMMA SettleWithin ==
  ASSUME NEW X, NEW Y, Within(X, Y), NEW q \in Seq(Item), NEW t, NEW s, Settle(q, t, s),
         \A i \in DOMAIN q : q[i].id \in X,
         t.mode = "new" => t.session \in X, t.session \in X \union Y \union {None},
         created' \subseteq X
  PROVE  Within(X, Y)'
<1> DEFINE idle == Active(q) = {} /\ PendingAt(q) # {}
<1>1. CASE ~idle
  <2>1. queue' = q /\ terminal' = t /\ \E b : conn' = Attach(t, b)
    BY <1>1 DEF Settle
  <2>2. conn'.mode = "new" => conn'.session \in X
    BY <2>1, AttachWithin DEF Within
  <2> QED
    BY <2>1, <2>2 DEF Within, Queued
<1>2. CASE idle
  <2> PICK first, next : /\ first = (CHOOSE i \in PendingAt(q) : \A j \in PendingAt(q) : i <= j)
                         /\ next = [session |-> q[first].id, mode |-> "new"]
    OBVIOUS
  <2>1. queue' = [q EXCEPT ![first].status = "running"] /\ terminal' = next /\ \E b : conn' = Attach(next, b)
    BY <1>2 DEF Settle
  <2>2. first \in DOMAIN q
    <3>1. PendingAt(q) \in SUBSET Nat /\ PendingAt(q) # {} /\ PendingAt(q) \subseteq DOMAIN q
      BY <1>2 DEF PendingAt
    <3>2. \E i \in PendingAt(q) : \A j \in PendingAt(q) : i <= j
      BY <3>1, Minimum
    <3> QED
      BY <3>1, <3>2
  <2>3. Queued(queue)' \subseteq X
    <3>1. DOMAIN queue' = DOMAIN q /\ \A i \in DOMAIN q : q[i] \in Item
      BY <2>1
    <3>2. \A i \in DOMAIN q : queue'[i].id = q[i].id
      BY <2>1, <2>2, <3>1 DEF Item
    <3> QED
      BY <3>1, <3>2 DEF Queued
  <2>4. next.session \in X
    BY <2>2
  <2>5. conn'.mode = "new" => conn'.session \in X
    BY <2>1, <2>4, AttachWithin DEF Within
  <2> QED
    BY <2>1, <2>3, <2>4, <2>5 DEF Within
<1> QED
  BY <1>1, <1>2

LEMMA EnqueueWithin ==
  ASSUME NEW X, NEW Y, Orderly, Within(X, Y), NEW id \in X \intersect Conv, Enqueue(id)
  PROVE  Within(X, Y)'
<1> PICK it, q, t, s : it = [id |-> id, status |-> "pending"] /\ q = Append(queue, it) /\ t = terminal /\ s = shown
  OBVIOUS
<1>1. queue \in Seq(Item) /\ it \in Item
  BY DEF Orderly, QueueTypeOK, Item, Status
<1>2. /\ q \in Seq(Item) /\ DOMAIN q = DOMAIN queue \union {Len(queue) + 1}
      /\ q[Len(queue) + 1] = it /\ \A i \in DOMAIN queue : q[i] = queue[i] /\ i # Len(queue) + 1
  BY <1>1, Appended
<1>3. \A i \in DOMAIN q : q[i].id \in X
  BY <1>2 DEF Within, Queued
<1>4. Settle(q, t, s) /\ created' \subseteq X
  BY DEF Enqueue, Within
<1>5. (t.mode = "new" => t.session \in X) /\ t.session \in X \union Y \union {None}
  BY DEF Within
<1> QED
  BY <1>2, <1>3, <1>4, <1>5, SettleWithin

LEMMA ReopenWithin ==
  ASSUME NEW X, NEW Y, Orderly, Within(X, Y), NEW id \in X \union Y, Reopen(id)
  PROVE  Within(X, Y)'
<1> PICK t : t = [session |-> id, mode |-> "resume"]
  OBVIOUS
<1>1. terminal' = t /\ conn' = Attach(t, TRUE) /\ queue' = queue /\ created' = created
  BY DEF Reopen
<1>2. t.mode # "new"
  OBVIOUS
<1>3. conn'.mode = "new" => conn'.session \in X
  BY <1>1, <1>2, AttachWithin DEF Within
<1> QED
  BY <1>1, <1>2, <1>3 DEF Within, Queued

LEMMA FilteredWithin ==
  ASSUME NEW X, NEW Y, Orderly, Within(X, Y), NEW at \in SUBSET DOMAIN queue, NEW t, NEW s,
         Settle(Filtered(queue, at), t, s), created' = created,
         t = terminal \/ t = [session |-> None, mode |-> "adhoc"]
  PROVE  Within(X, Y)'
<1> PICK q : q = Filtered(queue, at)
  OBVIOUS
<1>1. queue \in Seq(Item) /\ Distinct(queue) /\ Turns(queue)
  BY QueueTyped DEF Orderly, Places, Distinct, Turns
<1>2. q \in Seq(Item) /\ \A k \in DOMAIN q : \E i \in at : q[k] = queue[i]
  BY <1>1, Left
<1>3. \A k \in DOMAIN q : q[k].id \in X
  BY <1>2 DEF Within, Queued
<1>4. (t.mode = "new" => t.session \in X) /\ t.session \in X \union Y \union {None} /\ created' \subseteq X
  BY DEF Within
<1> QED
  BY <1>2, <1>3, <1>4, SettleWithin

LEMMA QueueStepWithin ==
  ASSUME NEW X, NEW Y, Orderly, Within(X, Y), QueueNext \/ Work \/ Reload
  PROVE  Within(X, Y)'
<1>1. CASE Connect \/ Opened \/ Work \/ PrintToken
  <2>1. queue' = queue /\ created' = created /\ terminal'.session = terminal.session
        /\ (terminal'.mode = "new" => terminal.mode = "new")
        /\ conn'.mode = conn.mode /\ conn'.session = conn.session
    BY <1>1 DEF Connect, Opened, Work, PrintToken, Orderly, QueueTypeOK
  <2> QED
    BY <2>1 DEF Within, Queued
<1>2. CASE Start
  <2>1. /\ queue' = queue /\ terminal' = terminal /\ conn'.mode = conn.mode /\ conn'.session = conn.session
        /\ created' = created \union ({conn.session} \ {None}) /\ CanStart /\ conn.mode \in Mode
    BY <1>2 DEF Start, Orderly, QueueTypeOK
  <2>2. conn.session # None => conn.session \in X
    BY <2>1 DEF CanStart, Within, Orderly, Attached, Mode
  <2>3. created' \subseteq X
    BY <2>1, <2>2 DEF Within
  <2> QED
    BY <2>1, <2>3 DEF Within, Queued
<1>3. CASE SessionDone
  <2>1. /\ terminal' = terminal /\ created' = created /\ conn'.mode = conn.mode /\ conn'.session = conn.session
        /\ DOMAIN queue' = DOMAIN queue
    BY <1>3 DEF SessionDone, Orderly, QueueTypeOK
  <2>2. \A i \in DOMAIN queue : queue[i] \in Item
    BY QueueTyped DEF Orderly
  <2>3. \A i \in DOMAIN queue : queue'[i].id = queue[i].id
    BY <1>3, <2>2 DEF SessionDone, Item
  <2> QED
    BY <2>1, <2>3 DEF Within, Queued
<1>4. CASE Exit
  <2>1. queue' = queue /\ terminal' = terminal /\ created' = created
        /\ conn'.mode = conn.mode /\ conn'.session = conn.session
    BY <1>4 DEF Exit, Orderly, QueueTypeOK
  <2> QED
    BY <2>1 DEF Within, Queued
<1>5. CASE Advance
  <2> PICK at, t, s : at = {i \in DOMAIN queue : queue[i].status # "done"} /\ t = terminal /\ s = shown
    OBVIOUS
  <2>1. at \in SUBSET DOMAIN queue /\ Settle(Filtered(queue, at), t, s) /\ created' = created
    BY <1>5 DEF Advance
  <2> QED
    BY <2>1, FilteredWithin
<1>6. CASE \E id \in Queued(queue) : Cancel(id)
  <2>1. PICK id : Cancel(id)
    BY <1>6
  <2> PICK at : at = {i \in DOMAIN queue : queue[i].id # id}
    OBVIOUS
  <2>2. PICK t, s : Settle(Without(queue, id), t, s) /\ (t = terminal \/ t = [session |-> None, mode |-> "adhoc"])
    BY <2>1 DEF Cancel
  <2>3. at \in SUBSET DOMAIN queue /\ Settle(Filtered(queue, at), t, s) /\ created' = created
    BY <2>1, <2>2 DEF Cancel, Without
  <2> QED
    BY <2>2, <2>3, FilteredWithin
<1>7. CASE Toggle
  <2>1. queue' = queue /\ terminal' = terminal /\ created' = created /\ conn' = Attach(terminal, ~shown)
    BY <1>7 DEF Toggle
  <2>2. PICK t, s : t = terminal /\ s = ~shown
    OBVIOUS
  <2>3. conn'.mode = "new" => conn'.session \in X
    BY <2>1, <2>2, AttachWithin DEF Within
  <2> QED
    BY <2>1, <2>3 DEF Within, Queued
<1>8. CASE Reload
  BY <1>8 DEF Reload, Within, Queued, Unmounted
<1> QED
  BY <1>1, <1>2, <1>3, <1>4, <1>5, <1>6, <1>7, <1>8 DEF QueueNext

-----------------------------------------------------------------------------
(* What a dialog saves: the conversations of the records are those there were, and its own. *)

LEMMA PutShaped ==
  ASSUME NEW C, Shaped(record, C), NEW k, NEW v \in C, NEW sp, NEW w
  PROVE  Shaped(Put(k, Record(v, sp, w)), C)
<1> PICK x, r : x = Record(v, sp, w) /\ r = Put(k, x)
  OBVIOUS
<1>1. r = [y \in DOMAIN record \union {k} |-> IF y = k THEN x ELSE record[y]]
  BY DEF Put
<1>2. x = Record(x.conv, x.spec, x.wired) /\ x.conv = v
  BY DEF Record
<1>3. DOMAIN r = DOMAIN record \union {k} /\ \A y \in DOMAIN r : (y = k /\ r[y] = x) \/ (y \in DOMAIN record /\ r[y] = record[y])
  BY <1>1
<1> QED
  BY <1>2, <1>3 DEF Shaped

LEMMA LessShaped ==
  ASSUME NEW C, Shaped(record, C), NEW k
  PROVE  Shaped(Less(k), C)
  BY DEF Shaped, Less

LEMMA PartsShaped ==
  ASSUME NEW C, Shaped(record, C), NEW r,
         \A k \in DOMAIN r :
           \/ \E j \in DOMAIN record : r[k] = record[j]
           \/ \E v \in C : \E sp, w : r[k] = Record(v, sp, w)
  PROVE  Shaped(r, C)
<1> SUFFICES ASSUME NEW k \in DOMAIN r PROVE r[k] = Record(r[k].conv, r[k].spec, r[k].wired) /\ r[k].conv \in C
  BY DEF Shaped
<1>1. CASE \E j \in DOMAIN record : r[k] = record[j]
  BY <1>1 DEF Shaped
<1>2. CASE \E v \in C : \E sp, w : r[k] = Record(v, sp, w)
  <2>1. PICK v, sp, w : v \in C /\ r[k] = Record(v, sp, w)
    BY <1>2
  <2> QED
    BY <2>1 DEF Record
<1> QED
  BY <1>1, <1>2

LEMMA SaveIs ==
  ASSUME NEW r, NEW f, NEW t
  PROVE  Save(r, f, t).record = r
  BY DEF Save

LEMMA ChangedShaped ==
  ASSUME NEW C, Shaped(record, C), NEW k \in DOMAIN record
  PROVE  /\ \A c : [record[k] EXCEPT !.conv = c] = Record(c, record[k].spec, record[k].wired)
         /\ \A c : [record[k] EXCEPT !.spec = c] = Record(record[k].conv, c, record[k].wired)
         /\ \A b : [record[k] EXCEPT !.wired = b] = Record(record[k].conv, record[k].spec, b)
         /\ record[k].conv \in C
<1>1. PICK v, sp, w : record[k] = [conv |-> v, spec |-> sp, wired |-> w]
  BY DEF Shaped, Record
<1>2. record[k].conv \in C
  BY DEF Shaped
<1> QED
  BY <1>1, <1>2 DEF Record

LEMMA AuthorsShaped ==
  ASSUME NEW C, Shaped(record, C), NEW c \in C, NEW K, NEW s \in Authors(K, c)
  PROVE  Shaped(s.record, C)
<1>1. PICK k \in K : s = Save(Put(k, Authored(c)), marked, Write(k, c))
  BY DEF Authors
<1>2. s.record = Put(k, Record(c, c, TRUE))
  BY <1>1, SaveIs DEF Authored
<1> QED
  BY <1>2, PutShaped

LEMMA DropsShaped ==
  ASSUME NEW C, Shaped(record, C), NEW s \in DropsByFlag
  PROVE  Shaped(s.record, C)
<1>1. PICK k \in DOMAIN record : s = Save(Less(k), marked \ {k}, IF k \in marked THEN Drop(k) ELSE Quiet)
  BY DEF DropsByFlag
<1> QED
  BY <1>1, SaveIs, LessShaped

LEMMA DeclaresShaped ==
  ASSUME NEW C, Shaped(record, C), None \in C, NEW c, NEW K, NEW s \in Declares(K, c)
  PROVE  Shaped(s.record, C)
<1>1. PICK k \in K : s = Save(Put(k, Record(None, c, k \in InUse)), marked, IF k \in InUse THEN Write(k, c) ELSE Quiet)
  BY DEF Declares
<1>2. PICK w : w = (k \in InUse)
  OBVIOUS
<1>3. s.record = Put(k, Record(None, c, w))
  BY <1>1, <1>2, SaveIs
<1> QED
  BY <1>3, PutShaped

LEMMA PutSaved ==
  ASSUME NEW C, Shaped(record, C), NEW k, NEW v \in C, NEW sp, NEW w, NEW f, NEW t
  PROVE  Shaped(Save(Put(k, Record(v, sp, w)), f, t).record, C)
<1>1. Save(Put(k, Record(v, sp, w)), f, t).record = Put(k, Record(v, sp, w))
  BY SaveIs
<1> QED
  BY <1>1, PutShaped

\* A record under another name, as it was or written anew.
LEMMA RenamedSaved ==
  ASSUME NEW C, Shaped(record, C), NEW k, NEW to, NEW v, NEW f, NEW t,
         (\E j \in DOMAIN record : v = record[j]) \/ (\E u \in C : \E sp, w : v = Record(u, sp, w))
  PROVE  Shaped(Save(Renamed(k, to, v), f, t).record, C)
<1> PICK r : r = Renamed(k, to, v)
  OBVIOUS
<1>1. r = [x \in (DOMAIN record \ {k}) \union {to} |-> IF x = to THEN v ELSE record[x]]
  BY DEF Renamed
<1>2. \A x \in DOMAIN r : r[x] = v \/ \E j \in DOMAIN record : r[x] = record[j]
  BY <1>1
<1>3. \A x \in DOMAIN r :
        (\E j \in DOMAIN record : r[x] = record[j]) \/ (\E u \in C : \E sp, w : r[x] = Record(u, sp, w))
  BY <1>2
<1>4. Shaped(r, C)
  BY <1>3, PartsShaped
<1> QED
  BY <1>4, SaveIs

LEMMA EndpointShaped ==
  ASSUME NEW C, Shaped(record, C), NEW c \in C,
         NEW s \in EndpointSaves(c) \union EndpointRenames(c) \union EndpointAliases(c) \union EndpointDeletes
  PROVE  Shaped(s.record, C)
<1>1. CASE s \in EndpointSaves(c)
  BY <1>1, AuthorsShaped DEF EndpointSaves
<1>2. CASE \E k, to, f, t : s = Save(Renamed(k, to, Authored(c)), f, t)
  <2>1. \E u \in C : \E sp, w : Authored(c) = Record(u, sp, w)
    BY DEF Authored
  <2> QED
    BY <1>2, <2>1, RenamedSaved
<1>3. CASE \E k \in DOMAIN record : \E f, t : s = Save(Put(k, [record[k] EXCEPT !.conv = c]), f, t)
  <2>1. PICK k, f, t : k \in DOMAIN record /\ s = Save(Put(k, Record(c, record[k].spec, record[k].wired)), f, t)
    BY <1>3, ChangedShaped
  <2> QED
    BY <2>1, PutSaved
<1>4. CASE s \in EndpointDeletes
  <2>1. PICK k, f, t : s = Save(Less(k), f, t)
    BY <1>4 DEF EndpointDeletes
  <2> QED
    BY <2>1, SaveIs, LessShaped
<1>5. s \in EndpointRenames(c) => \E k, to, f, t : s = Save(Renamed(k, to, Authored(c)), f, t)
  BY DEF EndpointRenames
<1>6. s \in EndpointAliases(c) =>
        \E k \in DOMAIN record : \E f, t : s = Save(Put(k, [record[k] EXCEPT !.conv = c]), f, t)
  BY DEF EndpointAliases
<1> QED
  BY <1>1, <1>2, <1>3, <1>4, <1>5, <1>6

LEMMA ConsumerShaped ==
  ASSUME NEW C, Shaped(record, C), NEW c \in C,
         NEW s \in ConsumerSaves(c) \union ConsumerRenames \union ConsumerDeletes
  PROVE  Shaped(s.record, C)
<1>1. CASE s \in Authors(Key, c)
  BY <1>1, AuthorsShaped
<1>2. CASE \E k \in DOMAIN record : \E f, t : s = Save(Put(k, [record[k] EXCEPT !.conv = c]), f, t)
  <2>1. PICK k, f, t : k \in DOMAIN record /\ s = Save(Put(k, Record(c, record[k].spec, record[k].wired)), f, t)
    BY <1>2, ChangedShaped
  <2> QED
    BY <2>1, PutSaved
<1>3. CASE s \in ConsumerRenames
  <2>1. PICK k \in DOMAIN record, to \in Key \ DOMAIN record :
          s = Save(Renamed(k, to, record[k]), IF k \in marked THEN (marked \ {k}) \union {to} ELSE marked,
                   IF k \in marked THEN Move(k, to, None) ELSE Quiet)
    BY <1>3 DEF ConsumerRenames
  <2> QED
    BY <2>1, RenamedSaved
<1>4. CASE s \in ConsumerDeletes
  BY <1>4, DropsShaped DEF ConsumerDeletes
<1>5. s \in ConsumerSaves(c) =>
        s \in Authors(Key, c) \/ \E k \in DOMAIN record : \E f, t : s = Save(Put(k, [record[k] EXCEPT !.conv = c]), f, t)
  BY DEF ConsumerSaves
<1> QED
  BY <1>1, <1>2, <1>3, <1>4, <1>5

LEMMA ContractShaped ==
  ASSUME NEW C, Shaped(record, C), None \in C, NEW c \in C,
         NEW s \in ContractCreates(c) \union ContractConfirms(c) \union ContractAttaches(c)
                     \union ContractDescribes(c) \union ContractDetaches
  PROVE  Shaped(s.record, C)
<1>1. CASE s \in ContractCreates(c)
  <2>1. PICK k : s = Save(Put(k, Record(None, c, FALSE)), marked, Quiet)
    BY <1>1 DEF ContractCreates
  <2> QED
    BY <2>1, PutSaved
<1>2. CASE s \in ContractConfirms(c)
  <2>1. PICK E, D, t :
          s = Save([k \in DOMAIN record \ D |-> IF k \in E THEN [record[k] EXCEPT !.spec = c] ELSE record[k]], marked, t)
    BY <1>2, ZenonT(30) DEF ContractConfirms
  <2> PICK r : r = [k \in DOMAIN record \ D |-> IF k \in E THEN [record[k] EXCEPT !.spec = c] ELSE record[k]]
    OBVIOUS
  <2>2. \A k \in DOMAIN r :
          (\E j \in DOMAIN record : r[k] = record[j]) \/ (\E u \in C : \E sp, w : r[k] = Record(u, sp, w))
    <3> SUFFICES ASSUME NEW k \in DOMAIN r
                 PROVE  (\E j \in DOMAIN record : r[k] = record[j]) \/ (\E u \in C : \E sp, w : r[k] = Record(u, sp, w))
      OBVIOUS
    <3>1. k \in DOMAIN record
      OBVIOUS
    <3>2. CASE k \in E
      <4>1. r[k] = Record(record[k].conv, c, record[k].wired) /\ record[k].conv \in C
        BY <3>1, <3>2, ChangedShaped
      <4> QED
        BY <4>1
    <3>3. CASE k \notin E
      BY <3>1, <3>3
    <3> QED
      BY <3>2, <3>3
  <2> QED
    BY <2>1, <2>2, SaveIs, PartsShaped
<1>3. CASE s \in ContractAttaches(c)
  <2>1. PICK k, t : s = Save(Put(k, Record(c, record[k].spec, TRUE)), marked, t)
    BY <1>3 DEF ContractAttaches
  <2> QED
    BY <2>1, PutSaved
<1>4. CASE s \in ContractDescribes(c)
  <2>1. PICK k, t : s = Save(Put(k, Record(c, c, TRUE)), marked, t)
    BY <1>4 DEF ContractDescribes, Authored
  <2> QED
    BY <2>1, PutSaved
<1>5. CASE s \in ContractDetaches
  <2>1. PICK k, t : k \in DOMAIN record /\ s = Save(Put(k, [record[k] EXCEPT !.wired = FALSE]), marked, t)
    BY <1>5 DEF ContractDetaches
  <2>2. s.record = Put(k, Record(record[k].conv, record[k].spec, FALSE)) /\ record[k].conv \in C
    BY <2>1, SaveIs, ChangedShaped
  <2> QED
    BY <2>2, PutShaped
<1> QED
  BY <1>1, <1>2, <1>3, <1>4, <1>5

LEMMA SchemaShaped ==
  ASSUME NEW C, Shaped(record, C), None \in C, NEW c \in C, NEW s \in SchemaSaves(c)
  PROVE  Shaped(s.record, C)
<1>1. CASE s \in Declares(Key, c)
  BY <1>1, DeclaresShaped
<1>2. CASE s \notin Declares(Key, c)
  <2>1. PICK k : s = Save(Put(k, Record(None, None, FALSE)), marked, Quiet)
    BY <1>2 DEF SchemaSaves
  <2> QED
    BY <2>1, PutSaved
<1> QED
  BY <1>1, <1>2

LEMMA ModelShaped ==
  ASSUME NEW C, Shaped(record, C), None \in C, NEW c \in C,
         NEW s \in ModelCreates(c) \union ModelConfirms(c) \union ModelDeletes
  PROVE  Shaped(s.record, C)
<1>1. CASE s \in ModelCreates(c)
  <2>1. PICK k : s = Save(Put(k, Record(None, c, FALSE)), marked, Quiet)
    BY <1>1 DEF ModelCreates
  <2> QED
    BY <2>1, PutSaved
<1>2. CASE s \in ModelConfirms(c)
  <2>1. PICK E, t :
          s = Save([k \in DOMAIN record |-> IF k \in E THEN Record(None, c, k \in InUse) ELSE record[k]], marked, t)
    BY <1>2, ZenonT(30) DEF ModelConfirms
  <2> PICK r : r = [k \in DOMAIN record |-> IF k \in E THEN Record(None, c, k \in InUse) ELSE record[k]]
    OBVIOUS
  <2>2. \A k \in DOMAIN r :
          (\E j \in DOMAIN record : r[k] = record[j]) \/ (\E u \in C : \E sp, w : r[k] = Record(u, sp, w))
    OBVIOUS
  <2> QED
    BY <2>1, <2>2, SaveIs, PartsShaped
<1>3. CASE s \in ModelDeletes
  <2>1. PICK k : s = Save(Less(k), marked, Quiet)
    BY <1>3 DEF ModelDeletes
  <2> QED
    BY <2>1, SaveIs, LessShaped
<1> QED
  BY <1>1, <1>2, <1>3

LEMMA PlainShaped ==
  ASSUME NEW C, Shaped(record, C), None \in C, NEW c \in C, NEW s,
         \/ s \in ListenerAdds(c) \union ListenerEdits(c) \union ListenerDeletes
         \/ s \in RegistrationSaves(c) \union RegistrationDeletes
         \/ s \in FunctionSaves(c) \union FunctionDeletes
         \/ s \in ProcessSaves \union ProcessDeletes \union ProcessStarts
         \/ s \in MethodSaves(c)
         \/ s \in PolicySaves(c)
         \/ s \in RedisApplies(c) \union PostgresApplies(c)
         \/ s \in TablesCreated(c) \union TablesApplied(c)
         \/ s \in CaptureAdds(c) \union CaptureRemoves
  PROVE  Shaped(s.record, C)
<1>1. CASE \E K : s \in Authors(K, c)
  BY <1>1, AuthorsShaped
<1>2. CASE s \in DropsByFlag
  BY <1>2, DropsShaped
<1>3. CASE \E K : s \in Declares(K, c)
  BY <1>3, DeclaresShaped
<1>4. CASE \E k, f, t : s = Save(Less(k), f, t)
  BY <1>4, SaveIs, LessShaped
<1>5. CASE \E k, sp, w, f, t : s = Save(Put(k, Record(None, sp, w)), f, t)
  BY <1>5, PutSaved
<1>6. CASE \E f, t : s = Save(record, f, t)
  BY <1>6, SaveIs
<1>7. CASE s \in CaptureRemoves
  <2>1. PICK k, x, l : l = Less(k) /\ s = [Save(l, marked, Quiet) EXCEPT !.code = x]
    BY <1>7 DEF CaptureRemoves
  <2>2. s.record = l
    BY <2>1 DEF Save
  <2> QED
    BY <2>1, <2>2, LessShaped
<1>8. s \in ListenerAdds(c) \union ListenerEdits(c) \union RegistrationSaves(c) \union FunctionSaves(c) \union MethodSaves(c)
        => \E K : s \in Authors(K, c)
  BY DEF ListenerAdds, ListenerEdits, RegistrationSaves, FunctionSaves, MethodSaves
<1>9. s \in ListenerDeletes \union RegistrationDeletes => s \in DropsByFlag
  BY DEF ListenerDeletes, RegistrationDeletes
<1>10. s \in RedisApplies(c) \union PostgresApplies(c) => \E K : s \in Declares(K, c)
  BY DEF RedisApplies, PostgresApplies
<1>11. s \in FunctionDeletes \union ProcessDeletes => \E k, f, t : s = Save(Less(k), f, t)
  BY DEF FunctionDeletes, ProcessDeletes
<1>12. s \in ProcessStarts => \E f, t : s = Save(record, f, t)
  BY DEF ProcessStarts
<1>13. s \in ProcessSaves \union PolicySaves(c) \union TablesCreated(c) \union TablesApplied(c)
         => \E k, sp, w, f, t : s = Save(Put(k, Record(None, sp, w)), f, t)
  <2>1. s \in ProcessSaves => \E k : s = Save(Put(k, Record(None, None, FALSE)), marked, Quiet)
    BY DEF ProcessSaves
  <2>2. s \in TablesCreated(c) => \E k : s = Save(Put(k, Record(None, c, TRUE)), marked, Write(k, c))
    BY DEF TablesCreated
  <2>3. s \in TablesApplied(c) => \E k : s = Save(Put(k, Record(None, c, TRUE)), marked, Write(k, c))
    BY DEF TablesApplied
  <2>4. s \in PolicySaves(c) => \E k, t : s = Save(Put(k, Record(None, c, TRUE)), marked, t)
    BY DEF PolicySaves
  <2> QED
    BY <2>1, <2>2, <2>3, <2>4
<1>14. s \in CaptureAdds(c) =>
         \/ \E f, t : s = Save(record, f, t)
         \/ \E k, sp, w, f, t : s = Save(Put(k, Record(None, sp, w)), f, t)
  <2>1. s \in CaptureAdds(c) =>
          \E k : \/ s = Save(record, marked, Quiet)
                 \/ s = Save(Put(k, Record(None, c, TRUE)), marked, Write(k, c))
    BY DEF CaptureAdds
  <2> QED
    BY <2>1
<1> QED
  BY <1>1, <1>2, <1>3, <1>4, <1>5, <1>6, <1>7, <1>8, <1>9, <1>10, <1>11, <1>12, <1>13, <1>14

LEMMA SavesShaped ==
  ASSUME kind \in Kind, NEW C, Shaped(record, C), None \in C, NEW c \in C, NEW s \in Saves(c)
  PROVE  Shaped(s.record, C)
<1>1. CASE kind = "endpoint"
  BY <1>1, EndpointShaped DEF Saves
<1>2. CASE kind = "consumer"
  BY <1>2, ConsumerShaped DEF Saves
<1>3. CASE kind = "contract"
  BY <1>3, ContractShaped DEF Saves
<1>4. CASE kind = "schema"
  BY <1>4, SchemaShaped DEF Saves
<1>5. CASE kind = "model"
  BY <1>5, ModelShaped DEF Saves
<1>6. CASE kind \in {"registration", "listener", "function", "process", "method", "policy", "topology", "tables", "capture"}
  BY <1>6, PlainShaped DEF Saves
<1> QED
  BY <1>1, <1>2, <1>3, <1>4, <1>5, <1>6 DEF Kind

-----------------------------------------------------------------------------
(* The dialogs with the queue. *)

LEMMA Wider ==
  ASSUME NEW X, NEW Y, Within(X, Y), NEW X2, NEW Y2, X \subseteq X2, Y \subseteq Y2
  PROVE  Within(X2, Y2)
  BY DEF Within

LEMMA WiderRecords ==
  ASSUME NEW C, NEW D, C \subseteq D, NEW r, Shaped(r, C)
  PROVE  Shaped(r, D)
  BY DEF Shaped

\* A conversation that is drawn is nobody's yet.
LEMMA FreshIs ==
  ASSUME MayDraw
  PROVE  Fresh \in Conv /\ Fresh # None /\ Fresh \notin DOMAIN task /\ Fresh \notin mishap.convs
<1>1. PICK D : D = Drawn
  OBVIOUS
<1>2. Conv \ D \in SUBSET Nat /\ Conv \ D # {}
  BY <1>1, ConversationsAreNumbered DEF MayDraw
<1>3. \E c \in Conv \ D : \A d \in Conv \ D : c <= d
  BY <1>2, Minimum
<1>4. Fresh \in Conv \ D
  BY <1>1, <1>3 DEF Fresh
<1>5. Fresh # None /\ Fresh \in Conv
  BY <1>4, NoneIsNoConversation
<1>6. DOMAIN task \subseteq D \union {None} /\ mishap.convs \subseteq D \union {None}
  BY <1>1 DEF Drawn
<1> QED
  BY <1>4, <1>5, <1>6

LEMMA LaunchedIs ==
  ASSUME NEW c, NEW t
  PROVE  DOMAIN Launched(c, t) = DOMAIN task \union {c}
  BY DEF Launched

\* What is saved stays, while a dialog opens, closes or has its answer and more is known.
LEMMA DraftsStay ==
  ASSUME Drafts, ~Launching', dialog'.stage \in {"closed", "open", "sent"},
         dialog'.stage = "sent" => dialog'.conv \in Conv,
         kind' = kind, record' = record, DOMAIN task \subseteq DOMAIN task', DOMAIN task' \subseteq Conv,
         Mishaps', mishap.convs \subseteq mishap'.convs,
         Launching => dialog.conv \in DOMAIN task' \union mishap'.convs,
         Within(DOMAIN task, mishap.convs)'
  PROVE  Drafts'
<1>1. PICK C, D, C2 :
        /\ C = DOMAIN task \union mishap.convs \union {None} /\ D = (IF Launching THEN {dialog.conv} ELSE {})
        /\ C2 = DOMAIN task' \union mishap'.convs \union {None}
  OBVIOUS
<1>2. Shaped(record, C \union D)
  BY <1>1 DEF Drafts, Records
<1>3. C \union D \subseteq C2
  BY <1>1
<1>4. PICK r : r = record /\ Shaped(r, C2)
  BY <1>2, <1>3, WiderRecords
<1>5. Records'
  <2>1. C2 \union (IF Launching' THEN {dialog'.conv} ELSE {}) = C2
    OBVIOUS
  <2> QED
    BY <1>1, <1>4, <2>1 DEF Records, Shaped
<1>6. Launches'
  BY DEF Drafts, Launches
<1>7. Sending'
  BY DEF Sending
<1> QED
  BY <1>5, <1>6, <1>7 DEF Drafts

\* The dialog stays too: the conversation it launches is not shown yet.
LEMMA DraftsSame ==
  ASSUME Drafts, dialog' = dialog, kind' = kind, record' = record, task' = task,
         Mishaps', mishap'.convs = mishap.convs,
         Within(DOMAIN task, mishap.convs)', terminal'.session \in DOMAIN task \union {terminal.session, None}
  PROVE  Drafts'
<1>1. Launching' = Launching
  BY DEF Launching
<1>2. Records'
  BY <1>1 DEF Drafts, Records, Shaped
<1>3. Launches'
  BY DEF Drafts, Launches
<1>4. Sending'
  <2>1. Launching => dialog.conv # None
    BY NoneIsNoConversation DEF Drafts, Sending, Launching
  <2> QED
    BY <1>1, <2>1 DEF Drafts, Sending
<1> QED
  BY <1>2, <1>3, <1>4 DEF Drafts

LEMMA QueueStepDrafts ==
  ASSUME IInv, QueueNext \/ Work, dialog' = dialog, kind' = kind, record' = record, task' = task,
         Mishaps', mishap'.convs = mishap.convs
  PROVE  IInv'
<1>1. PICK X, Y, Z : X = DOMAIN task /\ Y = mishap.convs /\ Z = {terminal.session}
  OBVIOUS
<1>2. Orderly /\ Within(X, Y) /\ Orderly'
  BY <1>1, QueueStepOrderly DEF IInv, Drafts, Launches
<1>3. Within(X, Z)
  BY <1>1, <1>2 DEF Within
<1>4. Within(X, Y)' /\ Within(X, Z)'
  BY <1>2, <1>3, QueueStepWithin
<1>5. Within(DOMAIN task, mishap.convs)'
  BY <1>1, <1>4 DEF Within
<1>6. terminal'.session \in DOMAIN task \union {terminal.session, None}
  BY <1>1, <1>4 DEF Within
<1>7. Drafts'
  BY <1>5, <1>6, DraftsSame DEF IInv
<1> QED
  BY <1>2, <1>7 DEF IInv

LEMMA MishapsHit ==
  ASSUME Mishaps, NEW keys, NEW convs, NEW runs, mishap' = Hit(keys, convs, runs), convs \subseteq Conv
  PROVE  Mishaps' /\ mishap'.convs = mishap.convs \union convs
  BY DEF Mishaps, Hit

LEMMA StillWithin ==
  ASSUME Drafts, UNCHANGED queueVars
  PROVE  Within(DOMAIN task, mishap.convs)' \/ DOMAIN task' # DOMAIN task \/ ~(mishap.convs \subseteq mishap'.convs)
  BY DEF Drafts, Launches, Within, Queued, queueVars

LEMMA OrderlyStays ==
  ASSUME Orderly, UNCHANGED queueVars
  PROVE  Orderly'
<1>1. QueueTypeOK' /\ Places'
  BY DEF Orderly, queueVars, QueueTypeOK, Places
<1>2. Attached' /\ Progressed' /\ Served'
  BY DEF Orderly, queueVars, Attached, Progressed, Served, ItemServed, Watched, Unmounted
<1> QED
  BY <1>1, <1>2 DEF Orderly

LEMMA DialogOpens ==
  ASSUME IInv, Open \/ Close
  PROVE  IInv'
<1>1. /\ UNCHANGED queueVars /\ kind' = kind /\ record' = record /\ task' = task /\ mishap' = mishap
      /\ dialog'.stage \in {"closed", "open"}
  BY DEF Open, Close, Closed
<1>2. Orderly'
  BY <1>1, OrderlyStays DEF IInv
<1>3. Mishaps' /\ Within(DOMAIN task, mishap.convs)' /\ DOMAIN task \subseteq Conv
  BY <1>1, StillWithin DEF IInv, Drafts, Mishaps, Launches
<1>4. ~Launching /\ ~Launching'
  BY <1>1 DEF Open, Close, Launching
<1>5. Drafts'
  BY <1>1, <1>3, <1>4, DraftsStay DEF IInv
<1> QED
  BY <1>2, <1>5 DEF IInv

LEMMA AnswerLost ==
  ASSUME IInv, LoseAnswer
  PROVE  IInv'
<1>1. /\ UNCHANGED queueVars /\ kind' = kind /\ record' = record /\ task' = task /\ mishap' = Unanswered
      /\ dialog.stage = "sent" /\ dialog'.stage = "open"
  BY DEF LoseAnswer
<1>2. Orderly'
  BY <1>1, OrderlyStays DEF IInv
<1>3. Mishaps' /\ mishap'.convs = mishap.convs \union {dialog.conv}
  <2>1. PICK keys : mishap' = Hit(keys, {dialog.conv}, {dialog.conv})
    BY <1>1 DEF Unanswered
  <2>2. Mishaps /\ {dialog.conv} \subseteq Conv
    BY <1>1 DEF IInv, Drafts, Sending
  <2> QED
    BY <2>1, <2>2, MishapsHit
<1>4. Within(DOMAIN task, mishap.convs)' /\ DOMAIN task \subseteq Conv
  BY <1>1, <1>3, StillWithin DEF IInv, Drafts, Launches
<1>5. ~Launching'
  BY <1>1 DEF Launching
<1>6. Drafts'
  BY <1>1, <1>3, <1>4, <1>5, DraftsStay DEF IInv
<1> QED
  BY <1>2, <1>6 DEF IInv

LEMMA Requested ==
  ASSUME IInv, Request
  PROVE  IInv'
<1>1. PICK f : f = Fresh
  OBVIOUS
<1>2. PICK s, keys, convs :
        /\ s \in Saves(f)
        /\ record' = s.record
        /\ dialog' = [stage |-> "sent", listed |-> dialog.listed, conv |-> f, launch |-> s.launch, task |-> s.task]
        /\ convs = {c \in {f} : ~s.launch /\ \E k \in DOMAIN s.record : s.record[k].conv = c}
        /\ mishap' = Hit(keys, convs, {})
  BY <1>1 DEF Request
<1>3. UNCHANGED queueVars /\ kind' = kind /\ task' = task /\ dialog.stage = "open" /\ ~Launching
  BY DEF Request, Launching
<1>4. f \in Conv /\ f # None /\ f \notin DOMAIN task /\ f \notin mishap.convs
  BY <1>1, FreshIs DEF Request
<1>5. Mishaps' /\ mishap'.convs = mishap.convs \union convs
  BY <1>2, <1>4, MishapsHit DEF IInv, Drafts
<1>6. Orderly' /\ Within(DOMAIN task, mishap.convs)'
  BY <1>3, <1>5, OrderlyStays, StillWithin DEF IInv
<1>7. PICK C : C = DOMAIN task \union mishap.convs \union {None}
  OBVIOUS
<1>8. Shaped(record, C)
  BY <1>3, <1>7 DEF IInv, Drafts, Records
<1>9. Shaped(s.record, C \union {f})
  <2>1. Shaped(record, C \union {f})
    BY <1>8, WiderRecords
  <2> QED
    BY <1>2, <1>7, <2>1, SavesShaped DEF IInv, Drafts, Launches
<1>10. PICK D : D = DOMAIN task' \union mishap'.convs \union {None} \union (IF Launching' THEN {dialog'.conv} ELSE {})
  OBVIOUS
<1>11. C \subseteq D
  BY <1>3, <1>5, <1>7, <1>10
<1>12. Shaped(s.record, D)
  <2>1. CASE Launching'
    <3>1. f \in D
      BY <1>2, <1>10, <2>1
    <3> QED
      BY <1>9, <1>11, <3>1, WiderRecords
  <2>2. CASE ~Launching'
    <3>1. ~s.launch
      BY <1>2, <2>2 DEF Launching
    <3>2. \A k \in DOMAIN s.record : s.record[k].conv = f => f \in D
      BY <1>2, <1>5, <1>10, <3>1
    <3> QED
      BY <1>9, <1>11, <3>2 DEF Shaped
  <2> QED
    BY <2>1, <2>2
<1>13. Records'
  BY <1>2, <1>10, <1>12 DEF Records, Shaped
<1>14. Launches'
  BY <1>3, <1>6 DEF IInv, Drafts, Launches
<1>15. Sending'
  <2>1. terminal' = terminal /\ f # terminal.session
    BY <1>3, <1>4 DEF IInv, Drafts, Launches, Within, queueVars
  <2>2. dialog'.stage = "sent" /\ dialog'.conv = f
    BY <1>2
  <2> QED
    BY <1>3, <1>4, <2>1, <2>2 DEF Sending
<1> QED
  BY <1>5, <1>6, <1>13, <1>14, <1>15 DEF IInv, Drafts

\* A conversation that nobody has been launched in takes its place in the queue.
LEMMA LaunchQueued ==
  ASSUME IInv, NEW c \in Conv, c \notin DOMAIN task, c # terminal.session, NEW t,
         task' = Launched(c, t), Enqueue(c), kind' = kind, record' = record, mishap' = mishap,
         dialog'.stage \in {"closed", "open"}, Launching => dialog.conv = c
  PROVE  IInv'
<1>1. PICK X : X = DOMAIN task \union {c}
  OBVIOUS
<1>2. DOMAIN task' = X /\ X \subseteq Conv
  BY <1>1, LaunchedIs DEF IInv, Drafts, Launches
<1>3. c \notin Queued(queue) /\ c \notin created
  BY DEF IInv, Drafts, Launches, Within
<1>4. Orderly'
  BY <1>3, EnqueueOrderly DEF IInv
<1>5. PICK Y : Y = mishap.convs
  OBVIOUS
<1>6. Within(X, Y)
  <2>1. Within(DOMAIN task, Y)
    BY <1>5 DEF IInv, Drafts, Launches
  <2> QED
    BY <1>1, <2>1, Wider
<1>7. Within(X, Y)'
  BY <1>1, <1>6, EnqueueWithin DEF IInv
<1>8. Within(DOMAIN task, mishap.convs)'
  BY <1>2, <1>5, <1>7 DEF Within
<1>9. Mishaps' /\ ~Launching'
  BY DEF IInv, Drafts, Mishaps, Launching
<1>10. DOMAIN task \subseteq DOMAIN task' /\ DOMAIN task' \subseteq Conv /\ mishap.convs \subseteq mishap'.convs
  BY <1>1, <1>2
<1>11. Launching => dialog.conv \in DOMAIN task' \union mishap'.convs
  BY <1>1, <1>2
<1>12. dialog'.stage \in {"closed", "open", "sent"} /\ dialog'.stage # "sent"
  OBVIOUS
<1>13. Drafts'
  BY <1>8, <1>9, <1>10, <1>11, <1>12, DraftsStay DEF IInv
<1> QED
  BY <1>4, <1>13 DEF IInv

LEMMA Answered ==
  ASSUME IInv, Answer
  PROVE  IInv'
<1>1. kind' = kind /\ record' = record /\ mishap' = mishap /\ dialog.stage = "sent"
      /\ dialog'.stage \in {"closed", "open"}
  BY DEF Answer, Closed
<1>2. CASE dialog.launch
  <2>1. Launching
    BY <1>1, <1>2 DEF Launching
  <2>2. dialog.conv \in Conv /\ dialog.conv \notin DOMAIN task /\ dialog.conv # terminal.session
    BY <1>1, <2>1 DEF IInv, Drafts, Sending
  <2>3. task' = Launched(dialog.conv, dialog.task) /\ Enqueue(dialog.conv)
    BY <1>2 DEF Answer
  <2> QED
    BY <1>1, <2>2, <2>3, LaunchQueued
<1>3. CASE ~dialog.launch
  <2>1. UNCHANGED queueVars /\ task' = task /\ ~Launching
    BY <1>3 DEF Answer, Launching
  <2>2. Orderly'
    BY <2>1, OrderlyStays DEF IInv
  <2>3. Mishaps' /\ Within(DOMAIN task, mishap.convs)' /\ DOMAIN task \subseteq Conv
    BY <1>1, <2>1, StillWithin DEF IInv, Drafts, Mishaps, Launches
  <2>4. ~Launching'
    BY <1>1 DEF Launching
  <2>5. Drafts'
    BY <1>1, <2>1, <2>3, <2>4, DraftsStay DEF IInv
  <2> QED
    BY <2>2, <2>5 DEF IInv
<1> QED
  BY <1>2, <1>3

LEMMA Described ==
  ASSUME IInv, Describe
  PROVE  IInv'
<1>1. kind' = kind /\ record' = record /\ mishap' = mishap /\ dialog.stage = "open"
      /\ dialog'.stage \in {"closed", "open"} /\ ~Launching
  BY DEF Describe, Closed, Launching
<1>2. PICK f : f = Fresh
  OBVIOUS
<1>3. task' = Launched(f, Quiet) /\ Enqueue(f)
  BY <1>2 DEF Describe
<1>4. f \in Conv /\ f # None /\ f \notin DOMAIN task /\ f \notin mishap.convs
  BY <1>2, FreshIs DEF Describe
<1>5. f # terminal.session
  BY <1>4 DEF IInv, Drafts, Launches, Within
<1> QED
  BY <1>1, <1>3, <1>4, <1>5, LaunchQueued

LEMMA Resumed ==
  ASSUME IInv, Resume
  PROVE  IInv'
<1>1. /\ kind' = kind /\ record' = record /\ mishap' = mishap /\ task' = task
      /\ dialog.stage = "open" /\ dialog'.stage = "closed" /\ ~Launching /\ ~Launching'
  BY DEF Resume, Closed, Launching
<1>2. PICK k, id : k \in DOMAIN record /\ id = record[k].conv /\ id # None /\ Reopen(id)
  BY DEF Resume
<1>3. PICK X, Y : X = DOMAIN task /\ Y = mishap.convs /\ Within(X, Y) /\ X \union Y \subseteq Conv
  BY DEF IInv, Drafts, Launches, Mishaps
<1>4. id \in X \union Y
  BY <1>1, <1>2, <1>3 DEF IInv, Drafts, Records, Shaped
<1>5. id \in Conv
  BY <1>3, <1>4
<1>6. Orderly'
  BY <1>2, <1>5, ReopenOrderly DEF IInv
<1>7. Within(X, Y)'
  BY <1>2, <1>3, <1>4, ReopenWithin DEF IInv
<1>8. Within(DOMAIN task, mishap.convs)' /\ DOMAIN task' \subseteq Conv
  BY <1>1, <1>3, <1>7 DEF Within
<1>9. Mishaps'
  BY <1>1 DEF IInv, Drafts, Mishaps
<1>10. Drafts'
  BY <1>1, <1>8, <1>9, DraftsStay DEF IInv
<1> QED
  BY <1>6, <1>10 DEF IInv

LEMMA CarriedOut ==
  ASSUME IInv, CarryOut
  PROVE  IInv'
<1>1. Work /\ kind' = kind /\ record' = record /\ task' = task /\ dialog' = dialog
  BY DEF CarryOut
<1>2. mishap' = mishap \/ mishap' = Hit({}, {}, {run.owner})
  BY DEF CarryOut
<1>3. Mishaps' /\ mishap'.convs = mishap.convs
  <2>1. CASE mishap' = mishap
    BY <2>1 DEF IInv, Drafts, Mishaps
  <2>2. CASE mishap' = Hit({}, {}, {run.owner})
    BY <2>2, MishapsHit DEF IInv, Drafts
  <2> QED
    BY <1>2, <2>1, <2>2
<1> QED
  BY <1>1, <1>3, QueueStepDrafts

\* Nothing that the queue or the records say changes.
LEMMA Untouched ==
  ASSUME IInv, UNCHANGED queueVars, kind' = kind, record' = record, task' = task, dialog' = dialog,
         Mishaps', mishap'.convs = mishap.convs
  PROVE  IInv'
<1>1. Orderly'
  BY OrderlyStays DEF IInv
<1>2. Within(DOMAIN task, mishap.convs)'
  BY StillWithin DEF IInv
<1>3. terminal'.session \in DOMAIN task \union {terminal.session, None}
  BY DEF queueVars
<1>4. Drafts'
  BY <1>2, <1>3, DraftsSame DEF IInv
<1> QED
  BY <1>1, <1>4 DEF IInv

LEMMA RunEnded ==
  ASSUME IInv, EndRun
  PROVE  IInv'
<1>1. /\ UNCHANGED queueVars /\ kind' = kind /\ record' = record /\ task' = task /\ dialog' = dialog
      /\ mishap' = Hit({}, {}, {run.owner})
  BY DEF EndRun
<1>2. Mishaps' /\ mishap'.convs = mishap.convs
  BY <1>1, MishapsHit DEF IInv, Drafts
<1> QED
  BY <1>1, <1>2, Untouched

LEMMA PageReloaded ==
  ASSUME IInv, ReloadPage
  PROVE  IInv'
<1>1. /\ Reload /\ kind' = kind /\ record' = record /\ task' = task
      /\ dialog'.stage = "closed" /\ ~Launching'
  BY DEF ReloadPage, Closed, Launching
<1>2. mishap' = IF Launching THEN Unanswered ELSE mishap
  BY DEF ReloadPage
<1>3. Mishaps' /\ mishap.convs \subseteq mishap'.convs /\ (Launching => dialog.conv \in mishap'.convs)
  <2>1. CASE Launching
    <3>1. PICK keys : mishap' = Hit(keys, {dialog.conv}, {dialog.conv})
      BY <1>2, <2>1 DEF Unanswered
    <3>2. Mishaps /\ {dialog.conv} \subseteq Conv
      BY <2>1 DEF IInv, Drafts, Sending, Launching
    <3>3. Mishaps' /\ mishap'.convs = mishap.convs \union {dialog.conv}
      BY <3>1, <3>2, MishapsHit
    <3> QED
      BY <3>3
  <2>2. CASE ~Launching
    BY <1>2, <2>2 DEF IInv, Drafts, Mishaps
  <2> QED
    BY <2>1, <2>2
<1>4. PICK X, Y : X = DOMAIN task /\ Y = mishap.convs /\ Within(X, Y) /\ X \subseteq Conv
  BY DEF IInv, Drafts, Launches
<1>5. Orderly' /\ Within(X, Y)'
  BY <1>1, <1>4, QueueStepOrderly, QueueStepWithin DEF IInv
<1>6. Within(DOMAIN task, mishap.convs)'
  BY <1>1, <1>3, <1>4, <1>5 DEF Within
<1>7. Drafts'
  BY <1>1, <1>3, <1>4, <1>6, DraftsStay DEF IInv
<1> QED
  BY <1>5, <1>7 DEF IInv

LEMMA InitDrafts ==
  ASSUME AuthoringInit
  PROVE  IInv
<1>1. Orderly
  BY QueueInitOrderly DEF AuthoringInit
<1>2. kind \in Kind /\ task = <<>> /\ mishap = [keys |-> {}, convs |-> {}, runs |-> {}] /\ dialog = Closed
  BY KindsOfRecords DEF AuthoringInit
<1>3. DOMAIN task = {}
  BY <1>2
<1>4. Launches
  BY <1>2, <1>3 DEF AuthoringInit, QueueInit, Unmounted, Queued, Launches, Within
<1>5. Mishaps /\ Sending /\ ~Launching
  BY <1>2 DEF Mishaps, Sending, Launching, Closed
<1>6. Records
  <2>1. Shaped([k \in InUse |-> Record(None, None, TRUE)], {None})
    BY DEF Shaped, Record
  <2>2. Shaped(<<>>, {None})
    BY DEF Shaped
  <2>3. Shaped(record, {None})
    BY <2>1, <2>2 DEF AuthoringInit
  <2>4. {None} \subseteq DOMAIN task \union mishap.convs \union {None} \union (IF Launching THEN {dialog.conv} ELSE {})
    OBVIOUS
  <2> QED
    BY <2>3, <2>4, WiderRecords DEF Records
<1> QED
  BY <1>1, <1>4, <1>5, <1>6 DEF IInv, Drafts

LEMMA Preserved ==
  ASSUME IInv, [AuthoringNext]_authoringVars
  PROVE  IInv'
<1>1. CASE QueueStep
  <2>1. QueueNext /\ dialog' = dialog /\ kind' = kind /\ record' = record /\ task' = task /\ mishap' = mishap
    BY <1>1 DEF QueueStep, dialogVars
  <2>2. Mishaps'
    BY <2>1 DEF IInv, Drafts, Mishaps
  <2> QED
    BY <2>1, <2>2, QueueStepDrafts
<1>2. CASE UNCHANGED authoringVars
  <2>1. UNCHANGED queueVars /\ dialog' = dialog /\ kind' = kind /\ record' = record /\ task' = task /\ mishap' = mishap
    BY <1>2 DEF authoringVars, dialogVars
  <2>2. Mishaps'
    BY <2>1 DEF IInv, Drafts, Mishaps
  <2> QED
    BY <2>1, <2>2, Untouched
<1> QED
  BY <1>1, <1>2, DialogOpens, Requested, Answered, AnswerLost, Described, Resumed, CarriedOut, RunEnded, PageReloaded
     DEF AuthoringNext

-----------------------------------------------------------------------------
\* Whatever the dialogs launch and resume and whatever the user does to the terminal, the queue runs its
\* items one at a time in the order they came, listens to the running one over a connection that Claude
\* accepts and that the server watches for the token, and takes an item for done when its task is.
THEOREM QueueIsServed == AuthoringSpec => []QueueServed
<1>1. AuthoringInit => IInv
  BY InitDrafts
<1>2. IInv /\ [AuthoringNext]_authoringVars => IInv'
  BY Preserved
<1>3. IInv => QueueServed
  BY OrderlyServes DEF IInv
<1> QED
  BY <1>1, <1>2, <1>3, PTL DEF AuthoringSpec

-----------------------------------------------------------------------------
(* What became of the conversations, and the run the server believes in. *)

\* A launched conversation has begun, waits for its turn, or has lost it.
Known == DOMAIN task \subseteq created \union Queued(queue) \union lapsed

\* Only processes run, and a session that is still to run one finds that the server believes in it.
Promised(c) ==
  /\ run # NoRun /\ run = [key |-> run.key, owner |-> c]
  /\ Asked[c].runs = {run.key} /\ run.key \in DOMAIN record
RunsKept ==
  /\ kind # "process" => \A c \in DOMAIN Asked : Asked[c].runs = {}
  /\ \A c \in DOMAIN Asked :
       Asked[c].runs # {} /\ c \notin finished \union mishap.runs \union lapsed => Promised(c)

Remembered == Known /\ RunsKept

LEMMA SettleQueued ==
  ASSUME NEW q \in Seq(Item), NEW t, NEW s, Settle(q, t, s)
  PROVE  Queued(queue)' = {q[i].id : i \in DOMAIN q}
<1> DEFINE idle == Active(q) = {} /\ PendingAt(q) # {}
<1>1. CASE ~idle
  <2>1. queue' = q
    BY <1>1 DEF Settle
  <2> QED
    BY <2>1 DEF Queued
<1>2. CASE idle
  <2>1. PICK first : queue' = [q EXCEPT ![first].status = "running"]
    BY <1>2 DEF Settle
  <2>2. DOMAIN queue' = DOMAIN q /\ \A i \in DOMAIN q : q[i] \in Item
    BY <2>1
  <2>3. \A i \in DOMAIN q : queue'[i].id = q[i].id
    BY <2>1, <2>2 DEF Item
  <2> QED
    BY <2>2, <2>3 DEF Queued
<1> QED
  BY <1>1, <1>2

\* When items are taken out of the queue, these are the ones that are not queued any more.
LEMMA FilteredQueued ==
  ASSUME Orderly, NEW at \in SUBSET DOMAIN queue, NEW t, NEW s, Settle(Filtered(queue, at), t, s),
         NEW i \in DOMAIN queue
  PROVE  i \in at => queue[i].id \in Queued(queue)'
<1>1. queue \in Seq(Item)
  BY QueueTyped DEF Orderly
<1>2. PICK q : q = Filtered(queue, at)
  OBVIOUS
<1>3. PICK f, m : Selects(queue, at, f, m, Item)
  BY <1>1, FilteredIs
<1>4. /\ q \in Seq(Item) /\ DOMAIN q = 1..m /\ \A k \in 1..m : q[k] = queue[f[k]]
      /\ \A j \in at : \E k \in 1..m : f[k] = j
  BY <1>2, <1>3 DEF Selects
<1>5. Queued(queue)' = {q[k].id : k \in DOMAIN q}
  BY <1>2, <1>4, SettleQueued
<1>6. ASSUME i \in at PROVE \E k \in DOMAIN q : q[k] = queue[i]
  BY <1>4, <1>6
<1> QED
  BY <1>5, <1>6

\* No step of the queue forgets a conversation, or that one has worked or lost its turn.
LEMMA NobodyForgotten ==
  ASSUME Orderly, QueueNext \/ Work \/ Reload \/ \E id : Reopen(id)
  PROVE  /\ created \union Queued(queue) \union lapsed \subseteq (created \union Queued(queue) \union lapsed)'
         /\ finished \subseteq finished' /\ lapsed \subseteq lapsed'
<1>1. CASE Connect \/ Opened \/ Start \/ Work \/ PrintToken \/ Exit \/ Toggle \/ \E id : Reopen(id)
  <2>1. /\ queue' = queue /\ created \subseteq created' /\ lapsed \subseteq lapsed' /\ finished \subseteq finished'
    BY <1>1 DEF Connect, Opened, Start, Work, PrintToken, Exit, Toggle, Reopen
  <2> QED
    BY <2>1 DEF Queued
<1>2. CASE SessionDone
  <2>1. /\ created' = created /\ lapsed' = lapsed /\ finished' = finished /\ DOMAIN queue' = DOMAIN queue
    BY <1>2 DEF SessionDone, Orderly, QueueTypeOK
  <2>2. \A i \in DOMAIN queue : queue[i] \in Item
    BY QueueTyped DEF Orderly
  <2>3. \A i \in DOMAIN queue : queue'[i].id = queue[i].id
    BY <1>2, <2>2 DEF SessionDone, Item
  <2> QED
    BY <2>1, <2>3 DEF Queued
<1>3. CASE Advance
  <2> PICK at, t, s : at = {i \in DOMAIN queue : queue[i].status # "done"} /\ t = terminal /\ s = shown
    OBVIOUS
  <2>1. /\ at \in SUBSET DOMAIN queue /\ Settle(Filtered(queue, at), t, s)
        /\ created' = created /\ finished' = finished /\ lapsed' = lapsed
    BY <1>3 DEF Advance
  <2>2. ASSUME NEW i \in DOMAIN queue PROVE queue[i].id \in created \union Queued(queue)'
    <3>1. CASE i \in at
      BY <2>1, <3>1, FilteredQueued
    <3>2. CASE i \notin at
      BY <3>2 DEF Orderly, Served, ItemServed, QueueTypeOK
    <3> QED
      BY <3>1, <3>2
  <2> QED
    BY <2>1, <2>2 DEF Queued
<1>4. CASE \E id \in Queued(queue) : Cancel(id)
  <2>1. PICK id : Cancel(id)
    BY <1>4
  <2> PICK at : at = {i \in DOMAIN queue : queue[i].id # id}
    OBVIOUS
  <2>2. PICK t, s : Settle(Without(queue, id), t, s)
    BY <2>1 DEF Cancel
  <2>3. /\ at \in SUBSET DOMAIN queue /\ Settle(Filtered(queue, at), t, s)
        /\ created' = created /\ finished' = finished /\ lapsed' = lapsed \union {id}
    BY <2>1, <2>2 DEF Cancel, Without
  <2>4. ASSUME NEW i \in DOMAIN queue PROVE queue[i].id \in {id} \union Queued(queue)'
    BY <2>3, FilteredQueued
  <2> QED
    BY <2>3, <2>4 DEF Queued
<1>5. CASE Reload
  BY <1>5 DEF Reload
<1> QED
  BY <1>1, <1>2, <1>3, <1>4, <1>5 DEF QueueNext

-----------------------------------------------------------------------------
(* Which sessions run something: those a process is started with. *)

LEMMA TaskRuns ==
  ASSUME NEW drop, NEW write, NEW by, NEW needs
  PROVE  Task(drop, write, by, needs).runs = {}
  BY DEF Task

LEMMA TasksRun ==
  /\ Quiet.runs = {}
  /\ \A k, c : Write(k, c).runs = {}
  /\ \A k, to, c : Move(k, to, c).runs = {}
  /\ \A k : Drop(k).runs = {}
  BY TaskRuns DEF Quiet, Write, Move, Drop

RunsNothing(s) == \E r, f, t : s = Save(r, f, t) /\ t.runs = {}

LEMMA ListsRunNothing ==
  ASSUME NEW c, NEW s,
         \/ \E K : s \in Authors(K, c) \union Declares(K, c)
         \/ s \in DropsByFlag
  PROVE  RunsNothing(s)
<1>1. CASE \E K : s \in Authors(K, c)
  <2>1. PICK k : s = Save(Put(k, Authored(c)), marked, Write(k, c))
    BY <1>1 DEF Authors
  <2> QED
    BY <2>1, TasksRun DEF RunsNothing
<1>2. CASE \E K : s \in Declares(K, c)
  <2>1. PICK k, t : /\ s = Save(Put(k, Record(None, c, k \in InUse)), marked, t)
                    /\ t = IF k \in InUse THEN Write(k, c) ELSE Quiet
    BY <1>2 DEF Declares
  <2>2. t.runs = {}
    BY <2>1, TasksRun
  <2> QED
    BY <2>1, <2>2 DEF RunsNothing
<1>3. CASE s \in DropsByFlag
  <2>1. PICK k, t : s = Save(Less(k), marked \ {k}, t) /\ t = IF k \in marked THEN Drop(k) ELSE Quiet
    BY <1>3 DEF DropsByFlag
  <2>2. t.runs = {}
    BY <2>1, TasksRun
  <2> QED
    BY <2>1, <2>2 DEF RunsNothing
<1> QED
  BY <1>1, <1>2, <1>3

LEMMA EndpointRuns ==
  ASSUME NEW c, NEW s \in EndpointSaves(c) \union EndpointRenames(c) \union EndpointAliases(c) \union EndpointDeletes
  PROVE  RunsNothing(s)
<1>1. CASE s \in EndpointSaves(c)
  BY <1>1, ListsRunNothing DEF EndpointSaves
<1>2. CASE s \in EndpointRenames(c)
  <2>1. PICK k, to : s = Save(Renamed(k, to, Authored(c)), marked, Move(k, to, c))
    BY <1>2 DEF EndpointRenames
  <2> QED
    BY <2>1, TasksRun DEF RunsNothing
<1>3. CASE s \in EndpointAliases(c)
  <2>1. PICK r : s = Save(r, marked, Quiet)
    BY <1>3 DEF EndpointAliases
  <2> QED
    BY <2>1, TasksRun DEF RunsNothing
<1>4. CASE s \in EndpointDeletes
  <2>1. PICK k, t : s = Save(Less(k), marked, t) /\ t = IF k \in dialog.listed THEN Drop(k) ELSE Quiet
    BY <1>4 DEF EndpointDeletes
  <2>2. t.runs = {}
    BY <2>1, TasksRun
  <2> QED
    BY <2>1, <2>2 DEF RunsNothing
<1> QED
  BY <1>1, <1>2, <1>3, <1>4

LEMMA ConsumerRuns ==
  ASSUME NEW c, NEW s \in ConsumerSaves(c) \union ConsumerRenames \union ConsumerDeletes
  PROVE  RunsNothing(s)
<1>1. CASE s \in Authors(Key, c) \union ConsumerDeletes
  BY <1>1, ListsRunNothing DEF ConsumerDeletes
<1>2. CASE s \in ConsumerSaves(c) \ Authors(Key, c)
  <2>1. PICK r : s = Save(r, marked, Quiet)
    BY <1>2 DEF ConsumerSaves
  <2> QED
    BY <2>1, TasksRun DEF RunsNothing
<1>3. CASE s \in ConsumerRenames
  <2>1. PICK k \in DOMAIN record, to \in Key \ DOMAIN record :
          s = Save(Renamed(k, to, record[k]), IF k \in marked THEN (marked \ {k}) \union {to} ELSE marked,
                   IF k \in marked THEN Move(k, to, None) ELSE Quiet)
    BY <1>3 DEF ConsumerRenames
  <2>2. PICK r, f, t : /\ r = Renamed(k, to, record[k]) /\ t = IF k \in marked THEN Move(k, to, None) ELSE Quiet
                       /\ f = IF k \in marked THEN (marked \ {k}) \union {to} ELSE marked
    OBVIOUS
  <2>3. t.runs = {}
    BY <2>2, TasksRun
  <2>4. s = Save(r, f, t)
    BY <2>1, <2>2
  <2> QED
    BY <2>3, <2>4 DEF RunsNothing
<1> QED
  BY <1>1, <1>2, <1>3

LEMMA ContractRuns ==
  ASSUME NEW c, NEW s,
         s \in ContractCreates(c) \union ContractConfirms(c) \union ContractAttaches(c) \union ContractDescribes(c)
                 \union ContractDetaches
  PROVE  RunsNothing(s)
<1>1. CASE s \in ContractCreates(c)
  <2>1. PICK r : s = Save(r, marked, Quiet)
    BY <1>1 DEF ContractCreates
  <2> QED
    BY <2>1, TasksRun DEF RunsNothing
<1>2. CASE s \in ContractConfirms(c)
  <2>1. PICK r, drop, write, by, needs : s = Save(r, marked, Task(drop, write, by, needs))
    BY <1>2 DEF ContractConfirms
  <2> QED
    BY <2>1, TaskRuns DEF RunsNothing
<1>3. CASE s \in ContractAttaches(c) \union ContractDescribes(c)
  <2>1. PICK r, k, by : s = Save(r, marked, Write(k, by))
    BY <1>3 DEF ContractAttaches, ContractDescribes
  <2> QED
    BY <2>1, TasksRun DEF RunsNothing
<1>4. CASE s \in ContractDetaches
  <2>1. PICK r, k : s = Save(r, marked, Drop(k))
    BY <1>4 DEF ContractDetaches
  <2> QED
    BY <2>1, TasksRun DEF RunsNothing
<1> QED
  BY <1>1, <1>2, <1>3, <1>4

LEMMA ModelRuns ==
  ASSUME NEW c, NEW s \in ModelCreates(c) \union ModelConfirms(c) \union ModelDeletes
  PROVE  RunsNothing(s)
<1>1. CASE s \in ModelCreates(c) \union ModelDeletes
  <2>1. PICK r : s = Save(r, marked, Quiet)
    BY <1>1 DEF ModelCreates, ModelDeletes
  <2> QED
    BY <2>1, TasksRun DEF RunsNothing
<1>2. CASE s \in ModelConfirms(c)
  <2>1. PICK r, t, E :
          s = Save(r, marked, t) /\ t = IF E \intersect InUse = {} THEN Quiet ELSE Task({}, E \intersect InUse, c, {})
    BY <1>2 DEF ModelConfirms
  <2>2. t.runs = {}
    BY <2>1, TasksRun, TaskRuns
  <2> QED
    BY <2>1, <2>2 DEF RunsNothing
<1> QED
  BY <1>1, <1>2

LEMMA PlainRuns ==
  ASSUME NEW c, NEW s,
         \/ s \in ListenerAdds(c) \union ListenerEdits(c) \union ListenerDeletes
         \/ s \in RegistrationSaves(c) \union RegistrationDeletes
         \/ s \in FunctionSaves(c) \union FunctionDeletes
         \/ s \in ProcessSaves \union ProcessDeletes
         \/ s \in MethodSaves(c)
         \/ s \in PolicySaves(c)
         \/ s \in RedisApplies(c) \union PostgresApplies(c)
         \/ s \in SchemaSaves(c)
         \/ s \in TablesCreated(c) \union TablesApplied(c)
  PROVE  RunsNothing(s)
<1>1. CASE s \in ListenerAdds(c) \union ListenerEdits(c) \union RegistrationSaves(c) \union FunctionSaves(c) \union MethodSaves(c)
  BY <1>1, ListsRunNothing DEF ListenerAdds, ListenerEdits, RegistrationSaves, FunctionSaves, MethodSaves
<1>2. CASE s \in ListenerDeletes \union RegistrationDeletes
  BY <1>2, ListsRunNothing DEF ListenerDeletes, RegistrationDeletes
<1>3. CASE s \in RedisApplies(c) \union PostgresApplies(c)
  BY <1>3, ListsRunNothing DEF RedisApplies, PostgresApplies
<1>4. CASE s \in FunctionDeletes \union ProcessSaves \union ProcessDeletes
  <2>1. PICK r : s = Save(r, marked, Quiet)
    BY <1>4 DEF FunctionDeletes, ProcessSaves, ProcessDeletes
  <2> QED
    BY <2>1, TasksRun DEF RunsNothing
<1>5. CASE s \in TablesCreated(c) \union TablesApplied(c)
  <2>1. PICK r, k : s = Save(r, marked, Write(k, c))
    BY <1>5 DEF TablesCreated, TablesApplied
  <2> QED
    BY <2>1, TasksRun DEF RunsNothing
<1>6. CASE s \in PolicySaves(c)
  <2>1. PICK r, drop, write, by, needs : s = Save(r, marked, Task(drop, write, by, needs))
    BY <1>6 DEF PolicySaves
  <2> QED
    BY <2>1, TaskRuns DEF RunsNothing
<1>7. CASE s \in SchemaSaves(c)
  <2>1. CASE s \in Declares(Key, c)
    BY <2>1, ListsRunNothing
  <2>2. CASE s \notin Declares(Key, c)
    <3>1. PICK r : s = Save(r, marked, Quiet)
      BY <1>7, <2>2 DEF SchemaSaves
    <3> QED
      BY <3>1, TasksRun DEF RunsNothing
  <2> QED
    BY <2>1, <2>2
<1> QED
  BY <1>1, <1>2, <1>3, <1>4, <1>5, <1>6, <1>7

LEMMA CaptureRuns ==
  ASSUME NEW c, NEW s, s \in CaptureAdds(c) \/ s \in CaptureRemoves
  PROVE  s.task.runs = {}
<1>1. CASE s \in CaptureAdds(c)
  <2>1. PICK one, fresh :
          /\ one = Save(record, marked, Quiet)
          /\ fresh = [k \in Key |-> Save(Put(k, Record(None, c, TRUE)), marked, Write(k, c))]
    OBVIOUS
  <2>2. \A k \in Key : fresh[k].task.runs = {}
    BY <2>1, TasksRun DEF Save
  <2>3. one.task.runs = {}
    BY <2>1, TasksRun DEF Save
  <2>4. CaptureAdds(c) \subseteq {one} \union {fresh[k] : k \in Key}
    BY <2>1, Zenon DEF CaptureAdds
  <2> QED
    BY <1>1, <2>2, <2>3, <2>4
<1>2. CASE s \in CaptureRemoves
  <2>1. PICK k, x : s = [Save(Less(k), marked, Quiet) EXCEPT !.code = x]
    BY <1>2 DEF CaptureRemoves
  <2>2. s.task = Quiet
    BY <2>1 DEF Save
  <2> QED
    BY <2>2, TasksRun
<1> QED
  BY <1>1, <1>2

\* A save that has something run is the start of a process, when nothing runs; and no save takes the
\* process away that is running.
LEMMA SavesRun ==
  ASSUME kind \in Kind, NEW c, NEW s \in Saves(c)
  PROVE  /\ \/ s.task.runs = {}
            \/ /\ kind = "process" /\ run = NoRun /\ s.launch /\ s.record = record
               /\ \E k \in DOMAIN record : s.task.runs = {k}
         /\ kind = "process" /\ run # NoRun /\ run.key \in DOMAIN record => run.key \in DOMAIN s.record
<1>1. RunsNothing(s) => s.task.runs = {}
  <2> SUFFICES ASSUME NEW r, NEW f, NEW t, s = Save(r, f, t), t.runs = {} PROVE s.task.runs = {}
    BY DEF RunsNothing
  <2> QED
    BY DEF Save
<1>2. CASE kind \in {"endpoint", "consumer", "contract", "model"}
  BY <1>1, <1>2, EndpointRuns, ConsumerRuns, ContractRuns, ModelRuns DEF Saves
<1>3. CASE kind \in {"registration", "listener", "function", "method", "policy", "topology", "schema", "tables"}
  BY <1>1, <1>3, PlainRuns DEF Saves
<1>4. CASE kind = "capture"
  BY <1>4, CaptureRuns DEF Saves
<1>5. CASE kind = "process"
  <2>1. CASE s \in ProcessStarts
    <3>1. PICK k \in DOMAIN record : run = NoRun /\ s = Save(record, marked, Run(k))
      BY <2>1 DEF ProcessStarts
    <3>2. Run(k).runs = {k} /\ Run(k) # Quiet
      <4>1. Run(k).runs = {k}
        BY DEF Run, Quiet, Task
      <4> QED
        BY <4>1, TasksRun
    <3> QED
      BY <1>5, <3>1, <3>2 DEF Save
  <2>2. CASE s \in ProcessSaves
    <3>1. PICK k : s = Save(Put(k, Record(None, None, FALSE)), marked, Quiet)
      BY <2>2 DEF ProcessSaves
    <3>2. DOMAIN Put(k, Record(None, None, FALSE)) = DOMAIN record \union {k}
      BY DEF Put
    <3>3. s.record = Put(k, Record(None, None, FALSE))
      BY <3>1, SaveIs
    <3> QED
      BY <1>1, <2>2, <3>2, <3>3, PlainRuns
  <2>3. CASE s \in ProcessDeletes
    <3>1. PICK k \in DOMAIN record \ RunningNow : s = Save(Less(k), marked, Quiet)
      BY <2>3 DEF ProcessDeletes
    <3>2. DOMAIN Less(k) = DOMAIN record \ {k}
      BY DEF Less
    <3>3. s.record = Less(k)
      BY <3>1, SaveIs
    <3>4. run # NoRun => run.key # k
      BY <3>1 DEF RunningNow
    <3> QED
      BY <1>1, <2>3, <3>2, <3>3, <3>4, PlainRuns
  <2> QED
    BY <1>5, <2>1, <2>2, <2>3 DEF Saves
<1> QED
  BY <1>2, <1>3, <1>4, <1>5 DEF Kind

-----------------------------------------------------------------------------
(* What is remembered stays so. *)

\* What has been asked of the conversations that were launched before.
LEMMA AskedIs ==
  ASSUME IInv
  PROVE  /\ Launching => Asked = Launched(dialog.conv, dialog.task)
         /\ ~Launching => Asked = task
         /\ \A c \in DOMAIN task : c \in DOMAIN Asked /\ Asked[c] = task[c]
<1>1. CASE Launching
  <2>1. dialog.conv \notin DOMAIN task /\ Asked = Launched(dialog.conv, dialog.task)
    BY <1>1 DEF IInv, Drafts, Sending, Asked
  <2> QED
    BY <1>1, <2>1 DEF Launched
<1>2. CASE ~Launching
  BY <1>2 DEF Asked
<1> QED
  BY <1>1, <1>2

\* A promise is kept while the run goes on, or else the session has run, or is known not to.
LEMMA RunsStay ==
  ASSUME RunsKept, kind' = kind,
         \A c \in DOMAIN Asked' : Asked'[c].runs = {} \/ (c \in DOMAIN Asked /\ Asked'[c] = Asked[c]),
         finished \subseteq finished', lapsed \subseteq lapsed', mishap.runs \subseteq mishap'.runs,
         \/ run' = run
         \/ run' = NoRun /\ (run = NoRun \/ run.owner \in finished' \union mishap'.runs \union lapsed'),
         kind = "process" /\ run # NoRun /\ run.key \in DOMAIN record => run.key \in DOMAIN record'
  PROVE  RunsKept'
<1>1. ASSUME kind' # "process", NEW c \in DOMAIN Asked' PROVE Asked'[c].runs = {}
  BY <1>1 DEF RunsKept
<1>2. ASSUME NEW c \in DOMAIN Asked', Asked'[c].runs # {}, c \notin (finished \union mishap.runs \union lapsed)'
      PROVE  Promised(c)'
  <2>1. c \in DOMAIN Asked /\ Asked'[c] = Asked[c] /\ kind = "process"
    BY <1>2 DEF RunsKept
  <2>2. Promised(c)
    BY <1>2, <2>1 DEF RunsKept
  <2>3. run # NoRun /\ run.owner = c /\ Asked[c].runs = {run.key} /\ run.key \in DOMAIN record
        /\ run = [key |-> run.key, owner |-> c]
    BY <2>2 DEF Promised
  <2>4. run' = run
    BY <1>2, <2>3
  <2>5. run.key \in DOMAIN record'
    BY <2>1, <2>3
  <2> QED
    BY <2>1, <2>3, <2>4, <2>5 DEF Promised
<1> QED
  BY <1>1, <1>2 DEF RunsKept

LEMMA KnownStays ==
  ASSUME Known, DOMAIN task' = DOMAIN task,
         created \union Queued(queue) \union lapsed \subseteq (created \union Queued(queue) \union lapsed)'
  PROVE  Known'
  BY DEF Known

LEMMA QueueSame ==
  ASSUME UNCHANGED queueVars
  PROVE  /\ created \union Queued(queue) \union lapsed = (created \union Queued(queue) \union lapsed)'
         /\ finished' = finished /\ lapsed' = lapsed
  BY DEF queueVars, Queued

\* The steps that leave the records, the run and what was launched as they are.
LEMMA NothingAsked ==
  ASSUME IInv, IInv', Remembered, kind' = kind, record' = record, task' = task, run' = run,
         ~Launching' \/ dialog' = dialog, mishap.runs \subseteq mishap'.runs,
         UNCHANGED queueVars \/ QueueNext \/ Work \/ Reload \/ \E id : Reopen(id)
  PROVE  Remembered'
<1>1. /\ created \union Queued(queue) \union lapsed \subseteq (created \union Queued(queue) \union lapsed)'
      /\ finished \subseteq finished' /\ lapsed \subseteq lapsed'
  BY NobodyForgotten, QueueSame DEF IInv
<1>2. Known'
  BY <1>1, KnownStays DEF Remembered
<1>3. \A c \in DOMAIN Asked' : c \in DOMAIN Asked /\ Asked'[c] = Asked[c]
  <2>1. CASE ~Launching'
    <3>1. Asked' = task
      BY <2>1 DEF Asked
    <3> QED
      BY <3>1, AskedIs
  <2>2. CASE dialog' = dialog
    <3>1. Asked' = Asked
      BY <2>2 DEF Asked, Launching, Launched
    <3> QED
      BY <3>1
  <2> QED
    BY <2>1, <2>2
<1>4. RunsKept'
  BY <1>1, <1>3, RunsStay DEF Remembered
<1> QED
  BY <1>2, <1>4 DEF Remembered

LEMMA LaunchRemembered ==
  ASSUME IInv, Remembered, NEW c \in Conv, NEW t, task' = Launched(c, t), Enqueue(c), c \notin Queued(queue),
         kind' = kind, record' = record, run' = run, mishap' = mishap, ~Launching',
         t.runs = {} \/ (Launching /\ dialog.conv = c /\ dialog.task = t)
  PROVE  Remembered'
<1> PICK x, s : x = terminal /\ s = shown
  OBVIOUS
<1>1. PICK it : it = [id |-> c, status |-> "pending"]
  OBVIOUS
<1>2. queue \in Seq(Item) /\ it \in Item
  BY <1>1 DEF IInv, Orderly, QueueTypeOK, Item, Status
<1>3. PICK q : q = Append(queue, it)
  OBVIOUS
<1>4. /\ q \in Seq(Item) /\ DOMAIN q = DOMAIN queue \union {Len(queue) + 1}
      /\ q[Len(queue) + 1] = it /\ \A i \in DOMAIN queue : q[i] = queue[i]
  BY <1>2, <1>3, Appended
<1>5. Settle(q, x, s) /\ created' = created /\ finished' = finished /\ lapsed' = lapsed
  BY <1>1, <1>3 DEF Enqueue
<1>6. Queued(queue)' = {q[i].id : i \in DOMAIN q}
  BY <1>4, <1>5, SettleQueued
<1>7. Queued(queue) \union {c} \subseteq Queued(queue)'
  <2>1. \A i \in DOMAIN queue : i \in DOMAIN q /\ q[i] = queue[i]
    BY <1>4
  <2>2. Len(queue) + 1 \in DOMAIN q /\ q[Len(queue) + 1].id = c
    BY <1>1, <1>4
  <2>3. Queued(queue) \union {c} \subseteq {q[i].id : i \in DOMAIN q}
    BY <2>1, <2>2 DEF Queued
  <2> QED
    BY <1>6, <2>3
<1>8. DOMAIN task' = DOMAIN task \union {c}
  BY LaunchedIs
<1>9. Known'
  BY <1>5, <1>7, <1>8 DEF Remembered, Known
<1>10. Asked' = task'
  BY DEF Asked
<1>11. \A d \in DOMAIN Asked' : Asked'[d].runs = {} \/ (d \in DOMAIN Asked /\ Asked'[d] = Asked[d])
  <2> SUFFICES ASSUME NEW d \in DOMAIN Asked' PROVE Asked'[d].runs = {} \/ (d \in DOMAIN Asked /\ Asked'[d] = Asked[d])
    OBVIOUS
  <2>1. d \in DOMAIN task \union {c} /\ Asked'[d] = IF d = c THEN t ELSE task[d]
    BY <1>8, <1>10 DEF Launched
  <2>2. CASE d # c
    BY <2>1, <2>2, AskedIs
  <2>3. CASE d = c /\ t.runs # {}
    <3>1. Asked = Launched(c, t)
      BY <2>3, AskedIs
    <3> QED
      BY <2>1, <2>3, <3>1 DEF Launched
  <2> QED
    BY <2>1, <2>2, <2>3
<1>12. RunsKept'
  BY <1>5, <1>11, RunsStay DEF Remembered
<1> QED
  BY <1>9, <1>12 DEF Remembered

LEMMA AnswerRemembered ==
  ASSUME IInv, IInv', Remembered, Answer
  PROVE  Remembered'
<1>1. kind' = kind /\ record' = record /\ mishap' = mishap /\ run' = run /\ dialog.stage = "sent" /\ ~Launching'
  BY DEF Answer, Closed, Launching
<1>2. CASE dialog.launch
  <2>1. Launching
    BY <1>1, <1>2 DEF Launching
  <2>2. dialog.conv \in Conv /\ dialog.conv \notin Queued(queue)
    BY <1>1, <2>1 DEF IInv, Drafts, Sending, Launches, Within
  <2>3. task' = Launched(dialog.conv, dialog.task) /\ Enqueue(dialog.conv)
    BY <1>2 DEF Answer
  <2> QED
    BY <1>1, <2>1, <2>2, <2>3, LaunchRemembered
<1>3. CASE ~dialog.launch
  <2>1. UNCHANGED queueVars /\ task' = task
    BY <1>3 DEF Answer
  <2> QED
    BY <1>1, <2>1, NothingAsked
<1> QED
  BY <1>2, <1>3

LEMMA DescribeRemembered ==
  ASSUME IInv, Remembered, Describe
  PROVE  Remembered'
<1>1. kind' = kind /\ record' = record /\ mishap' = mishap /\ run' = run /\ ~Launching'
  BY DEF Describe, Closed, Launching
<1>2. PICK f, t : f = Fresh /\ t = Quiet
  OBVIOUS
<1>3. task' = Launched(f, t) /\ Enqueue(f) /\ t.runs = {}
  BY <1>2, TasksRun DEF Describe
<1>4. f \in Conv /\ f \notin Queued(queue)
  BY <1>2, FreshIs DEF Describe, IInv, Drafts, Launches, Within
<1> QED
  BY <1>1, <1>3, <1>4, LaunchRemembered

\* A process is started when no other is believed under way, so that no promise is open but its own.
LEMMA RequestRemembered ==
  ASSUME IInv, IInv', Remembered, Request
  PROVE  Remembered'
<1>1. PICK f : f = Fresh
  OBVIOUS
<1>2. PICK s, keys, convs :
        /\ s \in Saves(f)
        /\ record' = s.record
        /\ run' = IF s.task.runs = {} THEN run ELSE [key |-> CHOOSE k \in s.task.runs : TRUE, owner |-> f]
        /\ dialog' = [stage |-> "sent", listed |-> dialog.listed, conv |-> f, launch |-> s.launch, task |-> s.task]
        /\ mishap' = Hit(keys, convs, {})
  BY <1>1 DEF Request
<1>3. UNCHANGED queueVars /\ kind' = kind /\ task' = task /\ ~Launching
  BY DEF Request, Launching
<1>4. f \in Conv /\ f \notin DOMAIN task
  BY <1>1, FreshIs DEF Request
<1>5. mishap'.runs = mishap.runs
  BY <1>2 DEF Hit
<1>6. Known'
  BY <1>3, QueueSame, KnownStays DEF Remembered
<1>7. kind \in Kind
  BY DEF IInv, Drafts, Launches
<1>8. Asked = task
  BY <1>3, AskedIs
<1>9. \A c \in DOMAIN Asked' : (c = f /\ s.launch /\ Asked'[c] = s.task) \/ (c \in DOMAIN Asked /\ c # f /\ Asked'[c] = Asked[c])
  <2>1. CASE Launching'
    <3>1. Asked' = Launched(dialog.conv, dialog.task)' /\ s.launch
      BY <1>2, <2>1 DEF Asked, Launching
    <3>2. Asked' = [d \in DOMAIN task \union {f} |-> IF d = f THEN s.task ELSE task[d]]
      BY <1>2, <1>3, <3>1 DEF Launched
    <3> QED
      BY <1>4, <1>8, <3>1, <3>2
  <2>2. CASE ~Launching'
    <3>1. Asked' = task
      BY <1>3, <2>2 DEF Asked
    <3> QED
      BY <1>4, <1>8, <3>1
  <2> QED
    BY <2>1, <2>2
<1>10. CASE s.task.runs = {}
  <2>1. run' = run /\ (kind = "process" /\ run # NoRun /\ run.key \in DOMAIN record => run.key \in DOMAIN record')
    BY <1>2, <1>7, <1>10, SavesRun
  <2>2. \A c \in DOMAIN Asked' : Asked'[c].runs = {} \/ (c \in DOMAIN Asked /\ Asked'[c] = Asked[c])
    BY <1>9, <1>10
  <2>3. finished' = finished /\ lapsed' = lapsed
    BY <1>3, QueueSame
  <2>4. RunsKept'
    BY <1>3, <1>5, <2>1, <2>2, <2>3, RunsStay DEF Remembered
  <2> QED
    BY <1>6, <2>4 DEF Remembered
<1>11. CASE s.task.runs # {}
  <2>1. /\ kind = "process" /\ run = NoRun /\ s.launch /\ s.record = record
        /\ \E k \in DOMAIN record : s.task.runs = {k}
    BY <1>2, <1>7, <1>11, SavesRun
  <2>2. PICK k \in DOMAIN record : s.task.runs = {k}
    BY <2>1
  <2>3. run' = [key |-> k, owner |-> f] /\ f # None
    BY <1>2, <1>4, <1>11, <2>2, NoneIsNoConversation
  <2>4. ASSUME NEW c \in DOMAIN Asked', Asked'[c].runs # {}, c \notin (finished \union mishap.runs \union lapsed)'
        PROVE  Promised(c)'
    <3>1. c \notin finished \union mishap.runs \union lapsed
      BY <1>3, <1>5, <2>4, QueueSame
    <3>2. CASE c \in DOMAIN Asked /\ Asked'[c] = Asked[c]
      <4>1. Promised(c)
        BY <2>4, <3>1, <3>2 DEF Remembered, RunsKept
      <4> QED
        BY <2>1, <4>1 DEF Promised
    <3>3. CASE c = f /\ Asked'[c] = s.task
      <4>1. run' # NoRun
        BY <2>3 DEF NoRun
      <4> QED
        BY <1>2, <2>1, <2>2, <2>3, <3>3, <4>1 DEF Promised
    <3> QED
      BY <1>9, <2>4, <3>2, <3>3
  <2>5. RunsKept'
    BY <1>3, <2>1, <2>4 DEF RunsKept
  <2> QED
    BY <1>6, <2>5 DEF Remembered
<1> QED
  BY <1>10, <1>11

LEMMA CarriedOutRemembered ==
  ASSUME IInv, IInv', Remembered, CarryOut
  PROVE  Remembered'
<1>1. Work /\ kind' = kind /\ record' = record /\ task' = task /\ dialog' = dialog
  BY DEF CarryOut
<1>2. PICK c, t : c = conn.session /\ t = IF c \in DOMAIN task /\ c \notin finished THEN task[c] ELSE Quiet
  OBVIOUS
<1>3. PICK ends : /\ ends = (run # NoRun /\ run.key \in t.runs)
                  /\ run' = IF ends THEN NoRun ELSE run
                  /\ mishap' = IF ends /\ run.owner # c THEN Hit({}, {}, {run.owner}) ELSE mishap
  BY <1>2 DEF CarryOut
<1>4. /\ created \union Queued(queue) \union lapsed \subseteq (created \union Queued(queue) \union lapsed)'
      /\ finished \subseteq finished' /\ lapsed \subseteq lapsed' /\ c \in finished'
  BY <1>1, <1>2, NobodyForgotten DEF IInv, Work
<1>5. mishap.runs \subseteq mishap'.runs /\ (ends /\ run.owner # c => run.owner \in mishap'.runs)
  BY <1>3 DEF Hit
<1>6. run' = run \/ (run' = NoRun /\ run.owner \in finished' \union mishap'.runs)
  BY <1>3, <1>4, <1>5
<1>7. Asked' = Asked
  BY <1>1 DEF Asked, Launching, Launched
<1>8. RunsKept'
  BY <1>1, <1>4, <1>5, <1>6, <1>7, RunsStay DEF Remembered
<1>9. Known'
  BY <1>1, <1>4, KnownStays DEF Remembered
<1> QED
  BY <1>8, <1>9 DEF Remembered

LEMMA RunEndRemembered ==
  ASSUME Remembered, EndRun
  PROVE  Remembered'
<1>1. /\ UNCHANGED queueVars /\ kind' = kind /\ record' = record /\ task' = task /\ dialog' = dialog
      /\ run' = NoRun /\ mishap' = Hit({}, {}, {run.owner})
  BY DEF EndRun
<1>2. mishap'.runs = mishap.runs \union {run.owner}
  BY <1>1 DEF Hit
<1>3. Asked' = Asked
  BY <1>1 DEF Asked, Launching, Launched
<1>4. finished' = finished /\ lapsed' = lapsed
  BY <1>1, QueueSame
<1>5. RunsKept'
  BY <1>1, <1>2, <1>3, <1>4, RunsStay DEF Remembered
<1>6. Known'
  BY <1>1, QueueSame, KnownStays DEF Remembered
<1> QED
  BY <1>5, <1>6 DEF Remembered

LEMMA InitRemembered ==
  ASSUME AuthoringInit
  PROVE  Remembered
<1>1. task = <<>> /\ ~Launching
  BY DEF AuthoringInit, Launching, Closed
<1>2. DOMAIN task = {} /\ DOMAIN Asked = {}
  BY <1>1 DEF Asked
<1> QED
  BY <1>2 DEF Remembered, Known, RunsKept

LEMMA RememberedStep ==
  ASSUME IInv, IInv', Remembered, [AuthoringNext]_authoringVars
  PROVE  Remembered'
<1>1. CASE Open \/ Close
  <2>1. /\ UNCHANGED queueVars /\ kind' = kind /\ record' = record /\ task' = task /\ run' = run /\ mishap' = mishap
        /\ ~Launching'
    BY <1>1 DEF Open, Close, Closed, Launching
  <2> QED
    BY <2>1, NothingAsked
<1>2. CASE LoseAnswer
  <2>1. /\ UNCHANGED queueVars /\ kind' = kind /\ record' = record /\ task' = task /\ run' = run /\ ~Launching'
        /\ mishap' = Unanswered
    BY <1>2 DEF LoseAnswer, Launching
  <2>2. mishap.runs \subseteq mishap'.runs
    BY <2>1 DEF Unanswered, Hit
  <2> QED
    BY <2>1, <2>2, NothingAsked
<1>3. CASE Resume
  <2>1. /\ \E id : Reopen(id)
        /\ kind' = kind /\ record' = record /\ task' = task /\ run' = run /\ mishap' = mishap /\ ~Launching'
    BY <1>3 DEF Resume, Closed, Launching
  <2> QED
    BY <2>1, NothingAsked
<1>4. CASE QueueStep
  <2>1. /\ QueueNext /\ kind' = kind /\ record' = record /\ task' = task /\ run' = run /\ mishap' = mishap
        /\ dialog' = dialog
    BY <1>4 DEF QueueStep, dialogVars
  <2> QED
    BY <2>1, NothingAsked
<1>5. CASE ReloadPage
  <2>1. /\ Reload /\ kind' = kind /\ record' = record /\ task' = task /\ run' = run /\ ~Launching'
        /\ mishap' = IF Launching THEN Unanswered ELSE mishap
    BY <1>5 DEF ReloadPage, Closed, Launching
  <2>2. mishap.runs \subseteq mishap'.runs
    BY <2>1 DEF Unanswered, Hit
  <2> QED
    BY <2>1, <2>2, NothingAsked
<1>6. CASE UNCHANGED authoringVars
  <2>1. /\ UNCHANGED queueVars /\ kind' = kind /\ record' = record /\ task' = task /\ run' = run /\ mishap' = mishap
        /\ dialog' = dialog
    BY <1>6 DEF authoringVars, dialogVars
  <2> QED
    BY <2>1, NothingAsked
<1> QED
  BY <1>1, <1>2, <1>3, <1>4, <1>5, <1>6, RequestRemembered, AnswerRemembered, DescribeRemembered,
     CarriedOutRemembered, RunEndRemembered DEF AuthoringNext

LEMMA RememberedIsBelieved ==
  ASSUME IInv, Remembered
  PROVE  ResumeFindsConversation /\ RunIsBelieved
<1>1. ResumeFindsConversation
  BY DEF IInv, Drafts, Records, Shaped, Remembered, Known, ResumeFindsConversation
<1>2. RunIsBelieved
  <2> SUFFICES ASSUME NEW i \in DOMAIN Unfinished, NEW c, c = Unfinished[i].id,
                      task[c].runs # {}, c \notin mishap.runs \union lapsed
               PROVE  run # NoRun /\ run.owner = c /\ task[c].runs \subseteq DOMAIN record
    BY DEF RunIsBelieved
  <2>1. PICK at : at = {j \in DOMAIN queue : queue[j].id \notin finished}
    OBVIOUS
  <2>2. queue \in Seq(Item) /\ Distinct(queue) /\ Turns(queue)
    BY QueueTyped DEF IInv, Orderly, Places, Distinct, Turns
  <2>3. PICK j \in at : Unfinished[i] = queue[j]
    <3>1. at \in SUBSET DOMAIN queue /\ Unfinished = Filtered(queue, at)
      BY <2>1 DEF Unfinished
    <3>2. \A k \in DOMAIN Filtered(queue, at) : \E j \in at : Filtered(queue, at)[k] = queue[j]
      BY <2>2, <3>1, Left
    <3> QED
      BY <3>1, <3>2
  <2>4. c \notin finished /\ c \in DOMAIN task
    BY <2>1, <2>3 DEF IInv, Drafts, Launches, Within, Queued
  <2>5. c \in DOMAIN Asked /\ Asked[c] = task[c]
    BY <2>4, AskedIs
  <2>6. Promised(c)
    BY <2>4, <2>5 DEF Remembered, RunsKept
  <2>7. run.owner = c
    BY <2>6 DEF Promised
  <2> QED
    BY <2>5, <2>6, <2>7 DEF Promised
<1> QED
  BY <1>1, <1>2

-----------------------------------------------------------------------------
\* However edits are queued, resumed, skipped and lost, the Resume button of a record finds its conversation,
\* or that is still to be had (App.tsx), and the session that is queued to run a process finds that the
\* server believes it under way (endtoend.js).
THEOREM ResumesAndRunsHold == AuthoringSpec => [](ResumeFindsConversation /\ RunIsBelieved)
<1> DEFINE J == IInv /\ Remembered
           R == ResumeFindsConversation /\ RunIsBelieved
<1>1. AuthoringInit => J
  BY InitDrafts, InitRemembered
<1>2. J /\ [AuthoringNext]_authoringVars => J'
  BY Preserved, RememberedStep
<1>3. J => R
  BY RememberedIsBelieved
<1> HIDE DEF J, R
<1>4. AuthoringSpec => []R
  BY <1>1, <1>2, <1>3, PTL DEF AuthoringSpec
<1> QED
  BY <1>4 DEF R
-----------------------------------------------------------------------------
(* Runtime: the invariant. *)

Snap == {Unread} \union [read : {TRUE}, names : SUBSET Container]
ComposeCommand == [kind : {"up", "down", "prune"}, caller : {"edit", "activation"}, snap : Snap]
OutageRequest == [system : System, node : Container \ {Lb}, stage : {"kill", "killed", "set"}]

FilesFit ==
  /\ file \in [System -> SUBSET Container] /\ \A s \in System : Lb \in file[s]
  /\ up \in [System -> SUBSET Container]
CommandsFit ==
  /\ chain \in [System -> Seq(ComposeCommand)]
  /\ loose \in Seq([system : System, command : ComposeCommand])
ActiveFit ==
  /\ marker \in System \union {NoSystem} /\ activations \in Seq(System)
  /\ step \in {"idle", "down", "down done", "up"}
RequestsFit ==
  /\ \A r \in DOMAIN asked : asked[r] \in OutageRequest
  /\ timers \subseteq DOMAIN asked
  /\ \A k \in DOMAIN entry : entry[k] \in DOMAIN asked /\ k = <<asked[entry[k]].system, asked[entry[k]].node>>
  /\ starting \subseteq System \X Container
RuntimeTypeOK == FilesFit /\ CommandsFit /\ ActiveFit /\ RequestsFit

\* The commands of an activation: one at a time, of the system its step is about.
StepOK ==
  /\ step # "idle" => activations # <<>>
  /\ step \in {"down", "down done"} => Head(activations) # marker
ChainOK(s) ==
  \A i \in DOMAIN chain[s] :
    /\ chain[s][i].snap.read => i = 1
    /\ chain[s][i].caller = "edit" => chain[s][i].kind # "down"
    /\ chain[s][i].caller = "activation" =>
         \/ chain[s][i].kind = "down" /\ step = "down" /\ marker = s
         \/ chain[s][i].kind = "up" /\ step = "up" /\ Head(activations) = s
OneActivation ==
  \A s, t \in System : \A i \in DOMAIN chain[s], j \in DOMAIN chain[t] :
    chain[s][i].caller = "activation" /\ chain[t][j].caller = "activation" => s = t /\ i = j
LooseOK == \A i \in DOMAIN loose : loose[i].command.kind # "down"
ActivationsOK == StepOK /\ (\A s \in System : ChainOK(s)) /\ OneActivation /\ LooseOK

LooseOn(s) == {i \in DOMAIN loose : loose[i].system = s}
\* The nodes that an outage has taken, is taking or has just given back.
Missing(s) ==
  Out(s) \union {asked[r].node : r \in {x \in DOMAIN asked : asked[x].system = s /\ asked[x].stage # "set"}}
         \union {k[2] : k \in {x \in starting : x[1] = s}}
Prunes(s) == {i \in DOMAIN chain[s] : chain[s][i].kind = "prune"}

\* A system whose containers do not exist, but for those an activation brings up.
Absent(s) ==
  /\ up[s] = {} /\ LooseOn(s) = {}
  /\ \A i \in DOMAIN chain[s] :
       chain[s][i].caller = "activation" /\ (chain[s][i].snap.read => chain[s][i].snap.names = file[s])

\* One whose containers exist: the commands awaited make of them what the file has.
Present(s) ==
  /\ \A i \in DOMAIN chain[s] : chain[s][i].kind = "down" => i = Len(chain[s])
  /\ \A i, j \in LooseOn(s) : i = j
  /\ LooseOn(s) # {} => chain[s] = <<>>
  /\ \A i \in LooseOn(s) : loose[i].command.snap.read => loose[i].command.snap.names = file[s]
  /\ chain[s] # <<>> /\ chain[s][1].snap.read =>
       /\ Len(chain[s]) = 1 => chain[s][1].snap.names = file[s]
       /\ chain[s][1].snap.names \subseteq file[s] \/ Prunes(s) \ {1} # {}
  /\ up[s] \subseteq file[s] \/ Prunes(s) # {} \/ \E i \in LooseOn(s) : loose[i].command.kind = "prune"
  /\ ~Busy(s) => file[s] \ Missing(s) \subseteq up[s]

\* A node that is out has its timer, and one request at a time.
OutagesOK(s) ==
  /\ \A k \in DOMAIN entry : k[1] = s =>
       /\ entry[k] \in timers /\ k[2] \notin up[s] /\ k \notin starting
       /\ \A r \in DOMAIN asked : asked[r].system = s /\ asked[r].node = k[2] => asked[r].stage = "set"
  /\ \A r \in timers : asked[r].system = s =>
       <<s, asked[r].node>> \in DOMAIN entry /\ entry[<<s, asked[r].node>>] = r
  /\ \A r \in DOMAIN asked : asked[r].system = s /\ asked[r].stage # "set" =>
       /\ <<s, asked[r].node>> \notin starting
       /\ asked[r].stage = "killed" => asked[r].node \notin up[s]
       /\ \A q \in DOMAIN asked : asked[q].system = s /\ asked[q].node = asked[r].node /\ asked[q].stage # "set" => q = r

Calm(s) == (IF Exists(s) THEN Present(s) ELSE Absent(s)) /\ OutagesOK(s)
RuntimeInv == RuntimeTypeOK /\ ActivationsOK /\ \A s \in System \ struck : Calm(s)

-----------------------------------------------------------------------------
(* Runtime: sequences and records. *)

LEMMA SeqIs ==
  ASSUME NEW S, NEW q \in Seq(S)
  PROVE  /\ Len(q) \in Nat /\ DOMAIN q = 1..Len(q) /\ \A i \in DOMAIN q : q[i] \in S
         /\ q = <<>> <=> Len(q) = 0
         /\ q # <<>> => 1 \in DOMAIN q /\ Head(q) = q[1] /\ Head(q) \in S
         /\ \A i \in DOMAIN q : i \in Nat \ {0} /\ q # <<>>
  OBVIOUS

LEMMA AppendIs ==
  ASSUME NEW S, NEW q \in Seq(S), NEW c \in S, NEW p, p = Append(q, c)
  PROVE  /\ p \in Seq(S) /\ Len(p) = Len(q) + 1 /\ DOMAIN p = DOMAIN q \union {Len(p)} /\ Len(p) \notin DOMAIN q
         /\ p[Len(p)] = c /\ p # <<>> /\ \A i \in DOMAIN q : p[i] = q[i]
         /\ q # <<>> => Head(p) = Head(q)
         /\ q = <<>> => Head(p) = c /\ Len(p) = 1
  OBVIOUS

LEMMA TailIs ==
  ASSUME NEW S, NEW q \in Seq(S), q # <<>>, NEW p, p = Tail(q)
  PROVE  /\ p \in Seq(S) /\ Len(p) = Len(q) - 1
         /\ \A i \in DOMAIN p : i + 1 \in DOMAIN q /\ p[i] = q[i + 1]
         /\ \A j \in DOMAIN q \ {1} : j - 1 \in DOMAIN p /\ p[j - 1] = q[j]
         /\ p = <<>> => Len(q) = 1
         /\ Len(q) = 1 => p = <<>>
<1>1. p \in Seq(S) /\ Len(p) = Len(q) - 1 /\ \A i \in 1..Len(p) : p[i] = q[i + 1]
  BY HeadTailProperties
<1>2. Len(q) \in Nat /\ DOMAIN q = 1..Len(q) /\ DOMAIN p = 1..Len(p)
  BY <1>1
<1>3. ASSUME NEW j \in DOMAIN q \ {1}
      PROVE  j - 1 \in DOMAIN p /\ p[j - 1] = q[j]
  <2>1. j - 1 \in 1..Len(p) /\ (j - 1) + 1 = j
    BY <1>1, <1>2
  <2> QED
    BY <1>1, <1>2, <2>1
<1>4. (p = <<>> => Len(q) = 1) /\ (Len(q) = 1 => p = <<>>)
  <2>1. (p = <<>> => Len(p) = 0) /\ (Len(p) = 0 => p = <<>>)
    BY <1>1, EmptySeq
  <2> QED
    BY <1>1, <1>2, <2>1
<1> QED
  BY <1>1, <1>2, <1>3, <1>4

LEMMA ChangedIs ==
  ASSUME NEW S, NEW q \in Seq(S), NEW i \in DOMAIN q, NEW c \in S, NEW p, p = [q EXCEPT ![i] = c]
  PROVE  /\ p \in Seq(S) /\ DOMAIN p = DOMAIN q /\ Len(p) = Len(q)
         /\ p[i] = c /\ \A j \in DOMAIN q \ {i} : p[j] = q[j]
  OBVIOUS

Cut(q, i) == SubSeq(q, 1, i - 1) \o SubSeq(q, i + 1, Len(q))

LEMMA WithoutIs ==
  ASSUME NEW S, NEW q \in Seq(S), NEW i \in DOMAIN q, NEW p, p = Cut(q, i)
  PROVE  /\ p \in Seq(S)
         /\ \A j \in DOMAIN p : \E k \in DOMAIN q \ {i} : p[j] = q[k] /\ k = IF j < i THEN j ELSE j + 1
         /\ \A k \in DOMAIN q \ {i} : \E j \in DOMAIN p : p[j] = q[k]
<1>1. PICK n : n = Len(q)
  OBVIOUS
<1>2. n \in Nat /\ DOMAIN q = 1..n /\ \A k \in 1..n : q[k] \in S
  BY <1>1, LenProperties, ElementOfSeq
<1>n. n \in Nat /\ i \in Nat /\ 1 <= i /\ i <= n
  BY <1>2
<1> DEFINE a == SubSeq(q, 1, i - 1)
           b == SubSeq(q, i + 1, n)
<1>3. a \in Seq(S) /\ Len(a) = i - 1 /\ \A j \in 1..(i - 1) : a[j] = q[j]
  <2>1. 1 \in Int /\ i - 1 \in Int /\ \A j \in 1..(i - 1) : q[j] \in S
    BY <1>2, <1>n
  <2> QED
    BY <1>n, <2>1, SubSeqProperties
<1>4. b \in Seq(S) /\ Len(b) = n - i /\ \A j \in 1..(n - i) : b[j] = q[i + j]
  <2>1. i + 1 \in Int /\ n \in Int /\ \A j \in (i + 1)..n : q[j] \in S
    BY <1>2, <1>n
  <2>2. /\ b \in Seq(S) /\ Len(b) = IF i + 1 <= n THEN n - (i + 1) + 1 ELSE 0
        /\ \A j \in 1..(n - (i + 1) + 1) : b[j] = q[(i + 1) + j - 1]
    BY <2>1, SubSeqProperties
  <2>3. n - (i + 1) + 1 = n - i /\ \A j \in 1..(n - i) : (i + 1) + j - 1 = i + j
    BY <1>n
  <2>4. Len(b) = n - i
    BY <1>n, <2>2
  <2> QED
    BY <2>2, <2>3, <2>4
<1>5. p = a \o b
  BY <1>1 DEF Cut
<1> HIDE DEF a, b
<1>6. /\ p \in Seq(S) /\ Len(p) = n - 1
      /\ \A j \in 1..(n - 1) : p[j] = IF j <= i - 1 THEN a[j] ELSE b[j - (i - 1)]
  <2>1. /\ a \o b \in Seq(S) /\ Len(a \o b) = Len(a) + Len(b)
        /\ \A j \in 1..Len(a) + Len(b) : (a \o b)[j] = IF j <= Len(a) THEN a[j] ELSE b[j - Len(a)]
    BY <1>3, <1>4, ConcatProperties
  <2>2. Len(a) + Len(b) = n - 1
    BY <1>n, <1>3, <1>4
  <2> QED
    BY <1>3, <1>5, <2>1, <2>2
<1>7. DOMAIN p = 1..(n - 1)
  BY <1>6, LenProperties
<1>8. ASSUME NEW j \in 1..(n - 1)
      PROVE  p[j] = IF j < i THEN q[j] ELSE q[j + 1]
  <2>n. j \in Nat /\ 1 <= j /\ j <= n - 1
    BY <1>n
  <2>1. CASE j < i
    <3>1. j <= i - 1 /\ j \in 1..(i - 1)
      BY <1>n, <2>n, <2>1
    <3>2. p[j] = a[j]
      BY <1>6, <3>1
    <3> QED
      BY <1>3, <2>1, <3>1, <3>2
  <2>2. CASE ~(j < i)
    <3>1. ~(j <= i - 1) /\ j - (i - 1) \in 1..(n - i) /\ i + (j - (i - 1)) = j + 1
      BY <1>n, <2>n, <2>2
    <3>2. p[j] = b[j - (i - 1)] /\ b[j - (i - 1)] = q[i + (j - (i - 1))]
      BY <1>4, <1>6, <3>1
    <3> QED
      BY <2>2, <3>1, <3>2
  <2> QED
    BY <2>1, <2>2
<1>9. ASSUME NEW j \in DOMAIN p
      PROVE  \E k \in DOMAIN q \ {i} : p[j] = q[k] /\ k = IF j < i THEN j ELSE j + 1
  <2>1. p[j] = IF j < i THEN q[j] ELSE q[j + 1]
    BY <1>7, <1>8
  <2>n. j \in Nat /\ 1 <= j /\ j <= n - 1
    BY <1>n, <1>7
  <2>2. CASE j < i
    <3>1. j \in 1..n /\ j # i
      BY <1>n, <2>n, <2>2
    <3> QED
      BY <1>2, <2>1, <2>2, <3>1
  <2>3. CASE ~(j < i)
    <3>1. j + 1 \in 1..n /\ j + 1 # i
      BY <1>n, <2>n, <2>3
    <3> QED
      BY <1>2, <2>1, <2>3, <3>1
  <2> QED
    BY <2>2, <2>3
<1>10. ASSUME NEW k \in DOMAIN q \ {i}
       PROVE  \E j \in DOMAIN p : p[j] = q[k]
  <2>n. k \in Nat /\ 1 <= k /\ k <= n /\ k # i
    BY <1>2
  <2>1. CASE k < i
    <3>1. k \in 1..(n - 1)
      BY <1>n, <2>n, <2>1
    <3> QED
      BY <1>7, <1>8, <2>1, <3>1
  <2>2. CASE k > i
    <3>1. k - 1 \in 1..(n - 1) /\ ~(k - 1 < i) /\ (k - 1) + 1 = k
      BY <1>n, <2>n, <2>2
    <3>2. p[k - 1] = q[(k - 1) + 1]
      BY <1>8, <3>1
    <3> QED
      BY <1>7, <3>1, <3>2
  <2> QED
    BY <1>n, <2>n, <2>1, <2>2
<1> QED
  BY <1>6, <1>9, <1>10

LEMMA CommandIs ==
  ASSUME NEW verb \in {"up", "down", "prune"}, NEW caller \in {"edit", "activation"}, NEW c, c = Command(verb, caller)
  PROVE  c \in ComposeCommand /\ c.kind = verb /\ c.caller = caller /\ ~c.snap.read
<1>1. Unread \in Snap /\ ~Unread.read
  BY DEF Snap, Unread
<1>2. c = [kind |-> verb, caller |-> caller, snap |-> Unread]
  BY DEF Command
<1> QED
  BY <1>1, <1>2 DEF ComposeCommand

LEMMA ReadIs ==
  ASSUME RuntimeTypeOK, NEW s \in System, NEW c \in ComposeCommand, NEW d, d = Read(s, c)
  PROVE  /\ d \in ComposeCommand /\ d.kind = c.kind /\ d.caller = c.caller
         /\ d.snap.read /\ d.snap.names = file[s]
<1>1. PICK names \in SUBSET Container : names = file[s]
  BY DEF RuntimeTypeOK, FilesFit
<1>2. PICK sn : sn = [read |-> TRUE, names |-> names]
  OBVIOUS
<1>3. sn \in Snap /\ sn.read /\ sn.names = names
  BY <1>2 DEF Snap
<1>4. d = [c EXCEPT !.snap = sn]
  BY <1>1, <1>2 DEF Read
<1>5. PICK verb \in {"up", "down", "prune"}, caller \in {"edit", "activation"} : c.kind = verb /\ c.caller = caller
  BY DEF ComposeCommand
<1>6. d = [kind |-> verb, caller |-> caller, snap |-> sn]
  BY <1>4, <1>5 DEF ComposeCommand
<1> QED
  BY <1>1, <1>3, <1>5, <1>6 DEF ComposeCommand

LEMMA StageIs ==
  ASSUME NEW q \in OutageRequest, NEW stage \in {"kill", "killed", "set"}, NEW p, p = [q EXCEPT !.stage = stage]
  PROVE  p \in OutageRequest /\ p.system = q.system /\ p.node = q.node /\ p.stage = stage
  BY DEF OutageRequest

-----------------------------------------------------------------------------
(* Runtime: what a step leaves alone. *)

SameLoose(t) ==
  /\ \A j \in LooseOn(t)' : \E k \in LooseOn(t) : loose'[j] = loose[k]
  /\ \A k \in LooseOn(t) : \E j \in LooseOn(t)' : loose'[j] = loose[k]
  /\ (\A j, k \in LooseOn(t) : j = k) => \A j, k \in LooseOn(t)' : j = k
SameRun(t) ==
  /\ file'[t] = file[t] /\ up'[t] = up[t] /\ chain'[t] = chain[t] /\ SameLoose(t)
  /\ Exists(t)' <=> Exists(t)
SameOutages(t) ==
  /\ \A k : k[1] = t => /\ k \in DOMAIN entry' <=> k \in DOMAIN entry
                        /\ k \in DOMAIN entry => entry'[k] = entry[k]
  /\ \A r : /\ r \in DOMAIN asked /\ asked[r].system = t => r \in DOMAIN asked' /\ asked'[r] = asked[r]
            /\ r \in DOMAIN asked' /\ asked'[r].system = t => r \in DOMAIN asked /\ asked'[r] = asked[r]
  /\ \A r \in DOMAIN asked : asked[r].system = t => (r \in timers' <=> r \in timers)
  /\ \A k : k[1] = t => (k \in starting' <=> k \in starting)

LEMMA LooseSame ==
  ASSUME NEW t, loose' = loose
  PROVE  SameLoose(t)
  BY DEF SameLoose, LooseOn

LEMMA OutagesSame ==
  ASSUME NEW t, UNCHANGED outageVars
  PROVE  SameOutages(t)
  BY DEF SameOutages, outageVars

\* A system nothing is done to stays as it was.
LEMMA MissingStay ==
  ASSUME NEW t, SameOutages(t)
  PROVE  Missing(t)' = Missing(t)
<1>1. Out(t)' = Out(t)
  BY DEF SameOutages, Out
<1>2. {asked'[r].node : r \in {x \in DOMAIN asked' : asked'[x].system = t /\ asked'[x].stage # "set"}}
        = {asked[r].node : r \in {x \in DOMAIN asked : asked[x].system = t /\ asked[x].stage # "set"}}
  BY DEF SameOutages
<1>3. {k[2] : k \in {x \in starting' : x[1] = t}} = {k[2] : k \in {x \in starting : x[1] = t}}
  BY DEF SameOutages
<1> QED
  BY <1>1, <1>2, <1>3 DEF Missing

LEMMA OutagesStay ==
  ASSUME RuntimeTypeOK, NEW t \in System, OutagesOK(t), SameOutages(t), up'[t] \subseteq up[t], RuntimeTypeOK'
  PROVE  OutagesOK(t)'
<1>1. ASSUME NEW k \in DOMAIN entry', k[1] = t
      PROVE  /\ entry'[k] \in timers' /\ k[2] \notin up'[t] /\ k \notin starting'
             /\ \A r \in DOMAIN asked' : asked'[r].system = t /\ asked'[r].node = k[2] => asked'[r].stage = "set"
  <2>1. k \in DOMAIN entry /\ entry'[k] = entry[k]
    BY <1>1 DEF SameOutages
  <2>2. /\ entry[k] \in timers /\ k[2] \notin up[t] /\ k \notin starting
        /\ \A r \in DOMAIN asked : asked[r].system = t /\ asked[r].node = k[2] => asked[r].stage = "set"
    BY <1>1, <2>1 DEF OutagesOK
  <2>3. entry[k] \in DOMAIN asked /\ asked[entry[k]].system = t
    BY <1>1, <2>1 DEF RuntimeTypeOK, RequestsFit
  <2> QED
    BY <1>1, <2>1, <2>2, <2>3 DEF SameOutages
<1>2. ASSUME NEW r \in timers', asked'[r].system = t
      PROVE  <<t, asked'[r].node>> \in DOMAIN entry' /\ entry'[<<t, asked'[r].node>>] = r
  <2>1. r \in DOMAIN asked'
    BY <1>2 DEF RuntimeTypeOK, RequestsFit
  <2>2. r \in DOMAIN asked /\ asked'[r] = asked[r] /\ r \in timers
    BY <1>2, <2>1 DEF SameOutages
  <2>3. <<t, asked[r].node>> \in DOMAIN entry /\ entry[<<t, asked[r].node>>] = r
    BY <1>2, <2>2 DEF OutagesOK
  <2> QED
    BY <2>2, <2>3 DEF SameOutages
<1>3. ASSUME NEW r \in DOMAIN asked', asked'[r].system = t, asked'[r].stage # "set"
      PROVE  /\ <<t, asked'[r].node>> \notin starting'
             /\ asked'[r].stage = "killed" => asked'[r].node \notin up'[t]
             /\ \A q \in DOMAIN asked' : asked'[q].system = t /\ asked'[q].node = asked'[r].node /\ asked'[q].stage # "set" => q = r
  <2>1. r \in DOMAIN asked /\ asked'[r] = asked[r]
    BY <1>3 DEF SameOutages
  <2>2. /\ <<t, asked[r].node>> \notin starting
        /\ asked[r].stage = "killed" => asked[r].node \notin up[t]
        /\ \A q \in DOMAIN asked : asked[q].system = t /\ asked[q].node = asked[r].node /\ asked[q].stage # "set" => q = r
    BY <1>3, <2>1 DEF OutagesOK
  <2> QED
    BY <2>1, <2>2 DEF SameOutages
<1> QED
  BY <1>1, <1>2, <1>3 DEF OutagesOK

LEMMA RunStays ==
  ASSUME RuntimeTypeOK, NEW t \in System, SameRun(t), Missing(t) \subseteq Missing(t)',
         IF Exists(t) THEN Present(t) ELSE Absent(t)
  PROVE  IF Exists(t)' THEN Present(t)' ELSE Absent(t)'
<1>1. Busy(t)' <=> Busy(t)
  BY DEF SameRun, SameLoose, Busy, LooseOn
<1>2. LooseOn(t) = {} <=> LooseOn(t)' = {}
  BY DEF SameRun, SameLoose
<1>3. CASE Exists(t)
  <2>1. Prunes(t)' = Prunes(t)
    BY DEF SameRun, Prunes
  <2>2. /\ \A i \in DOMAIN chain'[t] : chain'[t][i].kind = "down" => i = Len(chain'[t])
        /\ chain'[t] # <<>> /\ chain'[t][1].snap.read =>
             /\ Len(chain'[t]) = 1 => chain'[t][1].snap.names = file'[t]
             /\ chain'[t][1].snap.names \subseteq file'[t] \/ Prunes(t)' \ {1} # {}
    BY <1>3, <2>1 DEF SameRun, Present
  <2>3. /\ \A i, j \in LooseOn(t)' : i = j
        /\ LooseOn(t)' # {} => chain'[t] = <<>>
        /\ \A i \in LooseOn(t)' : loose'[i].command.snap.read => loose'[i].command.snap.names = file'[t]
    BY <1>2, <1>3 DEF SameRun, SameLoose, Present
  <2>4. up'[t] \subseteq file'[t] \/ Prunes(t)' # {} \/ \E i \in LooseOn(t)' : loose'[i].command.kind = "prune"
    <3>1. (\E i \in LooseOn(t) : loose[i].command.kind = "prune") => \E i \in LooseOn(t)' : loose'[i].command.kind = "prune"
      BY DEF SameRun, SameLoose
    <3> QED
      BY <1>3, <2>1, <3>1 DEF SameRun, Present
  <2>5. ~Busy(t)' => file'[t] \ Missing(t)' \subseteq up'[t]
    BY <1>1, <1>3 DEF SameRun, Present
  <2> QED
    BY <1>3, <2>2, <2>3, <2>4, <2>5 DEF Present, SameRun
<1>4. CASE ~Exists(t)
  BY <1>2, <1>4 DEF SameRun, Absent
<1> QED
  BY <1>3, <1>4

LEMMA CalmStays ==
  ASSUME RuntimeTypeOK, RuntimeTypeOK', NEW t \in System, Calm(t), SameRun(t), SameOutages(t)
  PROVE  Calm(t)'
<1>1. Missing(t)' = Missing(t) /\ up'[t] \subseteq up[t]
  BY MissingStay DEF SameRun
<1> QED
  BY <1>1, RunStays, OutagesStay DEF Calm

\* The chain of a system with a command more, with the first one read, with the first one done.
Queues(s, c) == chain' = [chain EXCEPT ![s] = Append(@, c)]

LEMMA ChainAppended ==
  ASSUME CommandsFit, NEW s \in System, NEW c \in ComposeCommand, Queues(s, c)
  PROVE  /\ chain' \in [System -> Seq(ComposeCommand)] /\ \A t \in System \ {s} : chain'[t] = chain[t]
         /\ Len(chain'[s]) = Len(chain[s]) + 1 /\ DOMAIN chain'[s] = DOMAIN chain[s] \union {Len(chain'[s])}
         /\ Len(chain'[s]) \notin DOMAIN chain[s] /\ chain'[s] # <<>>
         /\ chain'[s][Len(chain'[s])] = c /\ \A i \in DOMAIN chain[s] : chain'[s][i] = chain[s][i]
<1>1. chain[s] \in Seq(ComposeCommand) /\ chain'[s] = Append(chain[s], c)
      /\ \A t \in System \ {s} : chain'[t] = chain[t]
  BY DEF CommandsFit, Queues
<1>2. /\ chain'[s] \in Seq(ComposeCommand) /\ Len(chain'[s]) = Len(chain[s]) + 1
      /\ DOMAIN chain'[s] = DOMAIN chain[s] \union {Len(chain'[s])} /\ Len(chain'[s]) \notin DOMAIN chain[s]
      /\ chain'[s][Len(chain'[s])] = c /\ chain'[s] # <<>> /\ \A i \in DOMAIN chain[s] : chain'[s][i] = chain[s][i]
  <2>1. PICK p, q : p = chain'[s] /\ q = chain[s]
    OBVIOUS
  <2>2. q \in Seq(ComposeCommand) /\ p = Append(q, c)
    BY <1>1, <2>1
  <2>3. /\ p \in Seq(ComposeCommand) /\ Len(p) = Len(q) + 1 /\ DOMAIN p = DOMAIN q \union {Len(p)}
        /\ Len(p) \notin DOMAIN q /\ p[Len(p)] = c /\ p # <<>> /\ \A i \in DOMAIN q : p[i] = q[i]
    BY <2>2, AppendIs
  <2> QED
    BY <2>1, <2>3
<1>3. chain' \in [System -> Seq(ComposeCommand)]
  <2>1. PICK p \in Seq(ComposeCommand) : p = chain'[s] /\ p = Append(chain[s], c)
    BY <1>1, <1>2
  <2>2. chain' = [chain EXCEPT ![s] = p]
    BY <2>1 DEF Queues
  <2> QED
    BY <2>2 DEF CommandsFit
<1> QED
  BY <1>1, <1>2, <1>3

LEMMA ChainTailed ==
  ASSUME CommandsFit, NEW s \in System, chain[s] # <<>>, chain' = [chain EXCEPT ![s] = Tail(@)]
  PROVE  /\ chain' \in [System -> Seq(ComposeCommand)] /\ \A t \in System \ {s} : chain'[t] = chain[t]
         /\ Len(chain'[s]) = Len(chain[s]) - 1 /\ (chain'[s] = <<>> => Len(chain[s]) = 1) /\ (Len(chain[s]) = 1 => chain'[s] = <<>>)
         /\ \A i \in DOMAIN chain'[s] : i \in Nat \ {0} /\ i + 1 \in DOMAIN chain[s] /\ chain'[s][i] = chain[s][i + 1]
         /\ \A j \in DOMAIN chain[s] \ {1} : j - 1 \in DOMAIN chain'[s] /\ chain'[s][j - 1] = chain[s][j]
         /\ 1 \in DOMAIN chain[s] /\ Len(chain[s]) \in Nat /\ DOMAIN chain[s] = 1..Len(chain[s])
<1>1. chain[s] \in Seq(ComposeCommand) /\ chain'[s] = Tail(chain[s])
      /\ \A t \in System \ {s} : chain'[t] = chain[t]
  BY DEF CommandsFit
<1>2. /\ chain'[s] \in Seq(ComposeCommand) /\ Len(chain'[s]) = Len(chain[s]) - 1
      /\ \A i \in DOMAIN chain'[s] : i + 1 \in DOMAIN chain[s] /\ chain'[s][i] = chain[s][i + 1]
      /\ \A j \in DOMAIN chain[s] \ {1} : j - 1 \in DOMAIN chain'[s] /\ chain'[s][j - 1] = chain[s][j]
      /\ (chain'[s] = <<>> => Len(chain[s]) = 1) /\ (Len(chain[s]) = 1 => chain'[s] = <<>>)
  <2>1. PICK p, q : p = chain'[s] /\ q = chain[s]
    OBVIOUS
  <2>2. q \in Seq(ComposeCommand) /\ q # <<>> /\ p = Tail(q)
    BY <1>1, <2>1
  <2>3. /\ p \in Seq(ComposeCommand) /\ Len(p) = Len(q) - 1
        /\ \A i \in DOMAIN p : i + 1 \in DOMAIN q /\ p[i] = q[i + 1]
        /\ \A j \in DOMAIN q \ {1} : j - 1 \in DOMAIN p /\ p[j - 1] = q[j]
        /\ p = <<>> => Len(q) = 1
        /\ Len(q) = 1 => p = <<>>
    BY <2>2, TailIs
  <2> QED
    BY <2>1, <2>3
<1>3. chain' \in [System -> Seq(ComposeCommand)]
  BY <1>1, <1>2 DEF CommandsFit
<1>4. /\ \A i \in DOMAIN chain'[s] : i \in Nat \ {0}
      /\ 1 \in DOMAIN chain[s] /\ Len(chain[s]) \in Nat /\ DOMAIN chain[s] = 1..Len(chain[s])
  BY <1>1, <1>2, SeqIs
<1> QED
  BY <1>1, <1>2, <1>3, <1>4

LEMMA ChainRead ==
  ASSUME RuntimeTypeOK, NEW s \in System, chain[s] # <<>>, chain' = [chain EXCEPT ![s][1] = Read(s, @)]
  PROVE  /\ chain' \in [System -> Seq(ComposeCommand)] /\ \A t \in System \ {s} : chain'[t] = chain[t]
         /\ DOMAIN chain'[s] = DOMAIN chain[s] /\ Len(chain'[s]) = Len(chain[s])
         /\ 1 \in DOMAIN chain[s] /\ \A i \in DOMAIN chain[s] \ {1} : chain'[s][i] = chain[s][i]
         /\ chain'[s][1].kind = chain[s][1].kind /\ chain'[s][1].caller = chain[s][1].caller
         /\ chain'[s][1].snap.read /\ chain'[s][1].snap.names = file[s]
<1>1. PICK q \in Seq(ComposeCommand) : q = chain[s]
  BY DEF RuntimeTypeOK, CommandsFit
<1>2. 1 \in DOMAIN q /\ q[1] \in ComposeCommand
  BY <1>1, SeqIs
<1>3. PICK d : d = Read(s, q[1])
  OBVIOUS
<1>4. d \in ComposeCommand /\ d.kind = q[1].kind /\ d.caller = q[1].caller /\ d.snap.read /\ d.snap.names = file[s]
  BY <1>2, <1>3, ReadIs
<1>5. PICK p : p = [q EXCEPT ![1] = d]
  OBVIOUS
<1>6. /\ p \in Seq(ComposeCommand) /\ DOMAIN p = DOMAIN q /\ Len(p) = Len(q)
      /\ p[1] = d /\ \A j \in DOMAIN q \ {1} : p[j] = q[j]
  BY <1>2, <1>4, <1>5, ChangedIs
<1>7. chain' = [chain EXCEPT ![s] = p]
  BY <1>1, <1>3, <1>5
<1>8. chain \in [System -> Seq(ComposeCommand)]
  BY DEF RuntimeTypeOK, CommandsFit
<1>9. chain' \in [System -> Seq(ComposeCommand)] /\ chain'[s] = p /\ \A t \in System \ {s} : chain'[t] = chain[t]
  BY <1>6, <1>7, <1>8
<1> QED
  BY <1>1, <1>2, <1>4, <1>6, <1>9

-----------------------------------------------------------------------------
(* Runtime: types. *)

LEMMA AppliedIs ==
  ASSUME FilesFit, NEW s \in System, NEW c \in ComposeCommand, c.snap.read
  PROVE  Applied(s, c) \in SUBSET Container
<1>1. c.snap.names \in SUBSET Container
  <2>1. c.snap \in Snap /\ c.snap # Unread
    BY DEF ComposeCommand, Unread
  <2> QED
    BY <2>1 DEF Snap
<1>2. up[s] \in SUBSET Container
  BY DEF FilesFit
<1> QED
  BY <1>1, <1>2 DEF Applied

\* Removing a container leaves the load balancer.
LEMMA NamesIs ==
  ASSUME FilesFit, NEW s \in System, NEW c \in Container
  PROVE  /\ file[s] \union {c} \in SUBSET Container /\ Lb \in file[s] \union {c}
         /\ c # Lb => file[s] \ {c} \in SUBSET Container /\ Lb \in file[s] \ {c}
         /\ {Lb} \in SUBSET Container
  BY LbIsAContainer DEF FilesFit

LEMMA FileChanged ==
  ASSUME FilesFit, NEW s \in System, NEW names \in SUBSET Container, Lb \in names,
         file' = [file EXCEPT ![s] = names], up' = up
  PROVE  FilesFit' /\ file'[s] = names /\ \A t \in System \ {s} : file'[t] = file[t]
  BY DEF FilesFit

LEMMA UpChanged ==
  ASSUME FilesFit, NEW s \in System, NEW names \in SUBSET Container,
         up' = [up EXCEPT ![s] = names], file' = file
  PROVE  FilesFit' /\ up'[s] = names /\ \A t \in System \ {s} : up'[t] = up[t]
  BY DEF FilesFit

LEMMA LooseAppended ==
  ASSUME CommandsFit, NEW s \in System, NEW c \in ComposeCommand,
         loose' = Append(loose, [system |-> s, command |-> c])
  PROVE  /\ loose' \in Seq([system : System, command : ComposeCommand])
         /\ DOMAIN loose' = DOMAIN loose \union {Len(loose')} /\ Len(loose') \notin DOMAIN loose
         /\ loose'[Len(loose')].system = s /\ loose'[Len(loose')].command = c
         /\ \A i \in DOMAIN loose : loose'[i] = loose[i]
<1>1. PICK x : x = [system |-> s, command |-> c]
  OBVIOUS
<1>2. x \in [system : System, command : ComposeCommand] /\ x.system = s /\ x.command = c
  BY <1>1
<1>3. loose \in Seq([system : System, command : ComposeCommand]) /\ loose' = Append(loose, x)
  BY <1>1 DEF CommandsFit
<1> QED
  BY <1>2, <1>3, AppendIs

LEMMA LooseRead ==
  ASSUME RuntimeTypeOK, NEW i \in DOMAIN loose, loose' = [loose EXCEPT ![i].command = Read(loose[i].system, @)]
  PROVE  /\ loose' \in Seq([system : System, command : ComposeCommand]) /\ DOMAIN loose' = DOMAIN loose
         /\ \A j \in DOMAIN loose : loose'[j].system = loose[j].system /\ loose'[j].command.kind = loose[j].command.kind
         /\ \A j \in DOMAIN loose \ {i} : loose'[j] = loose[j]
         /\ loose'[i].command.snap.names = file[loose[i].system]
<1>1. PICK q : q = loose
  OBVIOUS
<1>2. q \in Seq([system : System, command : ComposeCommand]) /\ q[i] \in [system : System, command : ComposeCommand]
  <2>1. q \in Seq([system : System, command : ComposeCommand])
    BY <1>1 DEF RuntimeTypeOK, CommandsFit
  <2> QED
    BY <1>1, <2>1, SeqIs
<1>3. PICK s \in System, c \in ComposeCommand : q[i].system = s /\ q[i].command = c
  BY <1>2
<1>4. PICK d : d = Read(s, c)
  OBVIOUS
<1>5. d \in ComposeCommand /\ d.kind = c.kind /\ d.snap.names = file[s]
  BY <1>3, <1>4, ReadIs
<1>6. PICK x : x = [system |-> s, command |-> d]
  OBVIOUS
<1>7. x \in [system : System, command : ComposeCommand] /\ x.system = s /\ x.command = d
  BY <1>5, <1>6
<1>8. loose' = [q EXCEPT ![i] = x]
  <2>1. [q[i] EXCEPT !.command = d] = x
    BY <1>2, <1>3, <1>6
  <2> QED
    BY <1>1, <1>3, <1>4, <2>1
<1>9. /\ loose' \in Seq([system : System, command : ComposeCommand]) /\ DOMAIN loose' = DOMAIN q
      /\ loose'[i] = x /\ \A j \in DOMAIN q \ {i} : loose'[j] = q[j]
  BY <1>1, <1>2, <1>7, <1>8, ChangedIs
<1> QED
  BY <1>1, <1>3, <1>5, <1>7, <1>9

LEMMA LooseRemoved ==
  ASSUME CommandsFit, NEW i \in DOMAIN loose, loose' = Cut(loose, i)
  PROVE  /\ loose' \in Seq([system : System, command : ComposeCommand])
         /\ \A j \in DOMAIN loose' : \E k \in DOMAIN loose \ {i} : loose'[j] = loose[k] /\ k = IF j < i THEN j ELSE j + 1
         /\ \A k \in DOMAIN loose \ {i} : \E j \in DOMAIN loose' : loose'[j] = loose[k]
  BY WithoutIs DEF CommandsFit

LEMMA CommandsKept ==
  ASSUME CommandsFit, loose' = loose, chain' \in [System -> Seq(ComposeCommand)]
  PROVE  CommandsFit'
  BY DEF CommandsFit

LEMMA LooseIs ==
  ASSUME CommandsFit, NEW i \in DOMAIN loose
  PROVE  i \in Nat /\ loose[i] \in [system : System, command : ComposeCommand]
  BY SeqIs DEF CommandsFit

-----------------------------------------------------------------------------
(* Runtime: outage requests. *)

LEMMA AskedStage ==
  ASSUME RequestsFit, NEW r \in DOMAIN asked, NEW stage \in {"kill", "killed", "set"},
         asked' = [asked EXCEPT ![r].stage = stage]
  PROVE  /\ DOMAIN asked' = DOMAIN asked /\ \A q \in DOMAIN asked \ {r} : asked'[q] = asked[q]
         /\ asked'[r].system = asked[r].system /\ asked'[r].node = asked[r].node /\ asked'[r].stage = stage
         /\ \A q \in DOMAIN asked' : asked'[q] \in OutageRequest
<1>1. asked[r] \in OutageRequest
  BY DEF RequestsFit
<1>2. PICK p : p = [asked[r] EXCEPT !.stage = stage]
  OBVIOUS
<1>3. p \in OutageRequest /\ p.system = asked[r].system /\ p.node = asked[r].node /\ p.stage = stage
  BY <1>1, <1>2, StageIs
<1>4. asked' = [asked EXCEPT ![r] = p]
  BY <1>2
<1>5. DOMAIN asked' = DOMAIN asked /\ asked'[r] = p /\ \A q \in DOMAIN asked \ {r} : asked'[q] = asked[q]
  BY <1>4
<1> QED
  BY <1>3, <1>5 DEF RequestsFit

LEMMA RequestIs ==
  ASSUME RequestsFit, NEW r \in DOMAIN asked
  PROVE  asked[r].system \in System /\ asked[r].node \in Container \ {Lb} /\ asked[r].stage \in {"kill", "killed", "set"}
  BY DEF RequestsFit, OutageRequest

LEMMA EntryIs ==
  ASSUME RequestsFit, NEW k \in DOMAIN entry
  PROVE  /\ entry[k] \in DOMAIN asked /\ k = <<k[1], k[2]>> /\ k \in System \X Container
         /\ asked[entry[k]].system = k[1] /\ asked[entry[k]].node = k[2]
<1>1. entry[k] \in DOMAIN asked /\ k = <<asked[entry[k]].system, asked[entry[k]].node>>
  BY DEF RequestsFit
<1>2. asked[entry[k]].system \in System /\ asked[entry[k]].node \in Container
  BY <1>1, RequestIs
<1> QED
  BY <1>1, <1>2

LEMMA StartOutageFits ==
  ASSUME RuntimeTypeOK, NEW r, NEW s \in System, NEW c \in Container, StartOutage(r, s, c)
  PROVE  /\ RequestsFit' /\ DOMAIN asked' = DOMAIN asked \union {r} /\ \A q \in DOMAIN asked : asked'[q] = asked[q]
         /\ asked'[r].system = s /\ asked'[r].node = c /\ asked'[r].stage = "kill"
         /\ \A x : x \in DOMAIN entry' <=> x \in DOMAIN entry /\ x # <<s, c>>
         /\ \A x \in DOMAIN entry' : entry'[x] = entry[x]
<1>1. PICK p : p = [system |-> s, node |-> c, stage |-> "kill"]
  OBVIOUS
<1>2. c \in Container \ {Lb} /\ r \notin DOMAIN asked
  BY DEF StartOutage
<1>3. p \in OutageRequest /\ p.system = s /\ p.node = c /\ p.stage = "kill"
  BY <1>1, <1>2 DEF OutageRequest
<1>4. asked' = [x \in DOMAIN asked \union {r} |-> IF x = r THEN p ELSE asked[x]]
  BY <1>1 DEF StartOutage
<1>5. DOMAIN asked' = DOMAIN asked \union {r} /\ asked'[r] = p /\ \A q \in DOMAIN asked : asked'[q] = asked[q]
  BY <1>2, <1>4
<1>6. entry' = [x \in DOMAIN entry \ {<<s, c>>} |-> entry[x]]
  BY DEF StartOutage, Forget
<1>7. /\ \A x : x \in DOMAIN entry' <=> x \in DOMAIN entry /\ x # <<s, c>>
      /\ \A x \in DOMAIN entry' : entry'[x] = entry[x]
  BY <1>6
<1>8. timers' \subseteq timers /\ starting' = starting
  BY DEF StartOutage
<1>9. RequestsFit'
  BY <1>3, <1>5, <1>7, <1>8 DEF RuntimeTypeOK, RequestsFit
<1> QED
  BY <1>3, <1>5, <1>7, <1>9

LEMMA KilledFits ==
  ASSUME RuntimeTypeOK, NEW r \in DOMAIN asked, Killed(r), NEW k, k = <<asked[r].system, asked[r].node>>
  PROVE  /\ RequestsFit' /\ DOMAIN asked' = DOMAIN asked /\ \A q \in DOMAIN asked \ {r} : asked'[q] = asked[q]
         /\ asked'[r].system = asked[r].system /\ asked'[r].node = asked[r].node /\ asked'[r].stage = "set"
         /\ \A x : x \in DOMAIN entry' <=> x \in DOMAIN entry \/ x = k
         /\ entry'[k] = r /\ \A x \in DOMAIN entry \ {k} : entry'[x] = entry[x]
<1>1. RequestsFit /\ asked' = [asked EXCEPT ![r].stage = "set"]
  BY DEF RuntimeTypeOK, Killed
<1>2. /\ DOMAIN asked' = DOMAIN asked /\ \A q \in DOMAIN asked \ {r} : asked'[q] = asked[q]
      /\ asked'[r].system = asked[r].system /\ asked'[r].node = asked[r].node /\ asked'[r].stage = "set"
      /\ \A q \in DOMAIN asked' : asked'[q] \in OutageRequest
  BY <1>1, AskedStage
<1>3. entry' = [x \in DOMAIN entry \union {k} |-> IF x = k THEN r ELSE entry[x]]
  BY DEF Killed
<1>4. /\ \A x : x \in DOMAIN entry' <=> x \in DOMAIN entry \/ x = k
      /\ entry'[k] = r /\ \A x \in DOMAIN entry \ {k} : entry'[x] = entry[x]
  BY <1>3
<1>5. timers' = timers \union {r} /\ starting' = starting
  BY DEF Killed
<1>6. ASSUME NEW x \in DOMAIN entry'
      PROVE  entry'[x] \in DOMAIN asked' /\ x = <<asked'[entry'[x]].system, asked'[entry'[x]].node>>
  <2>1. CASE x = k
    BY <1>2, <1>4, <2>1
  <2>2. CASE x # k
    <3>1. x \in DOMAIN entry /\ entry'[x] = entry[x]
      BY <1>4, <2>2
    <3>2. entry[x] \in DOMAIN asked /\ x = <<asked[entry[x]].system, asked[entry[x]].node>>
      BY <1>1, <3>1 DEF RequestsFit
    <3> QED
      BY <1>2, <3>1, <3>2
  <2> QED
    BY <2>1, <2>2
<1>7. RequestsFit'
  BY <1>1, <1>2, <1>5, <1>6 DEF RequestsFit
<1> QED
  BY <1>2, <1>4, <1>7

\* A node given back: its entry and its timer go, and it is started.
Restored(k, r) ==
  /\ entry' = Forget(entry, k) /\ timers' = timers \ {r} /\ starting' = starting \union {k} /\ asked' = asked

LEMMA RestoredFits ==
  ASSUME RequestsFit, NEW k \in System \X Container, NEW r, Restored(k, r)
  PROVE  /\ RequestsFit'
         /\ \A x : x \in DOMAIN entry' <=> x \in DOMAIN entry /\ x # k
         /\ \A x \in DOMAIN entry' : entry'[x] = entry[x]
<1>1. entry' = [x \in DOMAIN entry \ {k} |-> entry[x]]
  BY DEF Restored, Forget
<1>2. /\ \A x : x \in DOMAIN entry' <=> x \in DOMAIN entry /\ x # k
      /\ \A x \in DOMAIN entry' : entry'[x] = entry[x]
  BY <1>1
<1> QED
  BY <1>2 DEF RequestsFit, Restored

LEMMA TimeUpFits ==
  ASSUME RuntimeTypeOK, NEW r \in DOMAIN asked, TimeUp(r)
  PROVE  RequestsFit'
<1>1. PICK k : k = <<asked[r].system, asked[r].node>>
  OBVIOUS
<1>2. k \in System \X Container
  BY <1>1, RequestIs DEF RuntimeTypeOK
<1>3. CASE entry' = Forget(entry, k)
  BY <1>1, <1>2, <1>3, RestoredFits DEF TimeUp, Restored, RuntimeTypeOK
<1>4. CASE entry' = entry
  BY <1>1, <1>2, <1>4 DEF TimeUp, RuntimeTypeOK, RequestsFit
<1> QED
  BY <1>1, <1>3, <1>4 DEF TimeUp

LEMMA ResetFits ==
  ASSUME RuntimeTypeOK, NEW s \in System, ResetSystem(s)
  PROVE  /\ RequestsFit' /\ asked' = asked /\ starting' = starting
         /\ \A x : x \in DOMAIN entry' <=> x \in DOMAIN entry /\ x[1] # s
         /\ \A x \in DOMAIN entry' : entry'[x] = entry[x]
         /\ \A r : r \in timers' <=> r \in timers /\ ~\E x \in DOMAIN entry : x[1] = s /\ entry[x] = r
<1>1. PICK gone : gone = {k \in DOMAIN entry : k[1] = s}
  OBVIOUS
<1>2. /\ entry' = [k \in DOMAIN entry \ gone |-> entry[k]]
      /\ timers' = timers \ {entry[k] : k \in gone}
  BY <1>1 DEF ResetSystem
<1>3. asked' = asked /\ starting' = starting
  BY DEF ResetSystem
<1>4. /\ \A x : x \in DOMAIN entry' <=> x \in DOMAIN entry /\ x[1] # s
      /\ \A x \in DOMAIN entry' : entry'[x] = entry[x]
      /\ \A r : r \in timers' <=> r \in timers /\ ~\E x \in DOMAIN entry : x[1] = s /\ entry[x] = r
  BY <1>1, <1>2
<1> QED
  BY <1>3, <1>4 DEF RuntimeTypeOK, RequestsFit

LEMMA ShutdownFits ==
  ASSUME RuntimeTypeOK, Shutdown
  PROVE  /\ RequestsFit' /\ DOMAIN asked' = DOMAIN asked /\ DOMAIN entry' = {} /\ timers' = {}
         /\ \A r \in DOMAIN asked : asked'[r].system = asked[r].system /\ asked'[r].node = asked[r].node /\ asked'[r].stage = "set"
         /\ CommandsFit' /\ ActiveFit'
         /\ \A s \in System : chain'[s] = <<>>
         /\ loose' = <<>> /\ DOMAIN loose' = {}
<1>1. RequestsFit /\ asked' = [r \in DOMAIN asked |-> [asked[r] EXCEPT !.stage = "set"]]
  BY DEF RuntimeTypeOK, Shutdown
<1>2. ASSUME NEW r \in DOMAIN asked
      PROVE  /\ asked'[r] \in OutageRequest
             /\ asked'[r].system = asked[r].system /\ asked'[r].node = asked[r].node /\ asked'[r].stage = "set"
  <2>1. asked'[r] = [asked[r] EXCEPT !.stage = "set"] /\ asked[r] \in OutageRequest
    BY <1>1 DEF RequestsFit
  <2> QED
    BY <2>1, StageIs
<1>3. DOMAIN asked' = DOMAIN asked
  BY <1>1
<1>4. entry' = <<>> /\ timers' = {} /\ starting' = starting \union DOMAIN entry
  BY DEF Shutdown
<1>5. DOMAIN entry' = {}
  BY <1>4
<1>6. starting' \subseteq System \X Container
  BY <1>1, <1>4, EntryIs DEF RequestsFit
<1>7. RequestsFit'
  BY <1>1, <1>2, <1>3, <1>4, <1>5, <1>6 DEF RequestsFit
<1>8. chain' = [s \in System |-> <<>>] /\ loose' = <<>> /\ activations' = <<>> /\ step' = "idle" /\ marker' = marker
  BY DEF Shutdown
<1>9. CommandsFit'
  BY <1>8 DEF CommandsFit
<1>10. ActiveFit'
  BY <1>8, EmptySeq DEF ActiveFit, RuntimeTypeOK
<1> QED
  BY <1>2, <1>3, <1>4, <1>5, <1>7, <1>8, <1>9, <1>10

-----------------------------------------------------------------------------
(* Runtime: every step keeps the types. *)

LEMMA ActiveKept ==
  ASSUME ActiveFit, UNCHANGED activeVars
  PROVE  ActiveFit'
  BY DEF ActiveFit, activeVars

LEMMA RequestsKept ==
  ASSUME RequestsFit, UNCHANGED outageVars
  PROVE  RequestsFit'
  BY DEF RequestsFit, outageVars

LEMMA FilesKept ==
  ASSUME FilesFit, file' = file, up' = up
  PROVE  FilesFit'
  BY DEF FilesFit

LEMMA HeadIs ==
  ASSUME RuntimeTypeOK, activations # <<>>
  PROVE  /\ Head(activations) \in System /\ Tail(activations) \in Seq(System)
         /\ activations[1] = Head(activations) /\ 1 \in DOMAIN activations
<1>1. PICK q \in Seq(System) : q = activations
  BY DEF RuntimeTypeOK, ActiveFit
<1>2. Head(q) \in System /\ Tail(q) \in Seq(System) /\ q[1] = Head(q) /\ 1 \in DOMAIN q
  BY <1>1, SeqIs, HeadTailProperties
<1> QED
  BY <1>1, <1>2

\* The first command of a chain: an activation's is the one of its step.
LEMMA CurrentIs ==
  ASSUME RuntimeTypeOK, ActivationsOK, NEW s \in System, chain[s] # <<>>
  PROVE  /\ 1 \in DOMAIN chain[s] /\ chain[s][1] \in ComposeCommand
         /\ chain[s][1].kind \in {"up", "down", "prune"}
         /\ chain[s][1].caller = "edit" => chain[s][1].kind # "down"
         /\ chain[s][1].caller # "edit" =>
              /\ chain[s][1].caller = "activation" /\ activations # <<>>
              /\ \/ chain[s][1].kind = "down" /\ step = "down" /\ marker = s
                 \/ chain[s][1].kind = "up" /\ step = "up" /\ Head(activations) = s
<1>1. 1 \in DOMAIN chain[s] /\ chain[s][1] \in ComposeCommand
  BY SeqIs DEF RuntimeTypeOK, CommandsFit
<1>2. chain[s][1].kind \in {"up", "down", "prune"} /\ chain[s][1].caller \in {"edit", "activation"}
  BY <1>1 DEF ComposeCommand
<1> QED
  BY <1>1, <1>2 DEF ActivationsOK, ChainOK, StepOK

LEMMA LockedFits ==
  ASSUME RuntimeTypeOK, NEW s \in System, NEW names \in SUBSET Container, Lb \in names,
         NEW verb \in {"up", "prune"}, Locked(s, names, verb)
  PROVE  RuntimeTypeOK'
<1>1. PICK c : c = Command(verb, "edit")
  OBVIOUS
<1>2. c \in ComposeCommand
  BY <1>1, CommandIs
<1>3. Queues(s, c) /\ loose' = loose
  BY <1>1 DEF Locked, Queues
<1>4. CommandsFit'
  BY <1>2, <1>3, ChainAppended, CommandsKept DEF RuntimeTypeOK
<1>5. file' = [file EXCEPT ![s] = names] /\ up' = up /\ UNCHANGED activeVars /\ UNCHANGED outageVars
  BY DEF Locked
<1>6. FilesFit'
  BY <1>5, FileChanged DEF RuntimeTypeOK
<1> QED
  BY <1>4, <1>5, <1>6, ActiveKept, RequestsKept DEF RuntimeTypeOK

LEMMA UnlockedFits ==
  ASSUME RuntimeTypeOK, NEW s \in System, NEW names \in SUBSET Container, Lb \in names,
         NEW verb \in {"up", "prune"}, Unlocked(s, names, verb)
  PROVE  RuntimeTypeOK'
<1>1. PICK c : c = Command(verb, "edit")
  OBVIOUS
<1>2. c \in ComposeCommand
  BY <1>1, CommandIs
<1>3. loose' = Append(loose, [system |-> s, command |-> c]) /\ chain' = chain
  BY <1>1 DEF Unlocked
<1>4. CommandsFit'
  BY <1>2, <1>3, LooseAppended DEF RuntimeTypeOK, CommandsFit
<1>5. file' = [file EXCEPT ![s] = names] /\ up' = up /\ UNCHANGED activeVars /\ UNCHANGED outageVars
  BY DEF Unlocked
<1>6. FilesFit'
  BY <1>5, FileChanged DEF RuntimeTypeOK
<1> QED
  BY <1>4, <1>5, <1>6, ActiveKept, RequestsKept DEF RuntimeTypeOK

LEMMA ResetTypes ==
  ASSUME RuntimeTypeOK, NEW s \in System, ResetSystem(s)
  PROVE  RuntimeTypeOK'
<1>1. PICK c : c = Command("prune", "edit")
  OBVIOUS
<1>2. c \in ComposeCommand
  BY <1>1, CommandIs
<1>3. Queues(s, c) /\ loose' = loose
  BY <1>1 DEF ResetSystem, Queues
<1>4. CommandsFit'
  BY <1>2, <1>3, ChainAppended, CommandsKept DEF RuntimeTypeOK
<1>5. file' = [file EXCEPT ![s] = {Lb}] /\ up' = up /\ UNCHANGED activeVars
  BY DEF ResetSystem
<1>6. FilesFit'
  BY <1>5, FileChanged, LbIsAContainer DEF RuntimeTypeOK
<1> QED
  BY <1>4, <1>5, <1>6, ActiveKept, ResetFits DEF RuntimeTypeOK

\* What the end of a command, done or failed, does to the activation it is of.
Ended(s, fails) ==
  IF chain[s][1].caller = "edit" THEN UNCHANGED activeVars
  ELSE IF chain[s][1].kind = "down" THEN step' = "down done" /\ UNCHANGED <<marker, activations>>
  ELSE marker' = (IF fails THEN NoSystem ELSE s) /\ activations' = Tail(activations) /\ step' = "idle"

LEMMA EndIs ==
  ASSUME NEW s, End(s)
  PROVE  /\ chain[s] # <<>> /\ chain[s][1].snap.read
         /\ up' = [up EXCEPT ![s] = Applied(s, chain[s][1])] /\ chain' = [chain EXCEPT ![s] = Tail(@)]
         /\ s \notin struck' => Succeeds(s, chain[s][1]) /\ ~OutageUnderWay(s)
         /\ struck \subseteq struck'
         /\ Ended(s, ~Succeeds(s, chain[s][1]))
         /\ file' = file /\ loose' = loose /\ UNCHANGED outageVars
<1>1. Ended(s, ~Succeeds(s, chain[s][1]))
  BY DEF End, Ended, activeVars
<1> QED
  BY <1>1 DEF End

LEMMA FailIs ==
  ASSUME NEW s, Fail(s)
  PROVE  /\ chain[s] # <<>> /\ chain[s][1].snap.read
         /\ chain' = [chain EXCEPT ![s] = Tail(@)]
         /\ s \in struck' /\ struck \subseteq struck'
         /\ Ended(s, TRUE)
         /\ file' = file /\ up' = up /\ loose' = loose /\ UNCHANGED outageVars
<1>1. Ended(s, TRUE)
  BY DEF Fail, Ended, activeVars
<1> QED
  BY <1>1 DEF Fail

LEMMA EndedFits ==
  ASSUME RuntimeTypeOK, ActivationsOK, NEW s \in System, chain[s] # <<>>, NEW fails, Ended(s, fails)
  PROVE  ActiveFit'
<1>1. CASE chain[s][1].caller = "edit"
  BY <1>1, ActiveKept DEF Ended, RuntimeTypeOK
<1>2. CASE chain[s][1].caller # "edit" /\ chain[s][1].kind = "down"
  BY <1>2 DEF Ended, RuntimeTypeOK, ActiveFit
<1>3. CASE chain[s][1].caller # "edit" /\ chain[s][1].kind # "down"
  <2>1. Tail(activations) \in Seq(System)
    BY <1>3, CurrentIs, HeadIs
  <2> QED
    BY <1>3, <2>1 DEF Ended, ActiveFit
<1> QED
  BY <1>1, <1>2, <1>3

LEMMA EndTypes ==
  ASSUME RuntimeTypeOK, ActivationsOK, NEW s \in System, End(s)
  PROVE  RuntimeTypeOK'
<1>1. CommandsFit'
  BY EndIs, ChainTailed, CommandsKept DEF RuntimeTypeOK
<1>2. Applied(s, chain[s][1]) \in SUBSET Container
  BY EndIs, CurrentIs, AppliedIs DEF RuntimeTypeOK
<1>3. FilesFit'
  BY <1>2, EndIs, UpChanged DEF RuntimeTypeOK
<1>4. ActiveFit'
  BY EndIs, EndedFits
<1> QED
  BY <1>1, <1>3, <1>4, EndIs, RequestsKept DEF RuntimeTypeOK

LEMMA FailTypes ==
  ASSUME RuntimeTypeOK, ActivationsOK, NEW s \in System, Fail(s)
  PROVE  RuntimeTypeOK'
<1>1. CommandsFit'
  BY FailIs, ChainTailed, CommandsKept DEF RuntimeTypeOK
<1>2. ActiveFit'
  BY FailIs, EndedFits
<1> QED
  BY <1>1, <1>2, FailIs, FilesKept, RequestsKept DEF RuntimeTypeOK

LEMMA BeginTypes ==
  ASSUME RuntimeTypeOK, NEW s \in System, Begin(s)
  PROVE  RuntimeTypeOK'
<1>1. CommandsFit'
  BY ChainRead, CommandsKept DEF Begin, RuntimeTypeOK
<1> QED
  BY <1>1, FilesKept, ActiveKept, RequestsKept DEF Begin, RuntimeTypeOK

LEMMA BeginLooseTypes ==
  ASSUME RuntimeTypeOK, NEW i \in DOMAIN loose, BeginLoose(i)
  PROVE  RuntimeTypeOK'
<1>1. CommandsFit'
  BY LooseRead DEF BeginLoose, RuntimeTypeOK, CommandsFit
<1> QED
  BY <1>1, FilesKept, ActiveKept, RequestsKept DEF BeginLoose, RuntimeTypeOK

LEMMA EndLooseTypes ==
  ASSUME RuntimeTypeOK, NEW i \in DOMAIN loose, EndLoose(i)
  PROVE  RuntimeTypeOK'
<1>1. CommandsFit'
  BY LooseRemoved DEF EndLoose, Cut, RuntimeTypeOK, CommandsFit
<1>2. loose[i] \in [system : System, command : ComposeCommand]
  BY SeqIs DEF RuntimeTypeOK, CommandsFit
<1>3. PICK s \in System, c \in ComposeCommand : s = loose[i].system /\ c = loose[i].command
  BY <1>2
<1>4. c.snap.read /\ up' = [up EXCEPT ![s] = Applied(s, c)] /\ file' = file
  BY <1>3 DEF EndLoose
<1>5. FilesFit'
  BY <1>4, AppliedIs, UpChanged DEF RuntimeTypeOK
<1> QED
  BY <1>1, <1>5, ActiveKept, RequestsKept DEF EndLoose, RuntimeTypeOK

LEMMA ActivateTypes ==
  ASSUME RuntimeTypeOK, NEW s \in System, Activate(s)
  PROVE  RuntimeTypeOK' /\ activations' # <<>> /\ (activations # <<>> => Head(activations') = Head(activations))
<1>1. activations \in Seq(System) /\ activations' = Append(activations, s)
  BY DEF RuntimeTypeOK, ActiveFit, Activate
<1>2. activations' \in Seq(System) /\ activations' # <<>> /\ (activations # <<>> => Head(activations') = Head(activations))
  BY <1>1, AppendIs
<1>3. ActiveFit'
  BY <1>2 DEF Activate, RuntimeTypeOK, ActiveFit
<1>4. CommandsFit'
  BY DEF Activate, dockerVars, RuntimeTypeOK, CommandsFit
<1> QED
  BY <1>2, <1>3, <1>4, FilesKept, RequestsKept DEF Activate, RuntimeTypeOK

\* An activation finds the system running, takes the marked one down, or brings its own up.
Found == /\ marker = Head(activations) /\ activations' = Tail(activations) /\ UNCHANGED <<chain, step>>
Downs == /\ marker # NoSystem /\ marker # Head(activations) /\ step' = "down" /\ activations' = activations
         /\ Queues(marker, Command("down", "activation"))
Ups == /\ marker = NoSystem \/ marker = Head(activations)
       /\ step' = "up" /\ activations' = activations
       /\ Queues(Head(activations), Command("up", "activation"))

LEMMA BeginActivationIs ==
  ASSUME BeginActivation
  PROVE  Found \/ Downs \/ Ups
<1>1. CASE marker = Head(activations) /\ Lb \in up[Head(activations)]
  BY <1>1 DEF BeginActivation, Found
<1>2. CASE ~(marker = Head(activations) /\ Lb \in up[Head(activations)])
  <2>1. CASE marker # NoSystem /\ marker # Head(activations)
    BY <1>2, <2>1 DEF BeginActivation, Downs, Queues
  <2>2. CASE ~(marker # NoSystem /\ marker # Head(activations))
    BY <1>2, <2>2 DEF BeginActivation, Ups, Queues
  <2> QED
    BY <2>1, <2>2
<1> QED
  BY <1>1, <1>2

LEMMA BeginActivationTypes ==
  ASSUME RuntimeTypeOK, BeginActivation
  PROVE  RuntimeTypeOK'
<1>1. CommandsFit' /\ ActiveFit'
  <2>1. CASE Found
    BY <2>1, HeadIs DEF BeginActivation, Found, RuntimeTypeOK, CommandsFit, ActiveFit
  <2>2. CASE Downs
    <3>1. PICK c : c = Command("down", "activation")
      OBVIOUS
    <3>2. c \in ComposeCommand /\ marker \in System
      BY <2>2, <3>1, CommandIs DEF Downs, RuntimeTypeOK, ActiveFit
    <3>3. CommandsFit'
      BY <2>2, <3>1, <3>2, ChainAppended, CommandsKept DEF Downs, BeginActivation, RuntimeTypeOK
    <3> QED
      BY <2>2, <3>3 DEF Downs, BeginActivation, RuntimeTypeOK, ActiveFit
  <2>3. CASE Ups
    <3>1. PICK c : c = Command("up", "activation")
      OBVIOUS
    <3>2. c \in ComposeCommand /\ Head(activations) \in System
      BY <3>1, CommandIs, HeadIs DEF BeginActivation
    <3>3. CommandsFit'
      BY <2>3, <3>1, <3>2, ChainAppended, CommandsKept DEF Ups, BeginActivation, RuntimeTypeOK
    <3> QED
      BY <2>3, <3>3 DEF Ups, BeginActivation, RuntimeTypeOK, ActiveFit
  <2> QED
    BY <2>1, <2>2, <2>3, BeginActivationIs
<1> QED
  BY <1>1, FilesKept, RequestsKept DEF BeginActivation, RuntimeTypeOK

LEMMA BringUpTypes ==
  ASSUME RuntimeTypeOK, ActivationsOK, BringUp
  PROVE  RuntimeTypeOK'
<1>1. PICK c : c = Command("up", "activation")
  OBVIOUS
<1>2. c \in ComposeCommand /\ Head(activations) \in System
  BY <1>1, CommandIs, HeadIs DEF BringUp, ActivationsOK, StepOK
<1>3. CommandsFit'
  BY <1>1, <1>2, ChainAppended, CommandsKept DEF BringUp, RuntimeTypeOK, Queues
<1>4. ActiveFit'
  BY DEF BringUp, RuntimeTypeOK, ActiveFit
<1> QED
  BY <1>3, <1>4, FilesKept, RequestsKept DEF BringUp, RuntimeTypeOK

LEMMA DockerKept ==
  ASSUME CommandsFit, UNCHANGED dockerVars
  PROVE  CommandsFit'
  BY DEF CommandsFit, dockerVars

LEMMA StartOutageTypes ==
  ASSUME RuntimeTypeOK, NEW r, NEW s \in System, NEW c \in Container, StartOutage(r, s, c)
  PROVE  RuntimeTypeOK'
  BY StartOutageFits, FilesKept, DockerKept, ActiveKept DEF StartOutage, RuntimeTypeOK

LEMMA KillIs ==
  ASSUME RuntimeTypeOK, NEW r \in DOMAIN asked, Kill(r)
  PROVE  /\ DOMAIN asked' = DOMAIN asked /\ \A q \in DOMAIN asked \ {r} : asked'[q] = asked[q]
         /\ asked'[r].system = asked[r].system /\ asked'[r].node = asked[r].node /\ asked'[r].stage = "killed"
         /\ entry' = entry /\ timers' = timers /\ starting' = starting
         /\ asked[r].system \in System /\ up'[asked[r].system] = up[asked[r].system] \ {asked[r].node}
         /\ \A t \in System \ {asked[r].system} : up'[t] = up[t]
         /\ RuntimeTypeOK'
<1>1. /\ DOMAIN asked' = DOMAIN asked /\ \A q \in DOMAIN asked \ {r} : asked'[q] = asked[q]
      /\ asked'[r].system = asked[r].system /\ asked'[r].node = asked[r].node /\ asked'[r].stage = "killed"
      /\ \A q \in DOMAIN asked' : asked'[q] \in OutageRequest
  BY AskedStage DEF RuntimeTypeOK, Kill
<1>2. entry' = entry /\ timers' = timers /\ starting' = starting
  BY DEF Kill
<1>3. RequestsFit'
  BY <1>1, <1>2 DEF RuntimeTypeOK, RequestsFit
<1>4. PICK s \in System, c \in Container : s = asked[r].system /\ c = asked[r].node
  BY RequestIs DEF RuntimeTypeOK
<1>5. PICK n \in SUBSET Container : n = up[s] \ {c}
  BY DEF RuntimeTypeOK, FilesFit
<1>6. up' = [up EXCEPT ![s] = n] /\ file' = file
  BY <1>4, <1>5 DEF Kill
<1>7. FilesFit' /\ up'[s] = n /\ \A t \in System \ {s} : up'[t] = up[t]
  BY <1>6, UpChanged DEF RuntimeTypeOK
<1>8. CommandsFit' /\ ActiveFit'
  BY DockerKept, ActiveKept DEF Kill, RuntimeTypeOK
<1> QED
  BY <1>1, <1>2, <1>3, <1>4, <1>5, <1>7, <1>8 DEF RuntimeTypeOK

LEMMA KilledTypes ==
  ASSUME RuntimeTypeOK, NEW r \in DOMAIN asked, Killed(r)
  PROVE  RuntimeTypeOK'
<1>1. RequestsFit'
  BY KilledFits
<1> QED
  BY <1>1, FilesKept, DockerKept, ActiveKept DEF Killed, RuntimeTypeOK

LEMMA KillFailsIs ==
  ASSUME RuntimeTypeOK, NEW r \in DOMAIN asked, KillFails(r)
  PROVE  /\ DOMAIN asked' = DOMAIN asked /\ \A q \in DOMAIN asked \ {r} : asked'[q] = asked[q]
         /\ asked'[r].system = asked[r].system /\ asked'[r].node = asked[r].node /\ asked'[r].stage = "set"
         /\ RuntimeTypeOK'
<1>1. /\ DOMAIN asked' = DOMAIN asked /\ \A q \in DOMAIN asked \ {r} : asked'[q] = asked[q]
      /\ asked'[r].system = asked[r].system /\ asked'[r].node = asked[r].node /\ asked'[r].stage = "set"
      /\ \A q \in DOMAIN asked' : asked'[q] \in OutageRequest
  BY AskedStage DEF RuntimeTypeOK, KillFails
<1>2. entry' = entry /\ timers' = timers /\ starting' = starting
  BY DEF KillFails
<1>3. RequestsFit'
  BY <1>1, <1>2 DEF RuntimeTypeOK, RequestsFit
<1>4. RuntimeTypeOK'
  BY <1>3, FilesKept, DockerKept, ActiveKept DEF KillFails, RuntimeTypeOK
<1> QED
  BY <1>1, <1>4

LEMMA TimeUpTypes ==
  ASSUME RuntimeTypeOK, NEW r \in DOMAIN asked, TimeUp(r)
  PROVE  RuntimeTypeOK'
  BY TimeUpFits, FilesKept, DockerKept, ActiveKept DEF TimeUp, RuntimeTypeOK

LEMMA EndOutageIs ==
  ASSUME NEW s, NEW c, EndOutage(s, c)
  PROVE  <<s, c>> \in DOMAIN entry /\ Restored(<<s, c>>, entry[<<s, c>>])
  BY DEF EndOutage, Restored, Cleared

LEMMA EndOutageTypes ==
  ASSUME RuntimeTypeOK, NEW s \in System, NEW c \in Container, EndOutage(s, c)
  PROVE  RuntimeTypeOK'
<1>1. RequestsFit'
  BY EndOutageIs, RestoredFits DEF RuntimeTypeOK
<1> QED
  BY <1>1, FilesKept, DockerKept, ActiveKept DEF EndOutage, RuntimeTypeOK

LEMMA StartedIs ==
  ASSUME RuntimeTypeOK, NEW k \in starting, Started(k)
  PROVE  /\ k[1] \in System /\ k[2] \in Container /\ k = <<k[1], k[2]>>
         /\ up'[k[1]] = up[k[1]] \union (IF k[2] \in file[k[1]] /\ Exists(k[1]) THEN {k[2]} ELSE {})
         /\ \A t \in System \ {k[1]} : up'[t] = up[t]
         /\ RuntimeTypeOK'
<1>1. k \in System \X Container
  BY DEF RuntimeTypeOK, RequestsFit
<1>2. PICK s \in System, c \in Container : k = <<s, c>> /\ s = k[1] /\ c = k[2]
  BY <1>1
<1>3. PICK n : n = up[s] \union (IF c \in file[s] /\ Exists(s) THEN {c} ELSE {})
  OBVIOUS
<1>4. n \in SUBSET Container
  BY <1>3 DEF RuntimeTypeOK, FilesFit
<1>5. up' = [up EXCEPT ![s] = n] /\ file' = file
  BY <1>2, <1>3 DEF Started
<1>6. FilesFit' /\ up'[s] = n /\ \A t \in System \ {s} : up'[t] = up[t]
  BY <1>4, <1>5, UpChanged DEF RuntimeTypeOK
<1>7. CommandsFit' /\ ActiveFit'
  BY DockerKept, ActiveKept DEF Started, RuntimeTypeOK
<1>8. RequestsFit'
  BY DEF Started, RuntimeTypeOK, RequestsFit
<1> QED
  BY <1>2, <1>3, <1>6, <1>7, <1>8 DEF RuntimeTypeOK

LEMMA ShutdownTypes ==
  ASSUME RuntimeTypeOK, Shutdown
  PROVE  RuntimeTypeOK'
  BY ShutdownFits, FilesKept DEF Shutdown, RuntimeTypeOK

\* The edits of a system's file: they add a container or take one out that is not the load balancer.
LEMMA EditsAre ==
  ASSUME FilesFit, NEW s \in System, NEW c \in Container
  PROVE  /\ AddService(s, c) => \E names \in SUBSET Container :
              Lb \in names /\ file[s] \subseteq names /\ Locked(s, names, "up")
         /\ ScaleIn(s, c) => \E names \in SUBSET Container : Lb \in names /\ Locked(s, names, "prune")
         /\ AddDatabase(s, c) => \E names \in SUBSET Container :
              Lb \in names /\ file[s] \subseteq names /\ Unlocked(s, names, "up")
         /\ DeleteNode(s, c) => \E names \in SUBSET Container : Lb \in names /\ Unlocked(s, names, "prune")
<1>1. file[s] \union {c} \in SUBSET Container /\ Lb \in file[s] \union {c}
      /\ (c # Lb => file[s] \ {c} \in SUBSET Container /\ Lb \in file[s] \ {c})
  BY NamesIs
<1> QED
  BY <1>1 DEF AddService, ScaleIn, AddDatabase, DeleteNode

LEMMA TypeStep ==
  ASSUME RuntimeTypeOK, ActivationsOK, RuntimeNext
  PROVE  RuntimeTypeOK'
<1>0. FilesFit
  BY DEF RuntimeTypeOK
<1>1. ASSUME NEW s \in System, NEW c \in Container,
             AddService(s, c) \/ ScaleIn(s, c) \/ AddDatabase(s, c) \/ DeleteNode(s, c)
      PROVE  RuntimeTypeOK'
  BY <1>0, <1>1, EditsAre, LockedFits, UnlockedFits
<1>2. ASSUME NEW s \in System, ResetSystem(s) \/ Begin(s) \/ End(s) \/ Fail(s) \/ Activate(s)
      PROVE  RuntimeTypeOK'
  BY <1>2, ResetTypes, BeginTypes, EndTypes, FailTypes, ActivateTypes
<1>3. ASSUME NEW i \in DOMAIN loose, BeginLoose(i) \/ EndLoose(i)
      PROVE  RuntimeTypeOK'
  BY <1>3, BeginLooseTypes, EndLooseTypes
<1>4. ASSUME NEW r \in DOMAIN asked, Kill(r) \/ Killed(r) \/ KillFails(r) \/ TimeUp(r)
      PROVE  RuntimeTypeOK'
  BY <1>4, KillIs, KilledTypes, KillFailsIs, TimeUpTypes
<1>5. ASSUME NEW s \in System, NEW c \in Container, EndOutage(s, c) \/ \E r \in OutageId : StartOutage(r, s, c)
      PROVE  RuntimeTypeOK'
  BY <1>5, EndOutageTypes, StartOutageTypes
<1>6. ASSUME NEW k \in starting, Started(k)
      PROVE  RuntimeTypeOK'
  BY <1>6, StartedIs
<1> QED
  BY <1>1, <1>2, <1>3, <1>4, <1>5, <1>6, BeginActivationTypes, BringUpTypes, ShutdownTypes DEF RuntimeNext

-----------------------------------------------------------------------------
(* Runtime: every step keeps the commands of activations apart. *)

LEMMA ChainsKept ==
  ASSUME ActivationsOK, chain' = chain, UNCHANGED activeVars
  PROVE  StepOK' /\ (\A s \in System : ChainOK(s)') /\ OneActivation'
<1>1. marker' = marker /\ activations' = activations /\ step' = step
  BY DEF activeVars
<1>2. StepOK'
  BY <1>1 DEF ActivationsOK, StepOK
<1>3. \A s \in System : ChainOK(s)'
  BY <1>1 DEF ActivationsOK, ChainOK
<1>4. OneActivation'
  BY DEF ActivationsOK, OneActivation
<1> QED
  BY <1>2, <1>3, <1>4

LEMMA LooseKept ==
  ASSUME ActivationsOK, loose' = loose
  PROVE  LooseOK'
  BY DEF ActivationsOK, LooseOK

LEMMA UnlockedApart ==
  ASSUME RuntimeTypeOK, ActivationsOK, NEW s \in System, NEW names, NEW verb \in {"up", "prune"}, Unlocked(s, names, verb)
  PROVE  ActivationsOK'
<1>1. PICK c : c = Command(verb, "edit")
  OBVIOUS
<1>2. c \in ComposeCommand /\ c.kind # "down"
  BY <1>1, CommandIs
<1>3. loose' = Append(loose, [system |-> s, command |-> c])
  BY <1>1 DEF Unlocked
<1>4. DOMAIN loose' = DOMAIN loose \union {Len(loose')} /\ loose'[Len(loose')].command = c /\ \A i \in DOMAIN loose : loose'[i] = loose[i]
  BY <1>2, <1>3, LooseAppended DEF RuntimeTypeOK
<1>5. LooseOK'
  BY <1>2, <1>4 DEF LooseOK, ActivationsOK
<1> QED
  BY <1>5, ChainsKept DEF Unlocked, ActivationsOK

\* An edit's command behind the others.
LEMMA EditApart ==
  ASSUME RuntimeTypeOK, ActivationsOK, NEW s \in System, NEW verb \in {"up", "prune"},
         Queues(s, Command(verb, "edit")), loose' = loose, UNCHANGED activeVars
  PROVE  ActivationsOK'
<1>1. PICK c : c = Command(verb, "edit")
  OBVIOUS
<1>2. c \in ComposeCommand /\ c.kind = verb /\ c.caller = "edit" /\ ~c.snap.read
  BY <1>1, CommandIs
<1>3. PICK n : n = Len(chain'[s])
  OBVIOUS
<1>4. /\ \A t \in System \ {s} : chain'[t] = chain[t]
      /\ DOMAIN chain'[s] = DOMAIN chain[s] \union {n} /\ chain'[s][n] = c
      /\ \A i \in DOMAIN chain[s] : chain'[s][i] = chain[s][i]
  <2>1. CommandsFit /\ Queues(s, c)
    BY <1>1 DEF RuntimeTypeOK
  <2> QED
    BY <1>2, <1>3, <2>1, ChainAppended
<1>5. marker' = marker /\ activations' = activations /\ step' = step
  BY DEF activeVars
<1>6. ASSUME NEW t \in System
      PROVE  ChainOK(t)'
  <2>1. ChainOK(t)
    BY DEF ActivationsOK
  <2>2. CASE t # s
    BY <1>4, <1>5, <2>1, <2>2 DEF ChainOK
  <2>3. CASE t = s
    BY <1>2, <1>4, <1>5, <2>1, <2>3 DEF ChainOK
  <2> QED
    BY <2>2, <2>3
<1>7. OneActivation'
  <2>1. ASSUME NEW t \in System, NEW i \in DOMAIN chain'[t], chain'[t][i].caller = "activation"
        PROVE  i \in DOMAIN chain[t] /\ chain[t][i].caller = "activation"
    BY <1>2, <1>4, <2>1
  <2> QED
    BY <2>1 DEF OneActivation, ActivationsOK
<1>8. StepOK'
  BY <1>5 DEF StepOK, ActivationsOK
<1> QED
  BY <1>6, <1>7, <1>8, LooseKept DEF ActivationsOK

LEMMA BeginApart ==
  ASSUME RuntimeTypeOK, ActivationsOK, NEW s \in System, Begin(s)
  PROVE  ActivationsOK'
<1>1. chain[s] # <<>> /\ chain' = [chain EXCEPT ![s][1] = Read(s, @)] /\ loose' = loose /\ UNCHANGED activeVars
  BY DEF Begin
<1>2. /\ \A t \in System \ {s} : chain'[t] = chain[t]
      /\ DOMAIN chain'[s] = DOMAIN chain[s]
      /\ 1 \in DOMAIN chain[s] /\ \A i \in DOMAIN chain[s] \ {1} : chain'[s][i] = chain[s][i]
      /\ chain'[s][1].kind = chain[s][1].kind /\ chain'[s][1].caller = chain[s][1].caller
  BY <1>1, ChainRead
<1>3. marker' = marker /\ activations' = activations /\ step' = step
  BY <1>1 DEF activeVars
<1>4. ASSUME NEW t \in System
      PROVE  ChainOK(t)'
  <2>1. ChainOK(t)
    BY DEF ActivationsOK
  <2>2. CASE t # s
    BY <1>2, <1>3, <2>1, <2>2 DEF ChainOK
  <2>3. CASE t = s
    <3>1. ASSUME NEW i \in DOMAIN chain'[t]
          PROVE  /\ chain'[t][i].snap.read => i = 1
                 /\ chain'[t][i].kind = chain[t][i].kind /\ chain'[t][i].caller = chain[t][i].caller
      <4>1. CASE i = 1
        BY <1>2, <2>3, <4>1
      <4>2. CASE i # 1
        BY <1>2, <2>1, <2>3, <4>2 DEF ChainOK
      <4> QED
        BY <4>1, <4>2
    <3> QED
      BY <1>2, <1>3, <2>1, <2>3, <3>1 DEF ChainOK
  <2> QED
    BY <2>2, <2>3
<1>5. OneActivation'
  <2>1. ASSUME NEW t \in System, NEW i \in DOMAIN chain'[t]
        PROVE  i \in DOMAIN chain[t] /\ chain'[t][i].caller = chain[t][i].caller
    BY <1>2
  <2> QED
    BY <2>1 DEF OneActivation, ActivationsOK
<1>6. StepOK'
  BY <1>3 DEF StepOK, ActivationsOK
<1> QED
  BY <1>1, <1>4, <1>5, <1>6, LooseKept DEF ActivationsOK

\* The end of a command: if it was an activation's, no other of one is left.
LEMMA EndedApart ==
  ASSUME RuntimeTypeOK, ActivationsOK, NEW s \in System, chain[s] # <<>>, chain' = [chain EXCEPT ![s] = Tail(@)],
         NEW fails, Ended(s, fails), loose' = loose
  PROVE  ActivationsOK'
<1>1. /\ \A t \in System \ {s} : chain'[t] = chain[t]
      /\ \A i \in DOMAIN chain'[s] : i \in Nat \ {0} /\ i + 1 \in DOMAIN chain[s] /\ chain'[s][i] = chain[s][i + 1]
      /\ 1 \in DOMAIN chain[s]
  BY ChainTailed DEF RuntimeTypeOK
<1>2. ASSUME NEW i \in DOMAIN chain'[s]
      PROVE  i + 1 # 1
  BY <1>1
<1>3. ASSUME NEW t \in System, NEW i \in DOMAIN chain'[t], chain'[t][i].snap.read
      PROVE  i = 1
  BY <1>1, <1>2, <1>3 DEF ActivationsOK, ChainOK
<1>4. ASSUME NEW t \in System, NEW i \in DOMAIN chain'[t]
      PROVE  \E k \in DOMAIN chain[t] : chain'[t][i] = chain[t][k] /\ ~(t = s /\ k = 1)
  BY <1>1, <1>2
<1>5. CASE chain[s][1].caller = "edit"
  <2>1. marker' = marker /\ activations' = activations /\ step' = step
    BY <1>5 DEF Ended, activeVars
  <2>2. ASSUME NEW t \in System
        PROVE  ChainOK(t)'
    <3>1. ChainOK(t)
      BY DEF ActivationsOK
    <3>2. ASSUME NEW i \in DOMAIN chain'[t]
          PROVE  /\ chain'[t][i].snap.read => i = 1
                 /\ \E k \in DOMAIN chain[t] : chain'[t][i] = chain[t][k]
      BY <1>3, <1>4
    <3> QED
      BY <2>1, <3>1, <3>2 DEF ChainOK
  <2>3. OneActivation'
    <3>1. ASSUME NEW t \in System, NEW u \in System, NEW i \in DOMAIN chain'[t], NEW j \in DOMAIN chain'[u],
                 chain'[t][i].caller = "activation", chain'[u][j].caller = "activation"
          PROVE  t = u /\ i = j
      <4>1. CASE t = s /\ u = s
        <5>1. i + 1 \in DOMAIN chain[s] /\ chain'[s][i] = chain[s][i + 1] /\ j + 1 \in DOMAIN chain[s] /\ chain'[s][j] = chain[s][j + 1]
          BY <1>1, <4>1
        <5>2. i + 1 = j + 1
          BY <3>1, <4>1, <5>1 DEF ActivationsOK, OneActivation
        <5>3. i \in Nat /\ j \in Nat
          BY <1>1, <4>1
        <5> QED
          BY <4>1, <5>2, <5>3
      <4>2. CASE t # s /\ u # s
        BY <1>1, <3>1, <4>2 DEF ActivationsOK, OneActivation
      <4>3. CASE t # u
        <5>1. PICK k \in DOMAIN chain[t] : chain'[t][i] = chain[t][k]
          BY <1>4
        <5>2. PICK l \in DOMAIN chain[u] : chain'[u][j] = chain[u][l]
          BY <1>4
        <5> QED
          BY <3>1, <4>3, <5>1, <5>2 DEF ActivationsOK, OneActivation
      <4> QED
        BY <4>1, <4>2, <4>3
    <3> QED
      BY <3>1 DEF OneActivation
  <2>4. StepOK'
    BY <2>1 DEF ActivationsOK, StepOK
  <2> QED
    BY <2>2, <2>3, <2>4, LooseKept DEF ActivationsOK
<1>6. CASE chain[s][1].caller # "edit"
  <2>1. chain[s][1].caller = "activation"
    BY <1>6, CurrentIs
  <2>2. ASSUME NEW t \in System, NEW i \in DOMAIN chain'[t]
        PROVE  chain'[t][i].caller # "activation"
    <3>1. PICK k \in DOMAIN chain[t] : chain'[t][i] = chain[t][k] /\ ~(t = s /\ k = 1)
      BY <1>4
    <3> QED
      BY <1>1, <2>1, <3>1 DEF ActivationsOK, OneActivation
  <2>3. ASSUME NEW t \in System
        PROVE  ChainOK(t)'
    <3>1. ASSUME NEW i \in DOMAIN chain'[t]
          PROVE  chain'[t][i].caller = "edit" => chain'[t][i].kind # "down"
      BY <1>4 DEF ActivationsOK, ChainOK
    <3> QED
      BY <1>3, <2>2, <3>1 DEF ChainOK
  <2>4. OneActivation'
    BY <2>2 DEF OneActivation
  <2>5. StepOK'
    BY <1>6, CurrentIs DEF Ended, ActivationsOK, StepOK
  <2> QED
    BY <2>3, <2>4, <2>5, LooseKept DEF ActivationsOK
<1> QED
  BY <1>5, <1>6

LEMMA EndLooseApart ==
  ASSUME RuntimeTypeOK, ActivationsOK, NEW i \in DOMAIN loose, EndLoose(i)
  PROVE  ActivationsOK'
<1>1. \A j \in DOMAIN loose' : \E k \in DOMAIN loose : loose'[j] = loose[k]
  <2>1. loose' = Cut(loose, i) /\ CommandsFit
    BY DEF EndLoose, Cut, RuntimeTypeOK
  <2> QED
    BY <2>1, LooseRemoved
<1>2. LooseOK'
  BY <1>1 DEF LooseOK, ActivationsOK
<1> QED
  BY <1>2, ChainsKept DEF EndLoose, ActivationsOK

LEMMA BeginLooseApart ==
  ASSUME RuntimeTypeOK, ActivationsOK, NEW i \in DOMAIN loose, BeginLoose(i)
  PROVE  ActivationsOK'
<1>1. DOMAIN loose' = DOMAIN loose /\ \A j \in DOMAIN loose : loose'[j].command.kind = loose[j].command.kind
  BY LooseRead DEF BeginLoose
<1>2. LooseOK'
  BY <1>1 DEF LooseOK, ActivationsOK
<1> QED
  BY <1>2, ChainsKept DEF BeginLoose, ActivationsOK

LEMMA ActivateApart ==
  ASSUME RuntimeTypeOK, ActivationsOK, NEW s \in System, Activate(s)
  PROVE  ActivationsOK'
<1>1. activations' # <<>> /\ (activations # <<>> => Head(activations') = Head(activations))
  BY ActivateTypes
<1>2. chain' = chain /\ loose' = loose /\ marker' = marker /\ step' = step
  BY DEF Activate
<1>3. StepOK'
  BY <1>1, <1>2 DEF ActivationsOK, StepOK
<1>5. OneActivation'
  BY <1>2 DEF ActivationsOK, OneActivation
<1>4. ASSUME NEW t \in System
      PROVE  ChainOK(t)'
  BY <1>1, <1>2 DEF ActivationsOK, StepOK, ChainOK
<1> QED
  BY <1>2, <1>3, <1>4, <1>5, LooseKept DEF ActivationsOK

\* Between two commands of activations no chain has one.
LEMMA NoneOfActivations ==
  ASSUME ActivationsOK, step \in {"idle", "down done"}
  PROVE  \A t \in System : \A i \in DOMAIN chain[t] : chain[t][i].caller # "activation"
  BY DEF ActivationsOK, ChainOK

LEMMA ActivationApart ==
  ASSUME RuntimeTypeOK, ActivationsOK, step \in {"idle", "down done"}, NEW s \in System, activations # <<>>,
         NEW verb \in {"up", "down"}, Queues(s, Command(verb, "activation")),
         loose' = loose, marker' = marker, activations' = activations,
         \/ verb = "down" /\ step' = "down" /\ marker = s /\ Head(activations) # marker
         \/ verb = "up" /\ step' = "up" /\ Head(activations) = s
  PROVE  ActivationsOK'
<1>1. PICK c : c = Command(verb, "activation")
  OBVIOUS
<1>2. c \in ComposeCommand /\ c.kind = verb /\ c.caller = "activation" /\ ~c.snap.read
  BY <1>1, CommandIs
<1>3. PICK n : n = Len(chain'[s])
  OBVIOUS
<1>4. /\ \A t \in System \ {s} : chain'[t] = chain[t]
      /\ DOMAIN chain'[s] = DOMAIN chain[s] \union {n} /\ chain'[s][n] = c
      /\ \A i \in DOMAIN chain[s] : chain'[s][i] = chain[s][i]
  <2>1. CommandsFit /\ Queues(s, c)
    BY <1>1 DEF RuntimeTypeOK
  <2> QED
    BY <1>2, <1>3, <2>1, ChainAppended
<1>5. ASSUME NEW t \in System, NEW i \in DOMAIN chain'[t]
      PROVE  \/ t = s /\ i = n /\ chain'[t][i] = c
             \/ i \in DOMAIN chain[t] /\ chain'[t][i] = chain[t][i] /\ chain'[t][i].caller # "activation"
  BY <1>4, NoneOfActivations
<1>6. ASSUME NEW t \in System
      PROVE  ChainOK(t)'
  <2>1. ASSUME NEW i \in DOMAIN chain'[t], t = s, chain'[t][i] = c
        PROVE  /\ chain'[t][i].snap.read => i = 1
               /\ chain'[t][i].caller = "edit" => chain'[t][i].kind # "down"
               /\ chain'[t][i].caller = "activation" =>
                    \/ chain'[t][i].kind = "down" /\ step' = "down" /\ marker' = t
                    \/ chain'[t][i].kind = "up" /\ step' = "up" /\ Head(activations') = t
    BY <1>2, <2>1
  <2>2. ASSUME NEW i \in DOMAIN chain'[t], i \in DOMAIN chain[t], chain'[t][i] = chain[t][i], chain'[t][i].caller # "activation"
        PROVE  /\ chain'[t][i].snap.read => i = 1
               /\ chain'[t][i].caller = "edit" => chain'[t][i].kind # "down"
    <3>1. ChainOK(t)
      BY DEF ActivationsOK
    <3> QED
      BY <2>2, <3>1 DEF ChainOK
  <2> QED
    BY <1>5, <2>1, <2>2 DEF ChainOK
<1>7. OneActivation'
  <2>1. ASSUME NEW t \in System, NEW i \in DOMAIN chain'[t], chain'[t][i].caller = "activation"
        PROVE  t = s /\ i = n
    BY <1>5, <2>1
  <2> QED
    BY <2>1 DEF OneActivation
<1>8. StepOK'
  BY DEF StepOK
<1> QED
  BY <1>6, <1>7, <1>8, LooseKept DEF ActivationsOK

LEMMA BeginActivationApart ==
  ASSUME RuntimeTypeOK, ActivationsOK, BeginActivation
  PROVE  ActivationsOK'
<1>1. step = "idle" /\ activations # <<>> /\ loose' = loose /\ marker' = marker
  BY DEF BeginActivation
<1>2. CASE Found
  <2>1. chain' = chain /\ step' = "idle"
    BY <1>1, <1>2 DEF Found
  <2>2. ASSUME NEW t \in System
        PROVE  ChainOK(t)'
    BY <1>1, <2>1, NoneOfActivations DEF ActivationsOK, ChainOK
  <2>3. StepOK'
    BY <2>1 DEF ActivationsOK, StepOK
  <2>4. OneActivation'
    BY <2>1 DEF ActivationsOK, OneActivation
  <2> QED
    BY <1>1, <2>2, <2>3, <2>4, LooseKept DEF ActivationsOK
<1>3. CASE Downs
  <2>1. marker \in System
    BY <1>3 DEF Downs, RuntimeTypeOK, ActiveFit
  <2> QED
    BY <1>1, <1>3, <2>1, ActivationApart DEF Downs
<1>4. CASE Ups
  <2>1. Head(activations) \in System
    BY <1>1, HeadIs
  <2> QED
    BY <1>1, <1>4, <2>1, ActivationApart DEF Ups
<1> QED
  BY <1>2, <1>3, <1>4, BeginActivationIs

LEMMA BringUpApart ==
  ASSUME RuntimeTypeOK, ActivationsOK, BringUp
  PROVE  ActivationsOK'
<1>1. step = "down done" /\ activations # <<>>
  BY DEF BringUp, ActivationsOK, StepOK
<1>2. Head(activations) \in System
  BY <1>1, HeadIs
<1> QED
  BY <1>1, <1>2, ActivationApart DEF BringUp, Queues

LEMMA ShutdownApart ==
  ASSUME RuntimeTypeOK, Shutdown
  PROVE  ActivationsOK'
<1>1. (\A s \in System : chain'[s] = <<>>) /\ DOMAIN loose' = {} /\ step' = "idle"
  BY ShutdownFits DEF Shutdown
<1>2. \A s \in System : DOMAIN chain'[s] = {}
  BY <1>1
<1> QED
  BY <1>1, <1>2 DEF ActivationsOK, StepOK, ChainOK, OneActivation, LooseOK

LEMMA ApartStep ==
  ASSUME RuntimeTypeOK, ActivationsOK, RuntimeNext
  PROVE  ActivationsOK'
<1>0. FilesFit
  BY DEF RuntimeTypeOK
<1>1. ASSUME NEW s \in System, NEW names, NEW verb \in {"up", "prune"}, Locked(s, names, verb)
      PROVE  ActivationsOK'
  BY <1>1, EditApart DEF Locked, Queues
<1>2. ASSUME NEW s \in System, NEW c \in Container,
             AddService(s, c) \/ ScaleIn(s, c) \/ AddDatabase(s, c) \/ DeleteNode(s, c)
      PROVE  ActivationsOK'
  BY <1>0, <1>1, <1>2, EditsAre, UnlockedApart
<1>3. ASSUME NEW s \in System, ResetSystem(s)
      PROVE  ActivationsOK'
  BY <1>3, EditApart DEF ResetSystem, Queues
<1>4. ASSUME NEW s \in System, End(s) \/ Fail(s)
      PROVE  ActivationsOK'
  BY <1>4, EndIs, FailIs, EndedApart
<1>5. ASSUME UNCHANGED dockerVars, UNCHANGED activeVars
      PROVE  ActivationsOK'
  BY <1>5, ChainsKept, LooseKept DEF dockerVars, ActivationsOK
<1>6. ASSUME NEW r \in DOMAIN asked, Kill(r) \/ Killed(r) \/ KillFails(r) \/ TimeUp(r)
      PROVE  ActivationsOK'
  BY <1>5, <1>6 DEF Kill, Killed, KillFails, TimeUp
<1>7. ASSUME NEW s \in System, NEW c \in Container, EndOutage(s, c) \/ \E r \in OutageId : StartOutage(r, s, c)
      PROVE  ActivationsOK'
  BY <1>5, <1>7 DEF EndOutage, StartOutage
<1>8. ASSUME NEW k \in starting, Started(k)
      PROVE  ActivationsOK'
  BY <1>5, <1>8 DEF Started
<1>9. ASSUME NEW s \in System, Begin(s) \/ Activate(s)
      PROVE  ActivationsOK'
  BY <1>9, BeginApart, ActivateApart
<1>10. ASSUME NEW i \in DOMAIN loose, BeginLoose(i) \/ EndLoose(i)
       PROVE  ActivationsOK'
  BY <1>10, BeginLooseApart, EndLooseApart
<1> QED
  BY <1>2, <1>3, <1>4, <1>6, <1>7, <1>8, <1>9, <1>10, BeginActivationApart, BringUpApart, ShutdownApart DEF RuntimeNext

-----------------------------------------------------------------------------
(* Runtime: every step keeps the systems calm that are not struck.  Edits. *)

LEMMA ExistsSame ==
  ASSUME NEW t, UNCHANGED activeVars
  PROVE  Exists(t)' <=> Exists(t)
<1>1. marker' = marker /\ activations' = activations /\ step' = step
  BY DEF activeVars
<1> QED
  BY <1>1 DEF Exists

\* An edit that strikes nobody finds the system running and no other's command beside it.
LEMMA NotStraying ==
  ASSUME RuntimeTypeOK, ActivationsOK, NEW s \in System, NEW unlocked \in BOOLEAN, s \notin Strays(s, unlocked)
  PROVE  /\ Exists(s) /\ LooseOn(s) = {} /\ \A i \in DOMAIN chain[s] : chain[s][i].kind # "down"
         /\ unlocked => ~Busy(s)
<1>1. /\ ~(unlocked /\ Busy(s)) /\ s \notin UnlockedOn /\ marker = s
      /\ \A i \in DOMAIN activations : activations[i] = s
  BY DEF Strays
<1>2. LooseOn(s) = {}
  BY <1>1 DEF UnlockedOn, LooseOn
<1>3. step # "idle" => Head(activations) = s
  BY <1>1, HeadIs DEF ActivationsOK, StepOK
<1>4. Exists(s)
  BY <1>1, <1>3 DEF Exists
<1>5. ASSUME NEW i \in DOMAIN chain[s], chain[s][i].kind = "down"
      PROVE  FALSE
  <2>1. chain[s][i] \in ComposeCommand
    BY SeqIs DEF RuntimeTypeOK, CommandsFit
  <2>2. chain[s][i].caller \in {"edit", "activation"}
    BY <2>1 DEF ComposeCommand
  <2>3. step = "down"
    BY <1>5, <2>2 DEF ActivationsOK, ChainOK
  <2> QED
    BY <1>1, <1>3, <2>3 DEF ActivationsOK, StepOK
<1> QED
  BY <1>1, <1>2, <1>4, <1>5

\* A command more in the chain of a system whose containers exist.
LEMMA AppendedPresent ==
  ASSUME RuntimeTypeOK, NEW s \in System, Present(s), LooseOn(s) = {},
         \A i \in DOMAIN chain[s] : chain[s][i].kind # "down",
         NEW c \in ComposeCommand, ~c.snap.read, Queues(s, c),
         up' = up, loose' = loose, c.kind = "prune" \/ file[s] \subseteq file'[s]
  PROVE  Present(s)'
<1>1. PICK n : n = Len(chain'[s])
  OBVIOUS
<1>2. /\ DOMAIN chain'[s] = DOMAIN chain[s] \union {n} /\ n \notin DOMAIN chain[s] /\ chain'[s][n] = c
      /\ chain'[s] # <<>> /\ \A i \in DOMAIN chain[s] : chain'[s][i] = chain[s][i]
      /\ chain' \in [System -> Seq(ComposeCommand)]
  <2>1. CommandsFit
    BY DEF RuntimeTypeOK
  <2> QED
    BY <1>1, <2>1, ChainAppended
<1>3. 1 \in DOMAIN chain'[s]
  BY <1>2, SeqIs
<1>4. LooseOn(s)' = {}
  BY DEF LooseOn
<1>5. Prunes(s) \subseteq Prunes(s)' /\ (c.kind = "prune" => n \in Prunes(s)')
  BY <1>2 DEF Prunes
<1>6. \A i \in DOMAIN chain'[s] : chain'[s][i].kind = "down" => i = n
  BY <1>2
<1>7. ASSUME chain'[s][1].snap.read
      PROVE  n # 1 /\ (chain'[s][1].snap.names \subseteq file'[s] \/ Prunes(s)' \ {1} # {})
  <2>1. n # 1 /\ 1 \in DOMAIN chain[s] /\ chain'[s][1] = chain[s][1]
    BY <1>2, <1>3, <1>7
  <2>2. chain[s] # <<>>
    BY <2>1, SeqIs DEF RuntimeTypeOK, CommandsFit
  <2>3. chain[s][1].snap.names \subseteq file[s] \/ Prunes(s) \ {1} # {}
    BY <1>7, <2>1, <2>2 DEF Present
  <2> QED
    BY <1>5, <2>1, <2>3
<1>8. up'[s] \subseteq file'[s] \/ Prunes(s)' # {}
  <2>1. up[s] \subseteq file[s] \/ Prunes(s) # {}
    BY DEF Present
  <2> QED
    BY <1>5, <2>1
<1>9. Busy(s)'
  BY <1>2 DEF Busy
<1> QED
  BY <1>1, <1>2, <1>4, <1>6, <1>7, <1>8, <1>9 DEF Present

LEMMA UpSame ==
  ASSUME RuntimeTypeOK, RuntimeTypeOK', NEW t \in System, OutagesOK(t), UNCHANGED outageVars, up'[t] = up[t]
  PROVE  OutagesOK(t)'
  BY OutagesSame, OutagesStay

LEMMA LockedCalm ==
  ASSUME RuntimeInv, RuntimeTypeOK', NEW s \in System, NEW names \in SUBSET Container, Lb \in names,
         NEW verb \in {"up", "prune"}, Locked(s, names, verb), verb = "prune" \/ file[s] \subseteq names,
         NEW t \in System \ struck'
  PROVE  Calm(t)'
<1>1. PICK c : c = Command(verb, "edit")
  OBVIOUS
<1>2. c \in ComposeCommand /\ c.kind = verb /\ ~c.snap.read
  BY <1>1, CommandIs
<1>3. /\ Queues(s, c) /\ loose' = loose /\ up' = up
      /\ file' = [file EXCEPT ![s] = names] /\ UNCHANGED activeVars /\ UNCHANGED outageVars
      /\ struck' = struck \union Strays(s, FALSE)
  BY <1>1 DEF Locked, Queues
<1>4. RuntimeTypeOK /\ ActivationsOK /\ Calm(t)
  BY <1>3 DEF RuntimeInv
<1>5. file'[s] = names /\ \A u \in System \ {s} : file'[u] = file[u] /\ chain'[u] = chain[u]
  <2>1. FilesFit /\ CommandsFit
    BY <1>4 DEF RuntimeTypeOK
  <2>2. file'[s] = names /\ \A u \in System \ {s} : file'[u] = file[u]
    BY <1>3, <2>1, FileChanged
  <2>3. \A u \in System \ {s} : chain'[u] = chain[u]
    BY <1>2, <1>3, <2>1, ChainAppended
  <2> QED
    BY <2>2, <2>3
<1>6. Exists(t)' <=> Exists(t)
  BY <1>3, ExistsSame
<1>7. CASE t # s
  <2>1. SameRun(t)
    BY <1>3, <1>5, <1>6, <1>7, LooseSame DEF SameRun
  <2> QED
    BY <1>3, <1>4, <2>1, OutagesSame, CalmStays
<1>8. CASE t = s
  <2>1. Exists(s) /\ LooseOn(s) = {} /\ \A i \in DOMAIN chain[s] : chain[s][i].kind # "down"
    BY <1>3, <1>4, <1>8, NotStraying
  <2>2. Present(s) /\ OutagesOK(s)
    BY <1>4, <1>8, <2>1 DEF Calm
  <2>3. Present(s)'
    BY <1>2, <1>3, <1>4, <1>5, <2>1, <2>2, AppendedPresent
  <2>4. OutagesOK(s)'
    BY <1>3, <1>4, <2>2, UpSame
  <2> QED
    BY <1>6, <1>8, <2>1, <2>3, <2>4 DEF Calm
<1> QED
  BY <1>7, <1>8

LEMMA UnlockedCalm ==
  ASSUME RuntimeInv, RuntimeTypeOK', NEW s \in System, NEW names \in SUBSET Container, Lb \in names,
         NEW verb \in {"up", "prune"}, Unlocked(s, names, verb), verb = "prune" \/ file[s] \subseteq names,
         NEW t \in System \ struck'
  PROVE  Calm(t)'
<1>1. PICK c : c = Command(verb, "edit")
  OBVIOUS
<1>2. c \in ComposeCommand /\ c.kind = verb /\ ~c.snap.read
  BY <1>1, CommandIs
<1>3. /\ loose' = Append(loose, [system |-> s, command |-> c]) /\ chain' = chain /\ up' = up
      /\ file' = [file EXCEPT ![s] = names] /\ UNCHANGED activeVars /\ UNCHANGED outageVars
      /\ struck' = struck \union Strays(s, TRUE)
  BY <1>1 DEF Unlocked
<1>4. RuntimeTypeOK /\ ActivationsOK /\ Calm(t)
  BY <1>3 DEF RuntimeInv
<1>5. file'[s] = names /\ \A u \in System \ {s} : file'[u] = file[u]
  BY <1>3, <1>4, FileChanged DEF RuntimeTypeOK
<1>6. Exists(t)' <=> Exists(t)
  BY <1>3, ExistsSame
<1>7. PICK n : n = Len(loose')
  OBVIOUS
<1>8. /\ DOMAIN loose' = DOMAIN loose \union {n} /\ n \notin DOMAIN loose
      /\ loose'[n].system = s /\ loose'[n].command = c /\ \A i \in DOMAIN loose : loose'[i] = loose[i]
  BY <1>2, <1>3, <1>4, <1>7, LooseAppended DEF RuntimeTypeOK
<1>9. CASE t # s
  <2>1. LooseOn(t)' = LooseOn(t) /\ \A i \in LooseOn(t) : loose'[i] = loose[i]
    BY <1>8, <1>9 DEF LooseOn
  <2>2. SameLoose(t)
    BY <2>1 DEF SameLoose
  <2>3. SameRun(t)
    BY <1>3, <1>5, <1>6, <1>9, <2>2 DEF SameRun
  <2> QED
    BY <1>3, <1>4, <2>3, OutagesSame, CalmStays
<1>10. CASE t = s
  <2>1. Exists(s) /\ LooseOn(s) = {} /\ ~Busy(s)
    BY <1>3, <1>4, <1>10, NotStraying
  <2>2. Present(s) /\ OutagesOK(s) /\ chain[s] = <<>>
    BY <1>4, <1>10, <2>1 DEF Calm, Busy
  <2>3. LooseOn(s)' = {n}
    BY <1>8, <2>1 DEF LooseOn
  <2>4. DOMAIN chain'[s] = {}
    BY <1>3, <2>2
  <2>5. Prunes(s) = {}
    BY <1>3, <2>4 DEF Prunes
  <2>6. up[s] \subseteq file[s]
    BY <2>1, <2>2, <2>5 DEF Present
  <2>7. up'[s] \subseteq file'[s] \/ \E i \in LooseOn(s)' : loose'[i].command.kind = "prune"
    BY <1>2, <1>3, <1>5, <1>8, <2>3, <2>6
  <2>8. Busy(s)'
    BY <1>8 DEF Busy
  <2>9. Present(s)'
    BY <1>2, <1>3, <1>8, <2>2, <2>3, <2>4, <2>7, <2>8 DEF Present
  <2>10. OutagesOK(s)'
    BY <1>3, <1>4, <2>2, UpSame
  <2> QED
    BY <1>6, <1>10, <2>1, <2>9, <2>10 DEF Calm
<1> QED
  BY <1>9, <1>10

LEMMA ResetCalm ==
  ASSUME RuntimeInv, RuntimeTypeOK', NEW s \in System, ResetSystem(s), NEW t \in System \ struck'
  PROVE  Calm(t)'
<1>1. PICK c : c = Command("prune", "edit")
  OBVIOUS
<1>2. c \in ComposeCommand /\ c.kind = "prune" /\ ~c.snap.read
  BY <1>1, CommandIs
<1>3. /\ Queues(s, c) /\ loose' = loose /\ up' = up
      /\ file' = [file EXCEPT ![s] = {Lb}] /\ UNCHANGED activeVars
      /\ struck' = struck \union Strays(s, FALSE)
  BY <1>1 DEF ResetSystem, Queues
<1>4. RuntimeTypeOK /\ ActivationsOK /\ Calm(t)
  BY <1>3 DEF RuntimeInv
<1>5. \A u \in System \ {s} : file'[u] = file[u] /\ chain'[u] = chain[u]
  BY <1>2, <1>3, <1>4, FileChanged, ChainAppended, LbIsAContainer DEF RuntimeTypeOK
<1>6. Exists(t)' <=> Exists(t)
  BY <1>3, ExistsSame
<1>7. /\ asked' = asked /\ starting' = starting
      /\ \A x : x \in DOMAIN entry' <=> x \in DOMAIN entry /\ x[1] # s
      /\ \A x \in DOMAIN entry' : entry'[x] = entry[x]
      /\ \A r : r \in timers' <=> r \in timers /\ ~\E x \in DOMAIN entry : x[1] = s /\ entry[x] = r
  BY <1>4, ResetFits
<1>8. CASE t # s
  <2>1. SameRun(t)
    BY <1>3, <1>5, <1>6, <1>8, LooseSame DEF SameRun
  <2>2. ASSUME NEW r \in DOMAIN asked, asked[r].system = t
        PROVE  r \in timers' <=> r \in timers
    BY <1>4, <1>7, <1>8, <2>2, EntryIs DEF RuntimeTypeOK
  <2>3. \A k : k[1] = t => /\ k \in DOMAIN entry' <=> k \in DOMAIN entry
                           /\ k \in DOMAIN entry => entry'[k] = entry[k]
    BY <1>7, <1>8
  <2>4. SameOutages(t)
    BY <1>7, <2>2, <2>3 DEF SameOutages
  <2> QED
    BY <1>4, <2>1, <2>4, CalmStays
<1>9. CASE t = s
  <2>1. Exists(s) /\ LooseOn(s) = {} /\ \A i \in DOMAIN chain[s] : chain[s][i].kind # "down"
    BY <1>3, <1>4, <1>9, NotStraying
  <2>2. Present(s) /\ OutagesOK(s)
    BY <1>4, <1>9, <2>1 DEF Calm
  <2>3. Present(s)'
    BY <1>2, <1>3, <1>4, <2>1, <2>2, AppendedPresent
  <2>4. ASSUME NEW r \in timers', asked'[r].system = s
        PROVE  FALSE
    <3>1. r \in timers /\ asked[r].system = s
      BY <1>7, <2>4
    <3>2. <<s, asked[r].node>> \in DOMAIN entry /\ entry[<<s, asked[r].node>>] = r
      BY <2>2, <3>1 DEF OutagesOK
    <3> QED
      BY <1>7, <2>4, <3>2
  <2>5. OutagesOK(s)'
    BY <1>3, <1>7, <2>2, <2>4 DEF OutagesOK
  <2> QED
    BY <1>6, <1>9, <2>1, <2>3, <2>5 DEF Calm
<1> QED
  BY <1>8, <1>9

-----------------------------------------------------------------------------
(* Runtime: commands. *)

LEMMA BeginCalm ==
  ASSUME RuntimeInv, RuntimeTypeOK', NEW s \in System, Begin(s), NEW t \in System \ struck'
  PROVE  Calm(t)'
<1>1. /\ chain[s] # <<>> /\ chain' = [chain EXCEPT ![s][1] = Read(s, @)] /\ file' = file /\ up' = up /\ loose' = loose
      /\ UNCHANGED activeVars /\ UNCHANGED outageVars /\ struck' = struck
  BY DEF Begin
<1>2. RuntimeTypeOK /\ ActivationsOK /\ Calm(t)
  BY <1>1 DEF RuntimeInv
<1>3. /\ \A u \in System \ {s} : chain'[u] = chain[u]
      /\ DOMAIN chain'[s] = DOMAIN chain[s] /\ Len(chain'[s]) = Len(chain[s])
      /\ 1 \in DOMAIN chain[s] /\ \A i \in DOMAIN chain[s] \ {1} : chain'[s][i] = chain[s][i]
      /\ chain'[s][1].kind = chain[s][1].kind /\ chain'[s][1].caller = chain[s][1].caller
      /\ chain'[s][1].snap.read /\ chain'[s][1].snap.names = file[s]
      /\ chain' \in [System -> Seq(ComposeCommand)]
  BY <1>1, <1>2, ChainRead
<1>4. Exists(t)' <=> Exists(t)
  BY <1>1, ExistsSame
<1>5. CASE t # s
  <2>1. SameRun(t)
    BY <1>1, <1>3, <1>4, <1>5, LooseSame DEF SameRun
  <2> QED
    BY <1>1, <1>2, <2>1, OutagesSame, CalmStays
<1>6. CASE t = s
  <2>1. OutagesOK(s)'
    BY <1>1, <1>2, <1>6, UpSame DEF Calm
  <2>2. chain'[s] # <<>>
    BY <1>3, SeqIs
  <2>3. LooseOn(s)' = LooseOn(s)
    BY <1>1 DEF LooseOn
  <2>4. \A i \in DOMAIN chain[s] : chain'[s][i].kind = chain[s][i].kind /\ chain'[s][i].caller = chain[s][i].caller
    BY <1>3
  <2>5. CASE Exists(s)
    <3>1. Present(s)
      BY <1>2, <1>6, <2>5 DEF Calm
    <3>2. Prunes(s)' = Prunes(s)
      BY <1>3, <2>4 DEF Prunes
    <3>3. \A i \in DOMAIN chain'[s] : chain'[s][i].kind = "down" => i = Len(chain'[s])
      BY <1>3, <2>4, <3>1 DEF Present
    <3>4. Busy(s)'
      BY <2>2 DEF Busy
    <3>5. LooseOn(s)' = {}
      BY <1>1, <2>3, <3>1 DEF Present
    <3>6. up'[s] \subseteq file'[s] \/ Prunes(s)' # {}
      BY <1>1, <2>3, <3>1, <3>2, <3>5 DEF Present
    <3>7. Present(s)'
      BY <1>1, <1>3, <3>3, <3>4, <3>5, <3>6 DEF Present
    <3> QED
      BY <1>4, <1>6, <2>1, <2>5, <3>7 DEF Calm
  <2>6. CASE ~Exists(s)
    <3>1. Absent(s)
      BY <1>2, <1>6, <2>6 DEF Calm
    <3>2. ASSUME NEW i \in DOMAIN chain'[s]
          PROVE  chain'[s][i].caller = "activation" /\ (chain'[s][i].snap.read => chain'[s][i].snap.names = file'[s])
      <4>1. CASE i = 1
        BY <1>1, <1>3, <3>1, <4>1 DEF Absent
      <4>2. CASE i # 1
        BY <1>1, <1>3, <3>1, <4>2 DEF Absent
      <4> QED
        BY <4>1, <4>2
    <3>3. Absent(s)'
      BY <1>1, <2>3, <3>1, <3>2 DEF Absent
    <3> QED
      BY <1>4, <1>6, <2>1, <2>6, <3>3 DEF Calm
  <2> QED
    BY <2>5, <2>6
<1> QED
  BY <1>5, <1>6

LEMMA BeginLooseCalm ==
  ASSUME RuntimeInv, RuntimeTypeOK', NEW i \in DOMAIN loose, BeginLoose(i), NEW t \in System \ struck'
  PROVE  Calm(t)'
<1>1. /\ loose' = [loose EXCEPT ![i].command = Read(loose[i].system, @)] /\ file' = file /\ up' = up /\ chain' = chain
      /\ UNCHANGED activeVars /\ UNCHANGED outageVars /\ struck' = struck
  BY DEF BeginLoose
<1>2. RuntimeTypeOK /\ ActivationsOK /\ Calm(t)
  BY <1>1 DEF RuntimeInv
<1>3. /\ DOMAIN loose' = DOMAIN loose
      /\ \A j \in DOMAIN loose : loose'[j].system = loose[j].system /\ loose'[j].command.kind = loose[j].command.kind
      /\ \A j \in DOMAIN loose \ {i} : loose'[j] = loose[j]
      /\ loose'[i].command.snap.names = file[loose[i].system]
  BY <1>1, <1>2, LooseRead
<1>4. Exists(t)' <=> Exists(t)
  BY <1>1, ExistsSame
<1>5. LooseOn(t)' = LooseOn(t)
  BY <1>3 DEF LooseOn
<1>6. CASE i \notin LooseOn(t)
  <2>1. \A j \in LooseOn(t) : loose'[j] = loose[j]
    BY <1>3, <1>6 DEF LooseOn
  <2>2. SameLoose(t)
    BY <1>5, <2>1 DEF SameLoose
  <2>3. SameRun(t)
    BY <1>1, <1>4, <2>2 DEF SameRun
  <2> QED
    BY <1>1, <1>2, <2>3, OutagesSame, CalmStays
<1>7. CASE i \in LooseOn(t)
  <2>1. Exists(t) /\ Present(t) /\ OutagesOK(t)
    BY <1>2, <1>7 DEF Calm, Absent
  <2>2. OutagesOK(t)'
    BY <1>1, <1>2, <2>1, UpSame
  <2>3. Prunes(t)' = Prunes(t)
    BY <1>1 DEF Prunes
  <2>4. Busy(t)'
    BY <1>5, <1>7 DEF Busy, LooseOn
  <2>5. \A j \in LooseOn(t)' : loose'[j].command.snap.read => loose'[j].command.snap.names = file'[t]
    <3>1. \A j \in LooseOn(t)' : j = i
      BY <1>5, <1>7, <2>1 DEF Present
    <3> QED
      BY <1>1, <1>3, <1>7, <3>1 DEF LooseOn
  <2>6. up'[t] \subseteq file'[t] \/ Prunes(t)' # {} \/ \E j \in LooseOn(t)' : loose'[j].command.kind = "prune"
    <3>1. (\E j \in LooseOn(t) : loose[j].command.kind = "prune") => \E j \in LooseOn(t)' : loose'[j].command.kind = "prune"
      BY <1>3, <1>5 DEF LooseOn
    <3> QED
      BY <1>1, <2>1, <2>3, <3>1 DEF Present
  <2>7. /\ \A j, k \in LooseOn(t)' : j = k
        /\ LooseOn(t)' # {} => chain'[t] = <<>>
        /\ \A j \in DOMAIN chain'[t] : chain'[t][j].kind = "down" => j = Len(chain'[t])
        /\ chain'[t] = <<>>
    BY <1>1, <1>5, <1>7, <2>1 DEF Present
  <2>8. Present(t)'
    BY <2>4, <2>5, <2>6, <2>7 DEF Present
  <2> QED
    BY <1>4, <2>1, <2>2, <2>8 DEF Calm
<1> QED
  BY <1>6, <1>7

\* What a command that succeeds makes of the running containers.
LEMMA AppliedMakes ==
  ASSUME NEW s, NEW c, Succeeds(s, c), NEW names, names = c.snap.names, NEW n, n = Applied(s, c)
  PROVE  /\ c.kind = "down" => n = up[s] \ names
         /\ c.kind # "down" => names \subseteq n
         /\ c.kind = "prune" => n \subseteq names \union {Lb}
         /\ n \subseteq names \union up[s]
         /\ c.kind = "up" /\ up[s] = {} => n = names
<1>1. PICK free : free = names \ (IF PortTaken(s) THEN {Lb} ELSE {})
  OBVIOUS
<1>2. /\ c.kind = "down" => n = up[s] \ names
      /\ c.kind = "prune" => n = free \union (up[s] \intersect {Lb})
      /\ c.kind # "down" /\ c.kind # "prune" => n = up[s] \union free
  BY <1>1 DEF Applied
<1>3. c.kind = "down" \/ Lb \in up[s] \/ ~PortTaken(s)
  BY DEF Succeeds
<1>4. free \subseteq names
  BY <1>1
<1>5. c.kind # "down" => names \subseteq n
  <2>1. CASE PortTaken(s)
    BY <1>1, <1>2, <1>3, <2>1
  <2>2. CASE ~PortTaken(s)
    BY <1>1, <1>2, <2>2
  <2> QED
    BY <2>1, <2>2
<1> QED
  BY <1>2, <1>4, <1>5

LEMMA NoOutages ==
  ASSUME NEW s, ~OutageUnderWay(s)
  PROVE  /\ \A k \in DOMAIN entry : k[1] # s
         /\ \A r \in DOMAIN asked : asked[r].system = s => asked[r].stage = "set"
  BY DEF OutageUnderWay

\* Beside no outage, whatever is started or stopped is not one's.
LEMMA QuietOutages ==
  ASSUME RuntimeTypeOK, NEW s \in System, OutagesOK(s), ~OutageUnderWay(s), UNCHANGED outageVars
  PROVE  OutagesOK(s)'
<1>1. /\ \A k \in DOMAIN entry : k[1] # s
      /\ \A r \in DOMAIN asked : asked[r].system = s => asked[r].stage = "set"
  BY NoOutages
<1>2. entry' = entry /\ timers' = timers /\ asked' = asked /\ starting' = starting
  BY DEF outageVars
<1>3. \A r \in timers : asked[r].system # s
  BY <1>1 DEF OutagesOK
<1> QED
  BY <1>1, <1>2, <1>3 DEF OutagesOK

LEMMA EndedElsewhere ==
  ASSUME RuntimeTypeOK, ActivationsOK, NEW s \in System, chain[s] # <<>>, NEW fails, Ended(s, fails), NEW t \in System \ {s}
  PROVE  Exists(t)' <=> Exists(t)
<1>1. CASE chain[s][1].caller = "edit"
  BY <1>1, ExistsSame DEF Ended
<1>2. CASE chain[s][1].caller # "edit" /\ chain[s][1].kind = "down"
  BY <1>2, CurrentIs DEF Ended, Exists
<1>3. CASE chain[s][1].caller # "edit" /\ chain[s][1].kind # "down"
  <2>1. step = "up" /\ Head(activations) = s
    BY <1>3, CurrentIs
  <2>2. marker' \in {NoSystem, s}
    BY <1>3 DEF Ended
  <2> QED
    BY <2>1, <2>2, NoSystemIsNone DEF Exists
<1> QED
  BY <1>1, <1>2, <1>3

LEMMA FailCalm ==
  ASSUME RuntimeInv, RuntimeTypeOK', NEW s \in System, Fail(s), NEW t \in System \ struck'
  PROVE  Calm(t)'
<1>1. /\ chain[s] # <<>> /\ chain' = [chain EXCEPT ![s] = Tail(@)] /\ Ended(s, TRUE)
      /\ t # s /\ t \notin struck /\ file' = file /\ up' = up /\ loose' = loose /\ UNCHANGED outageVars
  BY FailIs
<1>2. RuntimeTypeOK /\ ActivationsOK /\ Calm(t)
  BY <1>1 DEF RuntimeInv
<1>3. chain'[t] = chain[t]
  BY <1>1, <1>2, ChainTailed DEF RuntimeTypeOK
<1>4. Exists(t)' <=> Exists(t)
  BY <1>1, <1>2, EndedElsewhere
<1>5. SameRun(t)
  BY <1>1, <1>3, <1>4, LooseSame DEF SameRun
<1> QED
  BY <1>1, <1>2, <1>5, OutagesSame, CalmStays

\* The first command of a system whose containers do not exist is an activation's, and the only one.
LEMMA AbsentEnds ==
  ASSUME RuntimeInv, NEW s \in System, End(s), s \notin struck', ~Exists(s)
  PROVE  Exists(s)' /\ Present(s)'
<1>1. /\ chain[s] # <<>> /\ chain[s][1].snap.read
      /\ up' = [up EXCEPT ![s] = Applied(s, chain[s][1])] /\ chain' = [chain EXCEPT ![s] = Tail(@)]
      /\ Succeeds(s, chain[s][1]) /\ ~OutageUnderWay(s) /\ s \notin struck
      /\ Ended(s, ~Succeeds(s, chain[s][1]))
      /\ file' = file /\ loose' = loose
  BY EndIs
<1>2. RuntimeTypeOK /\ ActivationsOK /\ Absent(s)
  BY <1>1 DEF RuntimeInv, Calm
<1>3. /\ 1 \in DOMAIN chain[s] /\ chain[s][1].caller = "activation" /\ chain[s][1].snap.names = file[s]
      /\ up[s] = {} /\ LooseOn(s) = {}
  BY <1>1, <1>2, CurrentIs DEF Absent
<1>4. \/ chain[s][1].kind = "down" /\ step = "down" /\ marker = s
      \/ chain[s][1].kind = "up" /\ step = "up" /\ Head(activations) = s
  BY <1>1, <1>2, <1>3, CurrentIs
<1>5. chain[s][1].kind = "up"
  BY <1>4 DEF Exists
<1>6. marker' = s /\ step' = "idle"
  BY <1>1, <1>3, <1>5 DEF Ended
<1>7. Exists(s)'
  BY <1>6 DEF Exists
<1>8. up[s] \in SUBSET Container /\ up \in [System -> SUBSET Container]
  BY <1>2 DEF RuntimeTypeOK, FilesFit
<1>9. Applied(s, chain[s][1]) = file[s]
  BY <1>1, <1>3, <1>5, AppliedMakes
<1>10. up'[s] = file[s]
  BY <1>1, <1>8, <1>9
<1>11. /\ \A i \in DOMAIN chain'[s] : i \in Nat \ {0} /\ i + 1 \in DOMAIN chain[s] /\ chain'[s][i] = chain[s][i + 1]
       /\ chain' \in [System -> Seq(ComposeCommand)]
  BY <1>1, <1>2, ChainTailed DEF RuntimeTypeOK
<1>12. DOMAIN chain'[s] = {}
  <2>1. ASSUME NEW i \in DOMAIN chain'[s]
        PROVE  FALSE
    <3>1. i + 1 \in DOMAIN chain[s] /\ i + 1 # 1
      BY <1>11
    <3>2. chain[s][i + 1].caller = "activation"
      BY <1>2, <3>1 DEF Absent
    <3> QED
      BY <1>2, <1>3, <3>1, <3>2 DEF ActivationsOK, OneActivation
  <2> QED
    BY <2>1
<1>13. chain'[s] = <<>>
  BY <1>11, <1>12, SeqIs
<1>14. LooseOn(s)' = {}
  BY <1>1, <1>3 DEF LooseOn
<1>15. Present(s)'
  BY <1>1, <1>10, <1>12, <1>13, <1>14 DEF Present
<1> QED
  BY <1>7, <1>15

\* One whose containers exist has them made as the file has them, or taken down.
LEMMA PresentEnds ==
  ASSUME RuntimeInv, NEW s \in System, End(s), s \notin struck', Exists(s)
  PROVE  IF Exists(s)' THEN Present(s)' ELSE Absent(s)'
<1>1. /\ chain[s] # <<>> /\ chain[s][1].snap.read
      /\ up' = [up EXCEPT ![s] = Applied(s, chain[s][1])] /\ chain' = [chain EXCEPT ![s] = Tail(@)]
      /\ Succeeds(s, chain[s][1]) /\ ~OutageUnderWay(s) /\ s \notin struck
      /\ Ended(s, ~Succeeds(s, chain[s][1]))
      /\ file' = file /\ loose' = loose /\ UNCHANGED outageVars
  BY EndIs
<1>2. RuntimeTypeOK /\ ActivationsOK /\ Present(s)
  BY <1>1 DEF RuntimeInv, Calm
<1>3. PICK c, names : c = chain[s][1] /\ names = c.snap.names
  OBVIOUS
<1>4. /\ c.kind \in {"up", "down", "prune"}
      /\ c.caller = "edit" => c.kind # "down"
      /\ c.caller # "edit" =>
           /\ activations # <<>>
           /\ \/ c.kind = "down" /\ step = "down" /\ marker = s
              \/ c.kind = "up" /\ step = "up" /\ Head(activations) = s
  BY <1>1, <1>2, <1>3, CurrentIs
<1>5. /\ \A i \in DOMAIN chain'[s] : i \in Nat \ {0} /\ i + 1 \in DOMAIN chain[s] /\ chain'[s][i] = chain[s][i + 1]
      /\ \A j \in DOMAIN chain[s] \ {1} : j - 1 \in DOMAIN chain'[s] /\ chain'[s][j - 1] = chain[s][j]
      /\ Len(chain'[s]) = Len(chain[s]) - 1 /\ (chain'[s] = <<>> => Len(chain[s]) = 1) /\ (Len(chain[s]) = 1 => chain'[s] = <<>>)
      /\ 1 \in DOMAIN chain[s] /\ Len(chain[s]) \in Nat
      /\ chain' \in [System -> Seq(ComposeCommand)]
  BY <1>1, <1>2, ChainTailed DEF RuntimeTypeOK
<1>6. LooseOn(s) = {} /\ LooseOn(s)' = {}
  BY <1>1, <1>2 DEF Present, LooseOn
<1>7. /\ Len(chain[s]) = 1 => names = file[s]
      /\ names \subseteq file[s] \/ Prunes(s) \ {1} # {}
      /\ up[s] \subseteq file[s] \/ Prunes(s) # {}
  BY <1>1, <1>2, <1>3, <1>6 DEF Present
<1>8. PICK n : n = Applied(s, c)
  OBVIOUS
<1>9. /\ c.kind = "down" => n = up[s] \ names
      /\ c.kind # "down" => names \subseteq n
      /\ c.kind = "prune" => n \subseteq names \union {Lb}
      /\ n \subseteq names \union up[s]
  BY <1>1, <1>3, <1>8, AppliedMakes
<1>10. up'[s] = n
  BY <1>1, <1>2, <1>3, <1>8 DEF RuntimeTypeOK, FilesFit
<1>11. Prunes(s) \ {1} # {} => Prunes(s)' # {}
  BY <1>5 DEF Prunes
<1>12. CASE c.kind = "down"
  <2>1. step = "down" /\ marker = s /\ activations # <<>> /\ c.caller # "edit"
    BY <1>4, <1>12
  <2>2. step' = "down done" /\ marker' = marker /\ activations' = activations
    BY <1>1, <1>3, <1>12, <2>1 DEF Ended
  <2>3. Head(activations) # marker
    BY <1>2, <2>1 DEF ActivationsOK, StepOK
  <2>4. ~Exists(s)'
    BY <2>1, <2>2, <2>3 DEF Exists
  <2>5. Len(chain[s]) = 1
    BY <1>2, <1>3, <1>5, <1>12 DEF Present
  <2>6. chain'[s] = <<>> /\ DOMAIN chain[s] = {1} /\ DOMAIN chain'[s] = {}
    BY <1>2, <1>5, <2>5, SeqIs DEF RuntimeTypeOK, CommandsFit
  <2>7. Prunes(s) = {}
    BY <1>3, <1>12, <2>6 DEF Prunes
  <2>8. up'[s] = {}
    BY <1>7, <1>9, <1>10, <1>12, <2>5, <2>7
  <2>9. Absent(s)'
    BY <1>6, <2>6, <2>8 DEF Absent
  <2> QED
    BY <2>4, <2>9
<1>13. CASE c.kind # "down"
  <2>1. Exists(s)'
    <3>1. CASE c.caller = "edit"
      BY <1>1, <1>3, <3>1, ExistsSame DEF Ended
    <3>2. CASE c.caller # "edit"
      BY <1>1, <1>3, <1>13, <3>2 DEF Ended, Exists
    <3> QED
      BY <3>1, <3>2
  <2>2. \A i \in DOMAIN chain'[s] : chain'[s][i].kind = "down" => i = Len(chain'[s])
    BY <1>2, <1>5 DEF Present
  <2>3. chain'[s] # <<>> => ~chain'[s][1].snap.read
    <3>1. SUFFICES ASSUME chain'[s] # <<>>
                   PROVE  ~chain'[s][1].snap.read
      OBVIOUS
    <3>2. 1 \in DOMAIN chain'[s]
      BY <1>5, <3>1, SeqIs
    <3>3. 1 + 1 \in DOMAIN chain[s] /\ chain'[s][1] = chain[s][1 + 1] /\ 1 + 1 # 1
      BY <1>5, <3>2
    <3> QED
      BY <1>2, <3>3 DEF ActivationsOK, ChainOK
  <2>4. up'[s] \subseteq file'[s] \/ Prunes(s)' # {}
    <3>1. CASE Prunes(s) \ {1} # {}
      BY <1>11, <3>1
    <3>2. CASE Prunes(s) \ {1} = {}
      <4>1. names \subseteq file[s]
        BY <1>7, <3>2
      <4>2. CASE c.kind = "prune"
        <5>1. Lb \in file[s]
          BY <1>2 DEF RuntimeTypeOK, FilesFit
        <5> QED
          BY <1>1, <1>9, <1>10, <4>1, <4>2, <5>1
      <4>3. CASE c.kind # "prune"
        <5>1. Prunes(s) = {}
          BY <1>3, <3>2, <4>3 DEF Prunes
        <5> QED
          BY <1>1, <1>7, <1>9, <1>10, <4>1, <5>1
      <4> QED
        BY <4>2, <4>3
    <3> QED
      BY <3>1, <3>2
  <2>5. Missing(s)' = Missing(s)
    BY <1>1, OutagesSame, MissingStay
  <2>6. ~Busy(s)' => file'[s] \ Missing(s)' \subseteq up'[s]
    <3>1. ~Busy(s)' => Len(chain[s]) = 1
      BY <1>5 DEF Busy
    <3> QED
      BY <1>1, <1>7, <1>9, <1>10, <1>13, <3>1
  <2>7. Present(s)'
    BY <1>6, <2>2, <2>3, <2>4, <2>6 DEF Present
  <2> QED
    BY <2>1, <2>7
<1> QED
  BY <1>12, <1>13

LEMMA EndCalm ==
  ASSUME RuntimeInv, RuntimeTypeOK', NEW s \in System, End(s), NEW t \in System \ struck'
  PROVE  Calm(t)'
<1>1. /\ chain[s] # <<>> /\ chain' = [chain EXCEPT ![s] = Tail(@)]
      /\ up' = [up EXCEPT ![s] = Applied(s, chain[s][1])]
      /\ Ended(s, ~Succeeds(s, chain[s][1]))
      /\ t \notin struck /\ file' = file /\ loose' = loose /\ UNCHANGED outageVars
      /\ t = s => ~OutageUnderWay(s)
  BY EndIs
<1>2. RuntimeTypeOK /\ ActivationsOK /\ Calm(t)
  BY <1>1 DEF RuntimeInv
<1>3. CASE t # s
  <2>1. chain'[t] = chain[t]
    BY <1>1, <1>2, <1>3, ChainTailed DEF RuntimeTypeOK
  <2>2. Exists(t)' <=> Exists(t)
    BY <1>1, <1>2, <1>3, EndedElsewhere
  <2>3. up'[t] = up[t]
    BY <1>1, <1>2, <1>3 DEF RuntimeTypeOK, FilesFit
  <2>4. SameRun(t)
    BY <1>1, <2>1, <2>2, <2>3, LooseSame DEF SameRun
  <2> QED
    BY <1>1, <1>2, <2>4, OutagesSame, CalmStays
<1>4. CASE t = s
  <2>1. OutagesOK(s)'
    BY <1>1, <1>2, <1>4, QuietOutages DEF Calm
  <2>2. CASE Exists(s)
    BY <1>4, <2>1, <2>2, PresentEnds DEF Calm
  <2>3. CASE ~Exists(s)
    BY <1>4, <2>1, <2>3, AbsentEnds DEF Calm
  <2> QED
    BY <2>2, <2>3
<1> QED
  BY <1>3, <1>4

LEMMA EndLooseCalm ==
  ASSUME RuntimeInv, RuntimeTypeOK', NEW i \in DOMAIN loose, EndLoose(i), NEW t \in System \ struck'
  PROVE  Calm(t)'
<1>1. RuntimeTypeOK /\ ActivationsOK /\ i \in Nat
  <2>1. RuntimeTypeOK /\ ActivationsOK
    BY DEF RuntimeInv
  <2> QED
    BY <2>1, LooseIs DEF RuntimeTypeOK
<1>2. loose[i] \in [system : System, command : ComposeCommand]
  BY <1>1, LooseIs DEF RuntimeTypeOK
<1>3. PICK s \in System, c \in ComposeCommand : s = loose[i].system /\ c = loose[i].command
  BY <1>2
<1>4. /\ c.snap.read /\ up' = [up EXCEPT ![s] = Applied(s, c)] /\ loose' = Cut(loose, i)
      /\ struck' = struck \union (IF ~Succeeds(s, c) \/ OutageUnderWay(s) THEN {s} ELSE {})
      /\ file' = file /\ chain' = chain /\ UNCHANGED activeVars /\ UNCHANGED outageVars
  BY <1>3 DEF EndLoose, Cut
<1>5. Calm(t)
  BY <1>4 DEF RuntimeInv
<1>6. Exists(t)' <=> Exists(t)
  BY <1>4, ExistsSame
<1>7. /\ \A j \in DOMAIN loose' : \E k \in DOMAIN loose \ {i} : loose'[j] = loose[k] /\ k = IF j < i THEN j ELSE j + 1
      /\ \A k \in DOMAIN loose \ {i} : \E j \in DOMAIN loose' : loose'[j] = loose[k]
      /\ \A j \in DOMAIN loose' : j \in Nat
  BY <1>1, <1>4, LooseRemoved, SeqIs DEF RuntimeTypeOK
<1>8. PICK n : n = Applied(s, c)
  OBVIOUS
<1>9. up'[s] = n /\ \A u \in System \ {s} : up'[u] = up[u]
  BY <1>1, <1>4, <1>8 DEF RuntimeTypeOK, FilesFit
<1>10. CASE t # s
  <2>1. \A j \in LooseOn(t)' : \E k \in LooseOn(t) : loose'[j] = loose[k] /\ k = IF j < i THEN j ELSE j + 1
    BY <1>7 DEF LooseOn
  <2>2. \A k \in LooseOn(t) : \E j \in LooseOn(t)' : loose'[j] = loose[k]
    BY <1>3, <1>7, <1>10 DEF LooseOn
  <2>3. ASSUME \A j, k \in LooseOn(t) : j = k
        PROVE  \A j, k \in LooseOn(t)' : j = k
    <3>1. TAKE j, k \in LooseOn(t)'
    <3>2. j \in Nat /\ k \in Nat
      BY <1>7 DEF LooseOn
    <3>3. (IF j < i THEN j ELSE j + 1) = (IF k < i THEN k ELSE k + 1)
      BY <2>1, <2>3
    <3> QED
      BY <1>1, <3>2, <3>3
  <2>4. SameLoose(t)
    BY <2>1, <2>2, <2>3 DEF SameLoose
  <2>5. SameRun(t)
    BY <1>4, <1>6, <1>9, <1>10, <2>4 DEF SameRun
  <2> QED
    BY <1>1, <1>4, <1>5, <2>5, OutagesSame, CalmStays
<1>11. CASE t = s
  <2>1. Succeeds(s, c) /\ ~OutageUnderWay(s)
    BY <1>4, <1>11
  <2>2. i \in LooseOn(s)
    BY <1>3 DEF LooseOn
  <2>3. Exists(s) /\ Present(s) /\ OutagesOK(s)
    BY <1>5, <1>11, <2>2 DEF Calm, Absent
  <2>4. OutagesOK(s)'
    BY <1>1, <1>4, <2>1, <2>3, QuietOutages
  <2>5. chain[s] = <<>> /\ (\A k \in LooseOn(s) : k = i) /\ c.snap.names = file[s]
    BY <1>3, <1>4, <2>2, <2>3 DEF Present
  <2>6. LooseOn(s)' = {}
    BY <1>7, <2>5 DEF LooseOn
  <2>7. DOMAIN chain[s] = {}
    BY <2>5
  <2>8. Prunes(s) = {} /\ c.kind \in {"up", "prune"}
    BY <1>1, <1>3, <2>7 DEF Prunes, ComposeCommand, ActivationsOK, LooseOK
  <2>9. /\ file[s] \subseteq n /\ n \subseteq file[s] \union up[s]
        /\ c.kind = "prune" => n \subseteq file[s] \union {Lb}
    BY <1>8, <2>1, <2>5, <2>8, AppliedMakes
  <2>10. n \subseteq file[s]
    <3>1. CASE c.kind = "prune"
      BY <1>1, <2>9, <3>1 DEF RuntimeTypeOK, FilesFit
    <3>2. CASE c.kind = "up"
      <4>1. up[s] \subseteq file[s]
        BY <1>3, <2>3, <2>5, <2>8, <3>2 DEF Present
      <4> QED
        BY <2>9, <4>1
    <3> QED
      BY <2>8, <3>1, <3>2
  <2>11. Present(s)'
    BY <1>4, <1>9, <2>5, <2>6, <2>7, <2>9, <2>10 DEF Present
  <2> QED
    BY <1>6, <1>11, <2>3, <2>4, <2>11 DEF Calm
<1> QED
  BY <1>10, <1>11

-----------------------------------------------------------------------------
(* Runtime: activations. *)

\* Nothing runs outside the lock on a system that an activation which strikes nobody touches.
LEMMA NotUnlocked ==
  ASSUME NEW s, s \notin UnlockedOn
  PROVE  LooseOn(s) = {}
  BY DEF UnlockedOn, LooseOn

LEMMA ActivateCalm ==
  ASSUME RuntimeInv, RuntimeTypeOK', NEW s \in System, Activate(s), NEW t \in System \ struck'
  PROVE  Calm(t)'
<1>1. /\ file' = file /\ up' = up /\ chain' = chain /\ loose' = loose /\ marker' = marker /\ step' = step
      /\ UNCHANGED outageVars /\ t \notin struck
  BY DEF Activate
<1>2. RuntimeTypeOK /\ ActivationsOK /\ Calm(t)
  BY <1>1 DEF RuntimeInv
<1>3. step # "idle" => Head(activations') = Head(activations)
  BY <1>2, ActivateTypes DEF ActivationsOK, StepOK
<1>4. Exists(t)' <=> Exists(t)
  BY <1>1, <1>3 DEF Exists
<1>5. SameRun(t)
  BY <1>1, <1>4, LooseSame DEF SameRun
<1> QED
  BY <1>1, <1>2, <1>5, OutagesSame, CalmStays

\* The command of an activation, put in the chain of a system that is to go down or to come up.
LEMMA ActivationCalm ==
  ASSUME RuntimeTypeOK, ActivationsOK, RuntimeTypeOK', step \in {"idle", "down done"},
         NEW s \in System, NEW verb \in {"up", "down"},
         Queues(s, Command(verb, "activation")),
         file' = file, up' = up, loose' = loose, UNCHANGED outageVars,
         \A t \in System : Exists(t)' <=> Exists(t),
         NEW t \in System, Calm(t), t = s => LooseOn(t) = {}
  PROVE  Calm(t)'
<1>1. PICK c : c = Command(verb, "activation")
  OBVIOUS
<1>2. c \in ComposeCommand /\ c.kind = verb /\ c.caller = "activation" /\ ~c.snap.read
  BY <1>1, CommandIs
<1>3. Queues(s, c)
  BY <1>1
<1>4. /\ \A u \in System \ {s} : chain'[u] = chain[u]
      /\ DOMAIN chain'[s] = DOMAIN chain[s] \union {Len(chain'[s])} /\ chain'[s][Len(chain'[s])] = c
      /\ \A i \in DOMAIN chain[s] : chain'[s][i] = chain[s][i]
  <2>1. CommandsFit
    BY DEF RuntimeTypeOK
  <2> QED
    BY <1>2, <1>3, <2>1, ChainAppended
<1>5. CASE t # s
  <2>1. SameRun(t)
    BY <1>4, <1>5, LooseSame DEF SameRun
  <2> QED
    BY <2>1, OutagesSame, CalmStays
<1>6. CASE t = s
  <2>1. OutagesOK(s)'
    BY <1>6, UpSame DEF Calm
  <2>2. \A i \in DOMAIN chain[s] : chain[s][i].caller # "activation" /\ chain[s][i].kind # "down"
    <3>1. ASSUME NEW i \in DOMAIN chain[s]
          PROVE  chain[s][i].caller # "activation" /\ chain[s][i].kind # "down"
      <4>1. chain[s][i] \in ComposeCommand
        BY SeqIs DEF RuntimeTypeOK, CommandsFit
      <4>2. chain[s][i].caller \in {"edit", "activation"}
        BY <4>1 DEF ComposeCommand
      <4>3. chain[s][i].caller # "activation"
        BY NoneOfActivations
      <4> QED
        BY <4>2, <4>3 DEF ActivationsOK, ChainOK
    <3> QED
      BY <3>1
  <2>3. CASE Exists(s)
    <3>1. Present(s)'
      BY <1>2, <1>3, <1>6, <2>2, <2>3, AppendedPresent DEF Calm
    <3> QED
      BY <1>6, <2>1, <2>3, <3>1 DEF Calm
  <2>4. CASE ~Exists(s)
    <3>1. Absent(s)
      BY <1>6, <2>4 DEF Calm
    <3>2. DOMAIN chain[s] = {}
      BY <2>2, <3>1 DEF Absent
    <3>3. \A i \in DOMAIN chain'[s] : chain'[s][i] = c
      BY <1>4, <3>2
    <3>4. LooseOn(s)' = {}
      BY <3>1 DEF Absent, LooseOn
    <3>5. Absent(s)'
      BY <1>2, <3>1, <3>3, <3>4 DEF Absent
    <3> QED
      BY <1>6, <2>1, <2>4, <3>5 DEF Calm
  <2> QED
    BY <2>3, <2>4
<1> QED
  BY <1>5, <1>6

LEMMA BeginActivationCalm ==
  ASSUME RuntimeInv, RuntimeTypeOK', BeginActivation, NEW t \in System \ struck'
  PROVE  Calm(t)'
<1>1. /\ step = "idle" /\ activations # <<>> /\ file' = file /\ up' = up /\ loose' = loose /\ marker' = marker
      /\ UNCHANGED outageVars /\ t \notin struck
      /\ t = marker \/ t = Head(activations) => t \notin UnlockedOn
  BY DEF BeginActivation
<1>2. RuntimeTypeOK /\ ActivationsOK /\ Calm(t)
  BY <1>1 DEF RuntimeInv
<1>3. CASE Found
  <2>1. chain' = chain /\ step' = step
    BY <1>3 DEF Found
  <2>2. Exists(t)' <=> Exists(t)
    BY <1>1, <2>1 DEF Exists
  <2>3. SameRun(t)
    BY <1>1, <2>1, <2>2, LooseSame DEF SameRun
  <2> QED
    BY <1>1, <1>2, <2>3, OutagesSame, CalmStays
<1>4. CASE Downs
  <2>1. /\ Queues(marker, Command("down", "activation"))
        /\ marker # NoSystem /\ step' = "down"
    BY <1>4 DEF Downs
  <2>2. marker \in System
    BY <1>2, <2>1 DEF RuntimeTypeOK, ActiveFit
  <2>3. \A u \in System : Exists(u)' <=> Exists(u)
    BY <1>1, <2>1 DEF Exists
  <2>4. t = marker => LooseOn(t) = {}
    BY <1>1, NotUnlocked
  <2> QED
    BY <1>1, <1>2, <2>1, <2>2, <2>3, <2>4, ActivationCalm
<1>5. CASE Ups
  <2>1. /\ Queues(Head(activations), Command("up", "activation"))
        /\ marker = NoSystem \/ marker = Head(activations)
        /\ step' = "up" /\ activations' = activations
    BY <1>5 DEF Ups
  <2>2. Head(activations) \in System
    BY <1>1, <1>2, HeadIs
  <2>3. \A u \in System : Exists(u)' <=> Exists(u)
    BY <1>1, <2>1, NoSystemIsNone DEF Exists
  <2>4. t = Head(activations) => LooseOn(t) = {}
    BY <1>1, NotUnlocked
  <2> QED
    BY <1>1, <1>2, <2>1, <2>2, <2>3, <2>4, ActivationCalm
<1> QED
  BY <1>3, <1>4, <1>5, BeginActivationIs

LEMMA BringUpCalm ==
  ASSUME RuntimeInv, RuntimeTypeOK', BringUp, NEW t \in System \ struck'
  PROVE  Calm(t)'
<1>1. /\ step = "down done" /\ file' = file /\ up' = up /\ loose' = loose /\ marker' = marker
      /\ step' = "up" /\ activations' = activations
      /\ Queues(Head(activations), Command("up", "activation"))
      /\ UNCHANGED outageVars /\ t \notin struck
      /\ t = Head(activations) => t \notin UnlockedOn
  BY DEF BringUp, Queues
<1>2. RuntimeTypeOK /\ ActivationsOK /\ Calm(t)
  BY <1>1 DEF RuntimeInv
<1>3. Head(activations) \in System
  BY <1>1, <1>2, HeadIs DEF ActivationsOK, StepOK
<1>4. \A u \in System : Exists(u)' <=> Exists(u)
  BY <1>1 DEF Exists
<1>5. t = Head(activations) => LooseOn(t) = {}
  BY <1>1, NotUnlocked
<1> QED
  BY <1>1, <1>2, <1>3, <1>4, <1>5, ActivationCalm

-----------------------------------------------------------------------------
(* Runtime: outages. *)

\* A step of an outage touches no file, no command and no activation.
LEMMA SameElsewhere ==
  ASSUME NEW t, UNCHANGED dockerVars, UNCHANGED activeVars, file' = file, up'[t] = up[t]
  PROVE  SameRun(t)
<1>1. chain' = chain /\ loose' = loose
  BY DEF dockerVars
<1> QED
  BY <1>1, LooseSame, ExistsSame DEF SameRun

LEMMA StartOutageCalm ==
  ASSUME RuntimeInv, RuntimeTypeOK', NEW r, NEW s \in System, NEW c \in Container, StartOutage(r, s, c),
         NEW t \in System \ struck'
  PROVE  Calm(t)'
<1>1. /\ r \notin DOMAIN asked /\ timers' = timers \ Cleared(<<s, c>>) /\ starting' = starting
      /\ struck \subseteq struck' /\ (s \notin struck' => Crosses(s, c) = {})
      /\ file' = file /\ up' = up /\ UNCHANGED dockerVars /\ UNCHANGED activeVars
  <2>1. s \notin struck' => Crosses(s, c) = {}
    BY DEF StartOutage, Crosses
  <2> QED
    BY <2>1 DEF StartOutage
<1>2. RuntimeTypeOK /\ Calm(t) /\ RequestsFit
  BY <1>1 DEF RuntimeInv, RuntimeTypeOK
<1>3. /\ DOMAIN asked' = DOMAIN asked \union {r} /\ \A q \in DOMAIN asked : asked'[q] = asked[q]
      /\ asked'[r].system = s /\ asked'[r].node = c /\ asked'[r].stage = "kill"
      /\ \A x : x \in DOMAIN entry' <=> x \in DOMAIN entry /\ x # <<s, c>>
      /\ \A x \in DOMAIN entry' : entry'[x] = entry[x]
  BY <1>2, StartOutageFits
<1>4. SameRun(t)
  BY <1>1, SameElsewhere
<1>5. timers \subseteq DOMAIN asked
  BY <1>2 DEF RequestsFit
<1>6. \A q : q \in timers' <=> q \in timers /\ ~(<<s, c>> \in DOMAIN entry /\ entry[<<s, c>>] = q)
  BY <1>1 DEF Cleared
<1>7. CASE t # s
  <2>1. \A q \in DOMAIN asked : asked[q].system = t => (q \in timers' <=> q \in timers)
    <3>1. ASSUME <<s, c>> \in DOMAIN entry
          PROVE  asked[entry[<<s, c>>]].system = s
      BY <1>2, <3>1, EntryIs
    <3> QED
      BY <1>6, <1>7, <3>1
  <2>2. SameOutages(t)
    BY <1>1, <1>3, <1>7, <2>1 DEF SameOutages
  <2> QED
    BY <1>2, <1>4, <2>2, CalmStays
<1>8. CASE t = s
  <2>1. /\ \A q \in DOMAIN asked : asked[q].system = s /\ asked[q].node = c => asked[q].stage = "set"
        /\ <<s, c>> \notin starting
    BY <1>1, <1>8 DEF Crosses
  <2>2. OutagesOK(s)
    BY <1>2, <1>8 DEF Calm
  <2>3. Missing(s) \subseteq Missing(s)'
    <3>1. Out(s) \subseteq Out(s)' \union {c}
      <4>1. ASSUME NEW k \in DOMAIN entry, k[1] = s, k[2] # c
            PROVE  k[2] \in Out(s)'
        <5>1. k \in DOMAIN entry'
          BY <1>3, <4>1
        <5> QED
          BY <4>1, <5>1 DEF Out
      <4> QED
        BY <4>1 DEF Out
    <3>2. c \in Missing(s)'
      BY <1>3 DEF Missing
    <3>3. ASSUME NEW q \in DOMAIN asked, asked[q].system = s, asked[q].stage # "set"
          PROVE  asked[q].node \in Missing(s)'
      BY <1>3, <3>3 DEF Missing
    <3>4. \A k \in starting : k[1] = s => k[2] \in Missing(s)'
      BY <1>1 DEF Missing
    <3>5. Out(s)' \subseteq Missing(s)'
      BY DEF Missing
    <3>6. ASSUME NEW n \in Missing(s)
          PROVE  n \in Missing(s)'
      <4>1. CASE n \in Out(s)
        BY <3>1, <3>2, <3>5, <4>1
      <4>2. CASE n \in {asked[q].node : q \in {x \in DOMAIN asked : asked[x].system = s /\ asked[x].stage # "set"}}
        BY <3>3, <4>2
      <4>3. CASE n \in {k[2] : k \in {x \in starting : x[1] = s}}
        BY <3>4, <4>3
      <4> QED
        BY <4>1, <4>2, <4>3 DEF Missing
    <3> QED
      BY <3>6
  <2>4. ASSUME NEW k \in DOMAIN entry', k[1] = s
        PROVE  /\ entry'[k] \in timers' /\ k[2] \notin up'[s] /\ k \notin starting'
               /\ \A q \in DOMAIN asked' : asked'[q].system = s /\ asked'[q].node = k[2] => asked'[q].stage = "set"
    <3>1. k \in DOMAIN entry /\ k # <<s, c>> /\ entry'[k] = entry[k]
      BY <1>3
    <3>2. /\ entry[k] \in timers /\ k[2] \notin up[s] /\ k \notin starting
          /\ \A q \in DOMAIN asked : asked[q].system = s /\ asked[q].node = k[2] => asked[q].stage = "set"
      BY <2>2, <2>4, <3>1 DEF OutagesOK
    <3>3. k = <<s, k[2]>> /\ asked[entry[k]].node = k[2]
      BY <1>2, <2>4, <3>1, EntryIs
    <3>4. k[2] # c
      BY <3>1, <3>3
    <3>5. <<s, c>> \in DOMAIN entry => entry[<<s, c>>] # entry[k]
      <4>1. <<s, c>> \in DOMAIN entry => asked[entry[<<s, c>>]].node = c
        BY <1>2, EntryIs
      <4> QED
        BY <3>3, <3>4, <4>1
    <3> QED
      BY <1>1, <1>3, <1>6, <3>1, <3>2, <3>4, <3>5
  <2>5. ASSUME NEW q \in timers', asked'[q].system = s
        PROVE  <<s, asked'[q].node>> \in DOMAIN entry' /\ entry'[<<s, asked'[q].node>>] = q
    <3>1. q \in timers /\ q \in DOMAIN asked /\ asked'[q] = asked[q]
      BY <1>3, <1>5, <1>6
    <3>2. <<s, asked[q].node>> \in DOMAIN entry /\ entry[<<s, asked[q].node>>] = q
      BY <2>2, <2>5, <3>1 DEF OutagesOK
    <3>3. <<s, asked[q].node>> # <<s, c>>
      BY <1>6, <3>2
    <3> QED
      BY <1>3, <3>1, <3>2, <3>3
  <2>6. ASSUME NEW q \in DOMAIN asked', asked'[q].system = s, asked'[q].stage # "set"
        PROVE  /\ <<s, asked'[q].node>> \notin starting'
               /\ asked'[q].stage = "killed" => asked'[q].node \notin up'[s]
               /\ \A x \in DOMAIN asked' : asked'[x].system = s /\ asked'[x].node = asked'[q].node /\ asked'[x].stage # "set" => x = q
    <3>1. CASE q = r
      BY <1>1, <1>3, <2>1, <3>1
    <3>2. CASE q # r
      <4>1. q \in DOMAIN asked /\ asked'[q] = asked[q]
        BY <1>3, <3>2
      <4>2. asked[q].node # c
        BY <2>1, <2>6, <4>1
      <4>3. /\ <<s, asked[q].node>> \notin starting
            /\ asked[q].stage = "killed" => asked[q].node \notin up[s]
            /\ \A x \in DOMAIN asked : asked[x].system = s /\ asked[x].node = asked[q].node /\ asked[x].stage # "set" => x = q
        BY <2>2, <2>6, <4>1 DEF OutagesOK
      <4> QED
        BY <1>1, <1>3, <4>1, <4>2, <4>3
    <3> QED
      BY <3>1, <3>2
  <2>7. OutagesOK(s)'
    BY <2>4, <2>5, <2>6 DEF OutagesOK
  <2>8. IF Exists(s)' THEN Present(s)' ELSE Absent(s)'
    BY <1>2, <1>4, <1>8, <2>3, RunStays DEF Calm
  <2> QED
    BY <1>8, <2>7, <2>8 DEF Calm
<1> QED
  BY <1>7, <1>8

\* A container less, or one more that the file has, is as good while it is missing or is no longer.
LEMMA UpMoves ==
  ASSUME RuntimeTypeOK, NEW s \in System, IF Exists(s) THEN Present(s) ELSE Absent(s),
         file' = file, UNCHANGED dockerVars, UNCHANGED activeVars,
         up'[s] \subseteq up[s] \union file[s], ~Exists(s) => up'[s] \subseteq up[s],
         \A n \in file[s] : n \in up[s] \/ n \in Missing(s) => n \in up'[s] \/ n \in Missing(s)'
  PROVE  IF Exists(s)' THEN Present(s)' ELSE Absent(s)'
<1>1. chain' = chain /\ loose' = loose
  BY DEF dockerVars
<1>2. Exists(s)' <=> Exists(s)
  BY ExistsSame
<1>3. LooseOn(s)' = LooseOn(s) /\ Prunes(s)' = Prunes(s) /\ (Busy(s)' <=> Busy(s))
  BY <1>1 DEF LooseOn, Prunes, Busy
<1>4. CASE Exists(s)
  <2>1. up'[s] \subseteq file'[s] \/ Prunes(s)' # {} \/ \E i \in LooseOn(s)' : loose'[i].command.kind = "prune"
    BY <1>1, <1>3, <1>4 DEF Present
  <2>2. ~Busy(s)' => file'[s] \ Missing(s)' \subseteq up'[s]
    BY <1>3, <1>4 DEF Present
  <2>3. Present(s)'
    BY <1>1, <1>3, <1>4, <2>1, <2>2 DEF Present
  <2> QED
    BY <1>2, <1>4, <2>3
<1>5. CASE ~Exists(s)
  BY <1>1, <1>2, <1>3, <1>5 DEF Absent
<1> QED
  BY <1>4, <1>5

LEMMA KillCalm ==
  ASSUME RuntimeInv, RuntimeTypeOK', NEW r \in DOMAIN asked, Kill(r), NEW t \in System \ struck'
  PROVE  Calm(t)'
<1>1. /\ asked[r].stage = "kill" /\ file' = file /\ UNCHANGED dockerVars /\ UNCHANGED activeVars /\ struck' = struck
  BY DEF Kill
<1>2. RuntimeTypeOK /\ Calm(t) /\ RequestsFit
  BY <1>1 DEF RuntimeInv, RuntimeTypeOK
<1>3. PICK s, c : s \in System /\ s = asked[r].system /\ c = asked[r].node
  BY <1>2, RequestIs
<1>4. /\ DOMAIN asked' = DOMAIN asked /\ \A q \in DOMAIN asked \ {r} : asked'[q] = asked[q]
      /\ asked'[r].system = s /\ asked'[r].node = c /\ asked'[r].stage = "killed"
      /\ entry' = entry /\ timers' = timers /\ starting' = starting
      /\ up'[s] = up[s] \ {c} /\ \A u \in System \ {s} : up'[u] = up[u]
  BY <1>2, <1>3, KillIs
<1>5. CASE t # s
  <2>1. SameRun(t)
    BY <1>1, <1>4, <1>5, SameElsewhere
  <2>2. SameOutages(t)
    BY <1>3, <1>4, <1>5 DEF SameOutages
  <2> QED
    BY <1>2, <2>1, <2>2, CalmStays
<1>6. CASE t = s
  <2>1. OutagesOK(s)
    BY <1>2, <1>6 DEF Calm
  <2>2. Missing(s) \subseteq Missing(s)' /\ c \in Missing(s)'
    <3>1. Out(s)' = Out(s)
      BY <1>4 DEF Out
    <3>2. ASSUME NEW q \in DOMAIN asked, asked[q].system = s, asked[q].stage # "set"
          PROVE  asked[q].node \in Missing(s)'
      <4>1. q \in DOMAIN asked' /\ asked'[q].system = s /\ asked'[q].stage # "set" /\ asked'[q].node = asked[q].node
        BY <1>3, <1>4, <3>2
      <4> QED
        BY <4>1 DEF Missing
    <3>3. \A n \in Missing(s) : n \in Missing(s)'
      BY <1>4, <3>1, <3>2 DEF Missing
    <3>4. c \in Missing(s)'
      BY <1>1, <1>3, <3>2
    <3> QED
      BY <3>3, <3>4
  <2>3. ASSUME NEW k \in DOMAIN entry, k[1] = s
        PROVE  /\ k[2] # c
               /\ \A q \in DOMAIN asked' : asked'[q].system = s /\ asked'[q].node = k[2] => asked'[q].stage = "set"
    <3>1. \A q \in DOMAIN asked : asked[q].system = s /\ asked[q].node = k[2] => asked[q].stage = "set"
      BY <2>1, <2>3 DEF OutagesOK
    <3>2. k[2] # c
      BY <1>1, <1>3, <3>1
    <3> QED
      BY <1>4, <3>1, <3>2
  <2>4. ASSUME NEW k \in DOMAIN entry', k[1] = s
        PROVE  /\ entry'[k] \in timers' /\ k[2] \notin up'[s] /\ k \notin starting'
               /\ \A q \in DOMAIN asked' : asked'[q].system = s /\ asked'[q].node = k[2] => asked'[q].stage = "set"
    <3>1. entry[k] \in timers /\ k[2] \notin up[s] /\ k \notin starting
      BY <1>4, <2>1, <2>4 DEF OutagesOK
    <3> QED
      BY <1>4, <2>3, <2>4, <3>1
  <2>5. ASSUME NEW q \in timers', asked'[q].system = s
        PROVE  <<s, asked'[q].node>> \in DOMAIN entry' /\ entry'[<<s, asked'[q].node>>] = q
    <3>1. q \in timers /\ q \in DOMAIN asked
      BY <1>2, <1>4 DEF RequestsFit
    <3>2. asked[q].system = s /\ asked'[q].node = asked[q].node
      BY <1>3, <1>4, <2>5, <3>1
    <3> QED
      BY <1>4, <2>1, <3>1, <3>2 DEF OutagesOK
  <2>6. ASSUME NEW q \in DOMAIN asked', asked'[q].system = s, asked'[q].stage # "set"
        PROVE  /\ <<s, asked'[q].node>> \notin starting'
               /\ asked'[q].stage = "killed" => asked'[q].node \notin up'[s]
               /\ \A x \in DOMAIN asked' : asked'[x].system = s /\ asked'[x].node = asked'[q].node /\ asked'[x].stage # "set" => x = q
    <3>1. \A x \in DOMAIN asked : asked'[x].system = asked[x].system /\ asked'[x].node = asked[x].node
                                  /\ (asked'[x].stage # "set" => asked[x].stage # "set")
      BY <1>1, <1>3, <1>4
    <3>2. q \in DOMAIN asked /\ asked[q].system = s /\ asked[q].stage # "set" /\ asked'[q].node = asked[q].node
      BY <1>4, <2>6, <3>1
    <3>3. /\ <<s, asked[q].node>> \notin starting
          /\ asked[q].stage = "killed" => asked[q].node \notin up[s]
          /\ \A x \in DOMAIN asked : asked[x].system = s /\ asked[x].node = asked[q].node /\ asked[x].stage # "set" => x = q
      BY <2>1, <3>2 DEF OutagesOK
    <3>4. asked'[q].stage = "killed" => asked'[q].node \notin up'[s]
      <4>1. CASE q = r
        BY <1>4, <4>1
      <4>2. CASE q # r
        BY <1>4, <3>2, <3>3, <4>2
      <4> QED
        BY <4>1, <4>2
    <3> QED
      BY <1>4, <3>1, <3>2, <3>3, <3>4
  <2>7. OutagesOK(s)'
    BY <2>4, <2>5, <2>6 DEF OutagesOK
  <2>8. IF Exists(s)' THEN Present(s)' ELSE Absent(s)'
    BY <1>1, <1>2, <1>4, <1>6, <2>2, UpMoves DEF Calm
  <2> QED
    BY <1>6, <2>7, <2>8 DEF Calm
<1> QED
  BY <1>5, <1>6

LEMMA KilledCalm ==
  ASSUME RuntimeInv, RuntimeTypeOK', NEW r \in DOMAIN asked, Killed(r), NEW t \in System \ struck'
  PROVE  Calm(t)'
<1>1. /\ asked[r].stage = "killed" /\ timers' = timers \union {r} /\ starting' = starting
      /\ file' = file /\ up' = up /\ UNCHANGED dockerVars /\ UNCHANGED activeVars /\ struck' = struck
  BY DEF Killed
<1>2. RuntimeTypeOK /\ Calm(t) /\ RequestsFit
  BY <1>1 DEF RuntimeInv, RuntimeTypeOK
<1>3. PICK s, c : s \in System /\ s = asked[r].system /\ c = asked[r].node
  BY <1>2, RequestIs
<1>4. PICK k : k = <<s, c>>
  OBVIOUS
<1>5. /\ DOMAIN asked' = DOMAIN asked /\ \A q \in DOMAIN asked \ {r} : asked'[q] = asked[q]
      /\ asked'[r].system = s /\ asked'[r].node = c /\ asked'[r].stage = "set"
      /\ \A x : x \in DOMAIN entry' <=> x \in DOMAIN entry \/ x = k
      /\ entry'[k] = r /\ \A x \in DOMAIN entry \ {k} : entry'[x] = entry[x]
      /\ k[1] = s /\ k[2] = c
  BY <1>2, <1>3, <1>4, KilledFits
<1>6. SameRun(t)
  BY <1>1, SameElsewhere
<1>7. CASE t # s
  <2>1. SameOutages(t)
    BY <1>1, <1>3, <1>5, <1>7 DEF SameOutages
  <2> QED
    BY <1>2, <1>6, <2>1, CalmStays
<1>8. CASE t = s
  <2>1. OutagesOK(s)
    BY <1>2, <1>8 DEF Calm
  <2>2. /\ k \notin starting /\ c \notin up[s]
        /\ \A q \in DOMAIN asked : asked[q].system = s /\ asked[q].node = c /\ asked[q].stage # "set" => q = r
    BY <1>1, <1>3, <1>4, <2>1 DEF OutagesOK
  <2>3. k \notin DOMAIN entry
    BY <1>1, <1>3, <1>5, <2>1 DEF OutagesOK
  <2>4. Missing(s) \subseteq Missing(s)'
    <3>1. ASSUME NEW x \in DOMAIN entry', x[1] = s
          PROVE  x[2] \in Missing(s)'
      BY <3>1 DEF Missing, Out
    <3>2. \A n \in Out(s) : n \in Missing(s)'
      BY <1>5, <3>1 DEF Out
    <3>3. ASSUME NEW q \in DOMAIN asked, asked[q].system = s, asked[q].stage # "set"
          PROVE  asked[q].node \in Missing(s)'
      <4>1. CASE q = r
        BY <1>3, <1>5, <3>1, <4>1
      <4>2. CASE q # r
        BY <1>5, <3>3, <4>2 DEF Missing
      <4> QED
        BY <4>1, <4>2
    <3>4. \A x \in starting : x[1] = s => x[2] \in Missing(s)'
      BY <1>1 DEF Missing
    <3>5. ASSUME NEW n \in Missing(s)
          PROVE  n \in Missing(s)'
      BY <3>2, <3>3, <3>4, <3>5 DEF Missing
    <3> QED
      BY <3>5
  <2>5. ASSUME NEW x \in DOMAIN entry', x[1] = s
        PROVE  /\ entry'[x] \in timers' /\ x[2] \notin up'[s] /\ x \notin starting'
               /\ \A q \in DOMAIN asked' : asked'[q].system = s /\ asked'[q].node = x[2] => asked'[q].stage = "set"
    <3>1. CASE x = k
      <4>1. \A q \in DOMAIN asked' : asked'[q].system = s /\ asked'[q].node = c => asked'[q].stage = "set"
        BY <1>5, <2>2
      <4> QED
        BY <1>1, <1>5, <2>2, <3>1, <4>1
    <3>2. CASE x # k
      <4>1. x \in DOMAIN entry /\ entry'[x] = entry[x]
        BY <1>5, <3>2
      <4>2. /\ entry[x] \in timers /\ x[2] \notin up[s] /\ x \notin starting
            /\ \A q \in DOMAIN asked : asked[q].system = s /\ asked[q].node = x[2] => asked[q].stage = "set"
        BY <2>1, <2>5, <4>1 DEF OutagesOK
      <4> QED
        BY <1>1, <1>5, <4>1, <4>2
    <3> QED
      BY <3>1, <3>2
  <2>6. ASSUME NEW q \in timers', asked'[q].system = s
        PROVE  <<s, asked'[q].node>> \in DOMAIN entry' /\ entry'[<<s, asked'[q].node>>] = q
    <3>1. CASE q = r
      BY <1>4, <1>5, <3>1
    <3>2. CASE q # r
      <4>1. q \in timers /\ q \in DOMAIN asked /\ asked'[q] = asked[q]
        BY <1>1, <1>2, <1>5, <3>2 DEF RequestsFit
      <4>2. <<s, asked[q].node>> \in DOMAIN entry /\ entry[<<s, asked[q].node>>] = q
        BY <2>1, <2>6, <4>1 DEF OutagesOK
      <4> QED
        BY <1>5, <2>3, <4>1, <4>2
    <3> QED
      BY <3>1, <3>2
  <2>7. ASSUME NEW q \in DOMAIN asked', asked'[q].system = s, asked'[q].stage # "set"
        PROVE  /\ <<s, asked'[q].node>> \notin starting'
               /\ asked'[q].stage = "killed" => asked'[q].node \notin up'[s]
               /\ \A x \in DOMAIN asked' : asked'[x].system = s /\ asked'[x].node = asked'[q].node /\ asked'[x].stage # "set" => x = q
    <3>1. q \in DOMAIN asked /\ q # r /\ asked'[q] = asked[q]
      BY <1>5, <2>7
    <3>2. /\ <<s, asked[q].node>> \notin starting
          /\ asked[q].stage = "killed" => asked[q].node \notin up[s]
          /\ \A x \in DOMAIN asked : asked[x].system = s /\ asked[x].node = asked[q].node /\ asked[x].stage # "set" => x = q
      BY <2>1, <2>7, <3>1 DEF OutagesOK
    <3> QED
      BY <1>1, <1>5, <3>1, <3>2
  <2>8. OutagesOK(s)'
    BY <2>5, <2>6, <2>7 DEF OutagesOK
  <2>9. IF Exists(s)' THEN Present(s)' ELSE Absent(s)'
    BY <1>2, <1>6, <1>8, <2>4, RunStays DEF Calm
  <2> QED
    BY <1>8, <2>8, <2>9 DEF Calm
<1> QED
  BY <1>7, <1>8

\* A kill that failed leaves its node up, or the system is struck.
LEMMA KillFailsCalm ==
  ASSUME RuntimeInv, RuntimeTypeOK', NEW r \in DOMAIN asked, KillFails(r), NEW t \in System \ struck'
  PROVE  Calm(t)'
<1>1. /\ asked[r].stage # "set" /\ entry' = entry /\ timers' = timers /\ starting' = starting
      /\ file' = file /\ up' = up /\ UNCHANGED dockerVars /\ UNCHANGED activeVars /\ struck \subseteq struck'
      /\ asked[r].node \notin up[asked[r].system] => asked[r].system \in struck'
  BY DEF KillFails
<1>2. RuntimeTypeOK /\ Calm(t) /\ RequestsFit
  BY <1>1 DEF RuntimeInv, RuntimeTypeOK
<1>3. PICK s, c : s \in System /\ s = asked[r].system /\ c = asked[r].node
  BY <1>2, RequestIs
<1>4. /\ DOMAIN asked' = DOMAIN asked /\ \A q \in DOMAIN asked \ {r} : asked'[q] = asked[q]
      /\ asked'[r].system = s /\ asked'[r].node = c /\ asked'[r].stage = "set"
  BY <1>2, <1>3, KillFailsIs
<1>5. CASE t # s
  <2>1. SameRun(t)
    BY <1>1, SameElsewhere
  <2>2. SameOutages(t)
    BY <1>1, <1>3, <1>4, <1>5 DEF SameOutages
  <2> QED
    BY <1>2, <2>1, <2>2, CalmStays
<1>6. CASE t = s
  <2>1. OutagesOK(s) /\ c \in up[s]
    BY <1>1, <1>2, <1>3, <1>6 DEF Calm
  <2>2. \A n \in Missing(s) : n = c \/ n \in Missing(s)'
    <3>1. Out(s)' = Out(s)
      BY <1>1 DEF Out
    <3>2. ASSUME NEW q \in DOMAIN asked, asked[q].system = s, asked[q].stage # "set", asked[q].node # c
          PROVE  asked[q].node \in Missing(s)'
      <4>1. q # r /\ q \in DOMAIN asked' /\ asked'[q] = asked[q]
        BY <1>3, <1>4, <3>2
      <4> QED
        BY <3>2, <4>1 DEF Missing
    <3>3. \A x \in starting : x[1] = s => x[2] \in Missing(s)'
      BY <1>1 DEF Missing
    <3>4. ASSUME NEW n \in Missing(s), n # c
          PROVE  n \in Missing(s)'
      <4>1. \A m \in Out(s) : m \in Missing(s)'
        BY <3>1 DEF Missing
      <4> QED
        BY <3>2, <3>3, <3>4, <4>1 DEF Missing
    <3> QED
      BY <3>4
  <2>3. \A q \in DOMAIN asked' : /\ q \in DOMAIN asked /\ asked'[q].system = asked[q].system /\ asked'[q].node = asked[q].node
                                 /\ asked'[q].stage # "set" => asked'[q] = asked[q]
                                 /\ asked[q].stage = "set" => asked'[q].stage = "set"
    BY <1>3, <1>4
  <2>4. ASSUME NEW k \in DOMAIN entry', k[1] = s
        PROVE  /\ entry'[k] \in timers' /\ k[2] \notin up'[s] /\ k \notin starting'
               /\ \A q \in DOMAIN asked' : asked'[q].system = s /\ asked'[q].node = k[2] => asked'[q].stage = "set"
    <3>1. /\ entry[k] \in timers /\ k[2] \notin up[s] /\ k \notin starting
          /\ \A q \in DOMAIN asked : asked[q].system = s /\ asked[q].node = k[2] => asked[q].stage = "set"
      BY <1>1, <2>1, <2>4 DEF OutagesOK
    <3> QED
      BY <1>1, <2>3, <3>1
  <2>5. ASSUME NEW q \in timers', asked'[q].system = s
        PROVE  <<s, asked'[q].node>> \in DOMAIN entry' /\ entry'[<<s, asked'[q].node>>] = q
    <3>1. q \in timers /\ q \in DOMAIN asked
      BY <1>1, <1>2 DEF RequestsFit
    <3>2. asked[q].system = s /\ asked'[q].node = asked[q].node
      BY <1>4, <2>3, <2>5, <3>1
    <3> QED
      BY <1>1, <2>1, <3>1, <3>2 DEF OutagesOK
  <2>6. ASSUME NEW q \in DOMAIN asked', asked'[q].system = s, asked'[q].stage # "set"
        PROVE  /\ <<s, asked'[q].node>> \notin starting'
               /\ asked'[q].stage = "killed" => asked'[q].node \notin up'[s]
               /\ \A x \in DOMAIN asked' : asked'[x].system = s /\ asked'[x].node = asked'[q].node /\ asked'[x].stage # "set" => x = q
    <3>1. q \in DOMAIN asked /\ asked'[q] = asked[q]
      BY <2>3, <2>6
    <3>2. /\ <<s, asked[q].node>> \notin starting
          /\ asked[q].stage = "killed" => asked[q].node \notin up[s]
          /\ \A x \in DOMAIN asked : asked[x].system = s /\ asked[x].node = asked[q].node /\ asked[x].stage # "set" => x = q
      BY <2>1, <2>6, <3>1 DEF OutagesOK
    <3> QED
      BY <1>1, <2>3, <3>1, <3>2
  <2>7. OutagesOK(s)'
    BY <2>4, <2>5, <2>6 DEF OutagesOK
  <2>8. IF Exists(s)' THEN Present(s)' ELSE Absent(s)'
    <3>1. \A n \in file[s] : n \in up[s] \/ n \in Missing(s) => n \in up'[s] \/ n \in Missing(s)'
      BY <1>1, <2>1, <2>2
    <3>2. up'[s] \subseteq up[s] \union file[s] /\ up'[s] \subseteq up[s]
      BY <1>1
    <3>3. IF Exists(s) THEN Present(s) ELSE Absent(s)
      BY <1>2, <1>6 DEF Calm
    <3> QED
      BY <1>1, <1>2, <1>3, <3>1, <3>2, <3>3, UpMoves
  <2> QED
    BY <1>6, <2>7, <2>8 DEF Calm
<1> QED
  BY <1>5, <1>6

\* A node given back, in its system and in another.
LEMMA RestoredCalm ==
  ASSUME RuntimeTypeOK, RuntimeTypeOK', NEW k \in DOMAIN entry, Restored(k, entry[k]), NEW t \in System, Calm(t),
         file' = file, up' = up, UNCHANGED dockerVars, UNCHANGED activeVars
  PROVE  Calm(t)'
<1>1. RequestsFit
  BY DEF RuntimeTypeOK
<1>2. PICK r, s, c : r = entry[k] /\ s = k[1] /\ c = k[2]
  OBVIOUS
<1>3. /\ r \in DOMAIN asked /\ k = <<s, c>> /\ k \in System \X Container
      /\ asked[r].system = s /\ asked[r].node = c
  BY <1>1, <1>2, EntryIs
<1>4. Restored(k, r)
  BY <1>2
<1>5. /\ \A x : x \in DOMAIN entry' <=> x \in DOMAIN entry /\ x # k
      /\ \A x \in DOMAIN entry' : entry'[x] = entry[x]
  BY <1>1, <1>3, <1>4, RestoredFits
<1>6. timers' = timers \ {r} /\ starting' = starting \union {k} /\ asked' = asked
  BY <1>4 DEF Restored
<1>7. SameRun(t)
  BY SameElsewhere
<1>8. CASE t # s
  <2>1. SameOutages(t)
    BY <1>2, <1>3, <1>5, <1>6, <1>8 DEF SameOutages
  <2> QED
    BY <1>7, <2>1, CalmStays
<1>9. CASE t = s
  <2>1. OutagesOK(s)
    BY <1>9 DEF Calm
  <2>2. \A q \in DOMAIN asked : asked[q].system = s /\ asked[q].node = c => asked[q].stage = "set"
    BY <1>2, <2>1 DEF OutagesOK
  <2>3. Missing(s) \subseteq Missing(s)'
    <3>1. ASSUME NEW x \in DOMAIN entry, x[1] = s
          PROVE  x[2] \in Missing(s)'
      <4>1. CASE x = k
        BY <1>2, <1>6, <4>1 DEF Missing
      <4>2. CASE x # k
        BY <1>5, <3>1, <4>2 DEF Missing, Out
      <4> QED
        BY <4>1, <4>2
    <3>2. \A n \in Out(s) : n \in Missing(s)'
      BY <3>1 DEF Out
    <3>3. \A q \in DOMAIN asked : asked[q].system = s /\ asked[q].stage # "set" => asked[q].node \in Missing(s)'
      BY <1>6 DEF Missing
    <3>4. \A x \in starting : x[1] = s => x[2] \in Missing(s)'
      BY <1>6 DEF Missing
    <3>5. ASSUME NEW n \in Missing(s)
          PROVE  n \in Missing(s)'
      BY <3>2, <3>3, <3>4, <3>5 DEF Missing
    <3> QED
      BY <3>5
  <2>4. ASSUME NEW x \in DOMAIN entry', x[1] = s
        PROVE  /\ entry'[x] \in timers' /\ x[2] \notin up'[s] /\ x \notin starting'
               /\ \A q \in DOMAIN asked' : asked'[q].system = s /\ asked'[q].node = x[2] => asked'[q].stage = "set"
    <3>1. x \in DOMAIN entry /\ x # k /\ entry'[x] = entry[x]
      BY <1>5
    <3>2. /\ entry[x] \in timers /\ x[2] \notin up[s] /\ x \notin starting
          /\ \A q \in DOMAIN asked : asked[q].system = s /\ asked[q].node = x[2] => asked[q].stage = "set"
      BY <2>1, <2>4, <3>1 DEF OutagesOK
    <3>3. entry[x] # r
      <4>1. x = <<asked[entry[x]].system, asked[entry[x]].node>>
        BY <1>1, <3>1 DEF RequestsFit
      <4> QED
        BY <1>3, <3>1, <4>1
    <3> QED
      BY <1>6, <3>1, <3>2, <3>3
  <2>5. ASSUME NEW q \in timers', asked'[q].system = s
        PROVE  <<s, asked'[q].node>> \in DOMAIN entry' /\ entry'[<<s, asked'[q].node>>] = q
    <3>1. q \in timers /\ q # r /\ asked[q].system = s
      BY <1>6, <2>5
    <3>2. <<s, asked[q].node>> \in DOMAIN entry /\ entry[<<s, asked[q].node>>] = q
      BY <2>1, <3>1 DEF OutagesOK
    <3>3. <<s, asked[q].node>> # k
      BY <1>2, <3>1, <3>2
    <3> QED
      BY <1>5, <1>6, <3>2, <3>3
  <2>6. ASSUME NEW q \in DOMAIN asked', asked'[q].system = s, asked'[q].stage # "set"
        PROVE  /\ <<s, asked'[q].node>> \notin starting'
               /\ asked'[q].stage = "killed" => asked'[q].node \notin up'[s]
               /\ \A x \in DOMAIN asked' : asked'[x].system = s /\ asked'[x].node = asked'[q].node /\ asked'[x].stage # "set" => x = q
    <3>1. q \in DOMAIN asked /\ asked[q].system = s /\ asked[q].stage # "set"
      BY <1>6, <2>6
    <3>2. asked[q].node # c
      BY <2>2, <3>1
    <3>3. <<s, asked[q].node>> # k
      BY <1>3, <3>2
    <3>4. /\ <<s, asked[q].node>> \notin starting
          /\ asked[q].stage = "killed" => asked[q].node \notin up[s]
          /\ \A x \in DOMAIN asked : asked[x].system = s /\ asked[x].node = asked[q].node /\ asked[x].stage # "set" => x = q
      BY <2>1, <3>1 DEF OutagesOK
    <3> QED
      BY <1>6, <3>3, <3>4
  <2>7. OutagesOK(s)'
    BY <2>4, <2>5, <2>6 DEF OutagesOK
  <2>8. IF Exists(s)' THEN Present(s)' ELSE Absent(s)'
    BY <1>7, <1>9, <2>3, RunStays DEF Calm
  <2> QED
    BY <1>9, <2>7, <2>8 DEF Calm
<1> QED
  BY <1>8, <1>9

LEMMA EndOutageCalm ==
  ASSUME RuntimeInv, RuntimeTypeOK', NEW s \in System, NEW c \in Container, EndOutage(s, c), NEW t \in System \ struck'
  PROVE  Calm(t)'
<1>1. /\ file' = file /\ up' = up /\ UNCHANGED dockerVars /\ UNCHANGED activeVars /\ t \notin struck
  BY DEF EndOutage
<1>2. RuntimeTypeOK /\ Calm(t)
  BY <1>1 DEF RuntimeInv
<1>3. PICK k \in DOMAIN entry : k = <<s, c>>
  BY EndOutageIs
<1>4. Restored(k, entry[k])
  BY <1>3, EndOutageIs
<1> QED
  BY <1>1, <1>2, <1>4, RestoredCalm

LEMMA TimeUpCalm ==
  ASSUME RuntimeInv, RuntimeTypeOK', NEW r \in DOMAIN asked, TimeUp(r), NEW t \in System \ struck'
  PROVE  Calm(t)'
<1>1. /\ r \in timers /\ timers' = timers \ {r} /\ asked' = asked
      /\ file' = file /\ up' = up /\ UNCHANGED dockerVars /\ UNCHANGED activeVars /\ t \notin struck
  BY DEF TimeUp
<1>2. RuntimeTypeOK /\ Calm(t) /\ RequestsFit
  BY <1>1 DEF RuntimeInv, RuntimeTypeOK
<1>3. PICK s, c, k : s \in System /\ s = asked[r].system /\ c = asked[r].node /\ k = <<s, c>>
  BY <1>2, RequestIs
<1>4. /\ starting' = starting \union {k} /\ k[1] = s
      /\ entry' = IF k \in DOMAIN entry /\ entry[k] = r THEN Forget(entry, k) ELSE entry
  BY <1>3 DEF TimeUp
<1>5. CASE t = s
  <2>1. k \in DOMAIN entry /\ entry[k] = r
    BY <1>1, <1>2, <1>3, <1>5 DEF Calm, OutagesOK
  <2>2. Restored(k, entry[k])
    BY <1>1, <1>4, <2>1 DEF Restored
  <2> QED
    BY <1>1, <1>2, <2>1, <2>2, RestoredCalm
<1>6. CASE t # s
  <2>1. /\ \A x : x[1] = t => (x \in DOMAIN entry' <=> x \in DOMAIN entry)
        /\ \A x : x[1] = t /\ x \in DOMAIN entry => entry'[x] = entry[x]
    <3>1. CASE entry' = entry
      BY <3>1
    <3>2. CASE entry' = Forget(entry, k)
      <4>1. entry' = [x \in DOMAIN entry \ {k} |-> entry[x]]
        BY <3>2 DEF Forget
      <4> QED
        BY <1>4, <1>6, <4>1
    <3> QED
      BY <1>4, <3>1, <3>2
  <2>2. SameOutages(t)
    BY <1>1, <1>3, <1>4, <1>6, <2>1 DEF SameOutages
  <2>3. SameRun(t)
    BY <1>1, SameElsewhere
  <2> QED
    BY <1>2, <2>2, <2>3, CalmStays
<1> QED
  BY <1>5, <1>6

LEMMA StartedCalm ==
  ASSUME RuntimeInv, RuntimeTypeOK', NEW k \in starting, Started(k), NEW t \in System \ struck'
  PROVE  Calm(t)'
<1>1. /\ starting' = starting \ {k} /\ entry' = entry /\ timers' = timers /\ asked' = asked
      /\ file' = file /\ UNCHANGED dockerVars /\ UNCHANGED activeVars /\ t \notin struck
  BY DEF Started
<1>2. RuntimeTypeOK /\ Calm(t) /\ RequestsFit
  BY <1>1 DEF RuntimeInv, RuntimeTypeOK
<1>3. PICK s, c : s = k[1] /\ c = k[2]
  OBVIOUS
<1>4. /\ s \in System /\ k = <<s, c>>
      /\ up'[s] = up[s] \union (IF c \in file[s] /\ Exists(s) THEN {c} ELSE {})
      /\ \A u \in System \ {s} : up'[u] = up[u]
  BY <1>2, <1>3, StartedIs
<1>5. CASE t # s
  <2>1. SameRun(t)
    BY <1>1, <1>4, <1>5, SameElsewhere
  <2>2. SameOutages(t)
    BY <1>1, <1>3, <1>5 DEF SameOutages
  <2> QED
    BY <1>2, <2>1, <2>2, CalmStays
<1>6. CASE t = s
  <2>1. OutagesOK(s)
    BY <1>2, <1>6 DEF Calm
  <2>2. ASSUME NEW n \in Missing(s), n # c
        PROVE  n \in Missing(s)'
    <3>1. CASE n \in Out(s)
      BY <1>1, <3>1 DEF Missing, Out
    <3>2. CASE n \in {asked[q].node : q \in {x \in DOMAIN asked : asked[x].system = s /\ asked[x].stage # "set"}}
      BY <1>1, <3>2 DEF Missing
    <3>3. CASE n \in {x[2] : x \in {y \in starting : y[1] = s}}
      BY <1>1, <1>3, <2>2, <3>3 DEF Missing
    <3> QED
      BY <3>1, <3>2, <3>3 DEF Missing
  <2>3. \A n \in file[s] : n \in up[s] \/ n \in Missing(s) => n \in up'[s] \/ n \in Missing(s)' \/ ~Exists(s)
    BY <1>4, <2>2
  <2>4. IF Exists(s)' THEN Present(s)' ELSE Absent(s)'
    <3>1. CASE Exists(s)
      <4>1. up'[s] \subseteq up[s] \union file[s]
        BY <1>4
      <4> QED
        BY <1>1, <1>2, <1>4, <1>6, <2>3, <3>1, <4>1, UpMoves DEF Calm
    <3>2. CASE ~Exists(s)
      <4>1. up'[s] = up[s]
        BY <1>4, <3>2
      <4>2. SameRun(s)
        BY <1>1, <4>1, SameElsewhere
      <4>3. Absent(s)
        BY <1>2, <1>6, <3>2 DEF Calm
      <4>4. ~Exists(s)' /\ chain'[s] = chain[s]
        BY <3>2, <4>2 DEF SameRun
      <4>5. LooseOn(s)' = {}
        BY <4>2, <4>3 DEF SameRun, SameLoose, Absent
      <4> QED
        BY <1>1, <4>1, <4>3, <4>4, <4>5 DEF Absent
    <3> QED
      BY <3>1, <3>2
  <2>5. ASSUME NEW x \in DOMAIN entry', x[1] = s
        PROVE  /\ entry'[x] \in timers' /\ x[2] \notin up'[s] /\ x \notin starting'
               /\ \A q \in DOMAIN asked' : asked'[q].system = s /\ asked'[q].node = x[2] => asked'[q].stage = "set"
    <3>1. /\ entry[x] \in timers /\ x[2] \notin up[s] /\ x \notin starting
          /\ \A q \in DOMAIN asked : asked[q].system = s /\ asked[q].node = x[2] => asked[q].stage = "set"
      BY <1>1, <2>1, <2>5 DEF OutagesOK
    <3>2. x = <<s, x[2]>>
      BY <1>1, <1>2, <2>5, EntryIs
    <3>3. x[2] # c
      BY <1>4, <3>1, <3>2
    <3> QED
      BY <1>1, <1>4, <3>1, <3>3
  <2>6. ASSUME NEW q \in DOMAIN asked', asked'[q].system = s, asked'[q].stage # "set"
        PROVE  /\ <<s, asked'[q].node>> \notin starting'
               /\ asked'[q].stage = "killed" => asked'[q].node \notin up'[s]
               /\ \A x \in DOMAIN asked' : asked'[x].system = s /\ asked'[x].node = asked'[q].node /\ asked'[x].stage # "set" => x = q
    <3>1. /\ <<s, asked[q].node>> \notin starting
          /\ asked[q].stage = "killed" => asked[q].node \notin up[s]
          /\ \A x \in DOMAIN asked : asked[x].system = s /\ asked[x].node = asked[q].node /\ asked[x].stage # "set" => x = q
      BY <1>1, <2>1, <2>6 DEF OutagesOK
    <3>2. asked[q].node # c
      BY <1>4, <3>1
    <3> QED
      BY <1>1, <1>4, <3>1, <3>2
  <2>7. \A q \in timers' : asked'[q].system = s =>
          <<s, asked'[q].node>> \in DOMAIN entry' /\ entry'[<<s, asked'[q].node>>] = q
    BY <1>1, <2>1 DEF OutagesOK
  <2>8. OutagesOK(s)'
    BY <2>5, <2>6, <2>7 DEF OutagesOK
  <2> QED
    BY <1>6, <2>4, <2>8 DEF Calm
<1> QED
  BY <1>5, <1>6

LEMMA ShutdownCalm ==
  ASSUME RuntimeInv, RuntimeTypeOK', Shutdown, NEW t \in System \ struck'
  PROVE  Calm(t)'
<1>1. /\ file' = file /\ up' = up /\ marker' = marker /\ starting' = starting \union DOMAIN entry
      /\ step' = "idle" /\ t \notin struck /\ ~Busy(t) /\ step = "idle"
      /\ \A r \in DOMAIN asked : asked[r].stage # "set" => asked[r].system # t
  BY DEF Shutdown
<1>2. RuntimeTypeOK /\ Calm(t)
  BY <1>1 DEF RuntimeInv
<1>3. /\ DOMAIN asked' = DOMAIN asked /\ DOMAIN entry' = {} /\ timers' = {}
      /\ \A r \in DOMAIN asked : asked'[r].system = asked[r].system /\ asked'[r].node = asked[r].node /\ asked'[r].stage = "set"
      /\ \A s \in System : chain'[s] = <<>>
      /\ loose' = <<>> /\ DOMAIN loose' = {}
  BY <1>2, ShutdownFits
<1>4. chain[t] = <<>> /\ LooseOn(t) = {}
  BY <1>1 DEF Busy, LooseOn
<1>5. SameLoose(t)
  BY <1>3, <1>4 DEF SameLoose, LooseOn
<1>6. Exists(t)' <=> Exists(t)
  BY <1>1 DEF Exists
<1>7. SameRun(t)
  BY <1>1, <1>3, <1>4, <1>5, <1>6 DEF SameRun
<1>8. Missing(t) \subseteq Missing(t)'
  <2>1. \A x \in starting' : x[1] = t => x[2] \in Missing(t)'
    BY DEF Missing
  <2>2. ASSUME NEW n \in Missing(t)
        PROVE  n \in Missing(t)'
    BY <1>1, <2>1, <2>2 DEF Missing, Out
  <2> QED
    BY <2>2
<1>9. OutagesOK(t)'
  BY <1>3 DEF OutagesOK
<1>10. IF Exists(t)' THEN Present(t)' ELSE Absent(t)'
  BY <1>2, <1>7, <1>8, RunStays DEF Calm
<1> QED
  BY <1>9, <1>10 DEF Calm

-----------------------------------------------------------------------------
(* Runtime: the invariant holds. *)

LEMMA CalmStep ==
  ASSUME RuntimeInv, RuntimeTypeOK', RuntimeNext, NEW t \in System \ struck'
  PROVE  Calm(t)'
<1>0. FilesFit
  BY DEF RuntimeInv, RuntimeTypeOK
<1>1. ASSUME NEW s \in System, NEW c \in Container, AddService(s, c) \/ ScaleIn(s, c)
      PROVE  Calm(t)'
  BY <1>0, <1>1, EditsAre, LockedCalm
<1>2. ASSUME NEW s \in System, NEW c \in Container, AddDatabase(s, c) \/ DeleteNode(s, c)
      PROVE  Calm(t)'
  BY <1>0, <1>2, EditsAre, UnlockedCalm
<1>3. ASSUME NEW s \in System, ResetSystem(s) \/ Begin(s) \/ End(s) \/ Fail(s) \/ Activate(s)
      PROVE  Calm(t)'
  BY <1>3, ResetCalm, BeginCalm, EndCalm, FailCalm, ActivateCalm
<1>4. ASSUME NEW i \in DOMAIN loose, BeginLoose(i) \/ EndLoose(i)
      PROVE  Calm(t)'
  BY <1>4, BeginLooseCalm, EndLooseCalm
<1>5. ASSUME NEW r \in DOMAIN asked, Kill(r) \/ Killed(r) \/ KillFails(r) \/ TimeUp(r)
      PROVE  Calm(t)'
  BY <1>5, KillCalm, KilledCalm, KillFailsCalm, TimeUpCalm
<1>6. ASSUME NEW s \in System, NEW c \in Container, EndOutage(s, c) \/ \E r \in OutageId : StartOutage(r, s, c)
      PROVE  Calm(t)'
  BY <1>6, EndOutageCalm, StartOutageCalm
<1>7. ASSUME NEW k \in starting, Started(k)
      PROVE  Calm(t)'
  BY <1>7, StartedCalm
<1> QED
  BY <1>1, <1>2, <1>3, <1>4, <1>5, <1>6, <1>7, BeginActivationCalm, BringUpCalm, ShutdownCalm DEF RuntimeNext

LEMMA InvStep ==
  ASSUME RuntimeInv, [RuntimeNext]_runtimeVars
  PROVE  RuntimeInv'
<1>1. CASE RuntimeNext
  <2>1. RuntimeTypeOK' /\ ActivationsOK'
    BY <1>1, TypeStep, ApartStep DEF RuntimeInv
  <2> QED
    BY <1>1, <2>1, CalmStep DEF RuntimeInv
<1>2. CASE UNCHANGED runtimeVars
  <2>1. /\ file' = file /\ up' = up /\ chain' = chain /\ loose' = loose /\ UNCHANGED activeVars /\ UNCHANGED outageVars
        /\ struck' = struck
    BY <1>2 DEF runtimeVars, activeVars, outageVars
  <2>2. RuntimeTypeOK' /\ ActivationsOK'
    <3>1. CommandsFit'
      BY <2>1 DEF RuntimeInv, RuntimeTypeOK, CommandsFit
    <3>2. RuntimeTypeOK'
      BY <2>1, <3>1, FilesKept, ActiveKept, RequestsKept DEF RuntimeInv, RuntimeTypeOK
    <3> QED
      BY <2>1, <3>2, ChainsKept, LooseKept DEF RuntimeInv, ActivationsOK
  <2>3. ASSUME NEW t \in System \ struck'
        PROVE  Calm(t)'
    <3>1. SameRun(t)
      BY <2>1, LooseSame, ExistsSame DEF SameRun
    <3> QED
      BY <2>1, <2>2, <3>1, OutagesSame, CalmStays DEF RuntimeInv
  <2> QED
    BY <2>2, <2>3 DEF RuntimeInv
<1> QED
  BY <1>1, <1>2

LEMMA InitInv ==
  ASSUME RuntimeInit
  PROVE  RuntimeInv
<1>1. /\ chain = [s \in System |-> <<>>] /\ loose = <<>> /\ activations = <<>> /\ step = "idle"
      /\ entry = <<>> /\ timers = {} /\ asked = <<>> /\ starting = {} /\ struck = {}
      /\ up = [s \in System |-> IF s = marker THEN file[s] ELSE {}]
  BY DEF RuntimeInit
<1>2. /\ marker \in System \union {NoSystem}
      /\ file \in [System -> SUBSET Container] /\ \A s \in System : Lb \in file[s]
  BY SetupsAreSystems DEF RuntimeInit
<1>3. DOMAIN entry = {} /\ DOMAIN asked = {} /\ DOMAIN loose = {} /\ \A s \in System : chain[s] = <<>> /\ DOMAIN chain[s] = {}
  BY <1>1
<1>4. RuntimeTypeOK
  <2>1. FilesFit
    BY <1>1, <1>2 DEF FilesFit
  <2>2. CommandsFit
    BY <1>1, EmptySeq DEF CommandsFit
  <2>3. ActiveFit
    BY <1>1, <1>2, EmptySeq DEF ActiveFit
  <2>4. RequestsFit
    BY <1>1, <1>3 DEF RequestsFit
  <2> QED
    BY <2>1, <2>2, <2>3, <2>4 DEF RuntimeTypeOK
<1>5. ActivationsOK
  BY <1>1, <1>3 DEF ActivationsOK, StepOK, ChainOK, OneActivation, LooseOK
<1>6. ASSUME NEW s \in System
      PROVE  Calm(s)
  <2>1. OutagesOK(s)
    BY <1>1, <1>3 DEF OutagesOK
  <2>2. LooseOn(s) = {} /\ (Exists(s) <=> marker = s)
    BY <1>1, <1>3 DEF LooseOn, Exists
  <2>3. CASE marker = s
    <3>1. up[s] = file[s]
      BY <1>1, <2>3
    <3>2. Present(s)
      BY <1>3, <2>2, <3>1 DEF Present
    <3> QED
      BY <2>1, <2>2, <2>3, <3>2 DEF Calm
  <2>4. CASE marker # s
    <3>1. up[s] = {}
      BY <1>1, <2>4
    <3>2. Absent(s)
      BY <1>3, <2>2, <3>1 DEF Absent
    <3> QED
      BY <2>1, <2>2, <2>4, <3>2 DEF Calm
  <2> QED
    BY <2>3, <2>4
<1> QED
  BY <1>4, <1>5, <1>6 DEF RuntimeInv

LEMMA InvImplies ==
  ASSUME RuntimeInv
  PROVE  RunsWhatIsDeclared
<1>1. SUFFICES ASSUME NEW s \in System \ struck
               PROVE  /\ Settled(s) => up[s] = IF marker = s THEN file[s] \ Out(s) ELSE {}
                      /\ \A k \in DOMAIN entry : k[1] = s => entry[k] \in timers
  BY DEF RunsWhatIsDeclared
<1>2. RuntimeTypeOK /\ Calm(s) /\ OutagesOK(s)
  BY DEF RuntimeInv, Calm
<1>3. \A k \in DOMAIN entry : k[1] = s => entry[k] \in timers /\ k[2] \notin up[s]
  BY <1>2 DEF OutagesOK
<1>4. ASSUME Settled(s)
      PROVE  up[s] = IF marker = s THEN file[s] \ Out(s) ELSE {}
  <2>1. /\ ~Busy(s) /\ chain[s] = <<>> /\ DOMAIN chain[s] = {} /\ LooseOn(s) = {} /\ step = "idle"
    BY <1>4 DEF Settled, Busy, LooseOn
  <2>2. Exists(s) <=> marker = s
    BY <2>1 DEF Exists
  <2>3. CASE marker = s
    <3>1. Present(s)
      BY <1>2, <2>2, <2>3 DEF Calm
    <3>2. up[s] \subseteq file[s]
      BY <2>1, <3>1 DEF Present, Prunes
    <3>3. Missing(s) \subseteq Out(s)
      BY <1>4 DEF Settled, Missing
    <3>4. file[s] \ Out(s) \subseteq up[s]
      BY <2>1, <3>1, <3>3 DEF Present
    <3>5. \A n \in Out(s) : n \notin up[s]
      BY <1>3 DEF Out
    <3> QED
      BY <2>3, <3>2, <3>4, <3>5
  <2>4. CASE marker # s
    BY <1>2, <2>2, <2>4 DEF Calm, Absent
  <2> QED
    BY <2>3, <2>4
<1> QED
  BY <1>3, <1>4

\* When nothing is under way, the active system runs what its compose file has
\* but for the nodes that are out, the others run nothing, and a node that is
\* out has a timer: whatever edits, activations, outages, docker failures and
\* restarts of the dev server came before, in every system that was not struck.
THEOREM RunsWhatIsDeclaredHolds == RuntimeSpec => []RunsWhatIsDeclared
<1>1. RuntimeInit => RuntimeInv
  BY InitInv
<1>2. RuntimeInv /\ [RuntimeNext]_runtimeVars => RuntimeInv'
  BY InvStep
<1>3. RuntimeInv => RunsWhatIsDeclared
  BY InvImplies
<1> QED
  BY <1>1, <1>2, <1>3, PTL DEF RuntimeSpec
=============================================================================
