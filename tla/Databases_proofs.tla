-------------------------- MODULE Databases_proofs --------------------------
(***************************************************************************)
(* Proofs about the databases that are made and edited from the console.    *)
(*                                                                         *)
(* RedisConfig: the files tell of the same redis containers, of any number  *)
(* of nodes, members and keyspaces, and the roles given stay given.         *)
(*                                                                         *)
(* PostgresConfig: the files of a postgres cluster tell of one cluster,     *)
(* and the member that was written last is kept.                            *)
(*                                                                         *)
(* DbSeeds: the seed entries are those asked for, and their artifact and    *)
(* the rows of the live database follow them.                               *)
(***************************************************************************)
EXTENDS RedisConfig, PostgresConfig, DbSeeds, SequenceTheorems, FiniteSetTheorems, NaturalsInduction,
        WellFoundedInduction, TLAPS

-----------------------------------------------------------------------------
(* Numbers, and removing from a sequence. *)

\* Of some numbers one is the smallest.
LEMMA Minimum ==
  ASSUME NEW S \in SUBSET Nat, S # {}
  PROVE  \E m \in S : \A n \in S : m <= n
<1>1. PICK less : less = {ss \in Nat \X Nat : ss[1] < ss[2]}
  OBVIOUS
<1>2. IsWellFoundedOn(less, Nat)
  BY <1>1, NatLessThanWellFounded DEF OpToRel
<1>3. PICK m \in S : \A n \in S : <<n, m>> \notin less
  BY <1>2, WFMin
<1>4. ASSUME NEW n \in S PROVE m <= n
  <2>1. m \in Nat /\ n \in Nat /\ <<n, m>> \in Nat \X Nat /\ <<n, m>>[1] = n /\ <<n, m>>[2] = m
    OBVIOUS
  <2>2. ~(n < m)
    BY <1>1, <1>3, <2>1
  <2> QED
    BY <2>1, <2>2
<1> QED
  BY <1>4

LEMMA RemoveAtProperties ==
  ASSUME NEW S, NEW s \in Seq(S), NEW i \in 1..Len(s)
  PROVE  /\ RemoveAt(s, i) \in Seq(S)
         /\ Len(RemoveAt(s, i)) = Len(s) - 1
         /\ \A n \in 1..Len(s) - 1 : RemoveAt(s, i)[n] = IF n < i THEN s[n] ELSE s[n + 1]
<1> DEFINE a == SubSeq(s, 1, i - 1)
           b == SubSeq(s, i + 1, Len(s))
<1>1. Len(s) \in Nat /\ \A n \in 1..Len(s) : s[n] \in S
  BY LenProperties, ElementOfSeq
<1>2. a \in Seq(S) /\ Len(a) = i - 1 /\ \A n \in 1..i - 1 : a[n] = s[n]
  BY <1>1, SubSeqProperties
<1>3. b \in Seq(S) /\ Len(b) = Len(s) - i /\ \A n \in 1..Len(s) - i : b[n] = s[i + n]
  BY <1>1, SubSeqProperties
<1> HIDE DEF a, b
<1>4. /\ a \o b \in Seq(S) /\ Len(a \o b) = Len(a) + Len(b)
      /\ \A n \in 1..Len(a) + Len(b) : (a \o b)[n] = IF n <= Len(a) THEN a[n] ELSE b[n - Len(a)]
  BY <1>2, <1>3, ConcatProperties
<1>5. Len(a) + Len(b) = Len(s) - 1
  BY <1>1, <1>2, <1>3
<1>6. ASSUME NEW n \in 1..Len(s) - 1 PROVE (a \o b)[n] = IF n < i THEN s[n] ELSE s[n + 1]
  <2>1. CASE n < i
    BY <1>1, <1>2, <1>4, <1>5, <2>1
  <2>2. CASE n >= i
    <3>1. (a \o b)[n] = b[n - (i - 1)]
      BY <1>1, <1>2, <1>4, <1>5, <2>2
    <3>2. n - (i - 1) \in 1..Len(s) - i /\ i + (n - (i - 1)) = n + 1
      BY <1>1, <2>2
    <3>3. b[n - (i - 1)] = s[i + (n - (i - 1))]
      BY <1>3, <3>2
    <3> QED
      BY <1>1, <2>2, <3>1, <3>2, <3>3
  <2>3. n < i \/ n >= i
    BY <1>1
  <2> QED
    BY <2>1, <2>2, <2>3
<1> QED
  BY <1>4, <1>5, <1>6 DEF RemoveAt, a, b

-----------------------------------------------------------------------------
(* RedisConfig. *)

\* What a node is, and its keyspaces with the services whose roles are declared.
Called == Seq(Word) \ {<<>>}
RoleLists(e) ==
  e = [writers |-> e.writers, readers |-> e.readers, waits |-> e.waits,
       likelyWriters |-> e.likelyWriters, likelyReaders |-> e.likelyReaders]
RolesFit(e, S) ==
  /\ RoleLists(e) /\ e.writers \subseteq S /\ e.readers \subseteq S /\ e.waits \subseteq e.writers
  /\ e.likelyWriters \subseteq S \ e.writers /\ e.likelyReaders \subseteq S \ e.readers
NodeFits(x) ==
  /\ x = [type |-> x.type, parent |-> x.parent, sentinel |-> x.sentinel, members |-> x.members,
          persistence |-> x.persistence, keyspaces |-> x.keyspaces]
  /\ x.type \in {"redis", "service"} /\ x.sentinel \in BOOLEAN /\ x.members \in {0} \union ClusterSizes
  /\ x.sentinel => x.type = "redis" /\ x.members = 0
  /\ x.type = "service" => x.parent = NoParent /\ x.members = 0
  /\ x.type = "service" \/ x.parent # NoParent => DOMAIN x.keyspaces = {}

\* A replica is of a node with sentinels, and is called after it.
ReplicaFits(st, n) ==
  LET p == st[n].parent
  IN /\ ~st[n].sentinel /\ st[n].members = 0
     /\ p \in DOMAIN st /\ st[p].type = "redis" /\ st[p].parent = NoParent /\ st[p].sentinel
     /\ \E i \in DOMAIN Digit : n = Numbered(p, i)
ServicesIn(st) == {n \in DOMAIN st : st[n].type = "service"}
StoreFits(st) ==
  /\ IsFiniteSet(DOMAIN st) /\ DOMAIN st \subseteq Called
  /\ \A n \in DOMAIN st :
       /\ NodeFits(st[n]) /\ (st[n].parent # NoParent => ReplicaFits(st, n))
       /\ \A k \in DOMAIN st[n].keyspaces : RolesFit(st[n].keyspaces[k], ServicesIn(st))
IsPrimary(st, n) == n \in DOMAIN st /\ st[n].type = "redis" /\ st[n].parent = NoParent

\* The containers of a node, those of them that hold keys, and where it is scraped.
Containers(x, n) ==
  IF x.type = "service" THEN {n}
  ELSE IF x.members > 0 THEN {InitOf(n)} \union WithExporters(MembersOf(n, x.members))
  ELSE {n, Append(n, "exporter")} \union (IF x.sentinel THEN SentinelsOf(n) ELSE {})
Keepers(x, n) == IF x.members > 0 THEN MembersOf(n, x.members) ELSE {n}
Scrapes(x, n) == IF x.type = "service" THEN {n} ELSE {Append(c, "exporter") : c \in Keepers(x, n)}
Master(st, n) == IF st[n].parent = NoParent THEN n ELSE st[n].parent
SeededBy(st, n) == IsPrimary(st, n) /\ st[n].members = 0

OwnerFits(st, sv, c) ==
  LET n == sv[c].owner
  IN /\ sv[c] = Holding(n, sv[c].flags) /\ n \in DOMAIN st
     /\ c \in Containers(st[n], n) \/ (c = Append(n, "init") /\ SeededBy(st, n))
     /\ st[n].type = "redis" =>
          sv[c].flags = IF c \in Keepers(st[n], n) THEN st[Master(st, n)].persistence ELSE "none"
BuiltAs(st, sv) ==
  /\ \A n \in DOMAIN st : \A c \in Containers(st[n], n) : c \in DOMAIN sv /\ sv[c].owner = n
  /\ \A c \in DOMAIN sv : OwnerFits(st, sv, c)

FoldersFit(st, sc, fo) ==
  /\ sc = [n \in DOMAIN st |-> Scrapes(st[n], n)]
  /\ \A n \in DOMAIN st :
       /\ st[n].sentinel => Append(n, "sentinel") \in DOMAIN fo \ DOMAIN st
       /\ st[n].type = "service" => n \in DOMAIN fo /\ "code" \in fo[n]

\* The wishes of the user are met.
Met(st, w) ==
  /\ w = Wish(w.node, w.key, w.role, w.by) /\ w.role \in Role /\ IsPrimary(st, w.node)
  /\ w.key \in DOMAIN st[w.node].keyspaces /\ w.by \in st[w.node].keyspaces[w.key][w.role]

TabFits(d) == d = [of |-> d.of, list |-> d.list] /\ \A k \in DOMAIN d.list : RoleLists(d.list[k])
ScanFits(s) == s # NoScan => s = [of |-> s.of, loaded |-> s.loaded] /\ IsPrimary(s.loaded, s.of)

RedisInv ==
  "lost" \notin wrong =>
    /\ StoreFits(store) /\ TabFits(displayed) /\ ScanFits(scan)
    /\ "behind" \notin wrong => \A w \in wanted : Met(store, w)
    /\ "collided" \notin wrong => BuiltAs(store, services)
    /\ wrong \intersect {"shared", "torn"} = {} => FoldersFit(store, scraped, folders)

-----------------------------------------------------------------------------
\* What suffixes make of names.
LEMMA NameGrows ==
  ASSUME NEW n \in Seq(Word), NEW x \in Word
  PROVE  /\ Append(n, x) \in Called /\ Len(Append(n, x)) = Len(n) + 1 /\ Append(n, x) # n
<1>1. Append(n, x) \in Seq(Word) /\ Append(n, x) # <<>> /\ Len(Append(n, x)) = Len(n) + 1 /\ Len(n) \in Nat
  BY AppendProperties, LenProperties
<1>2. Append(n, x) # n
  BY <1>1
<1> QED
  BY <1>1, <1>2 DEF Called

LEMMA NameSplits ==
  ASSUME NEW n \in Seq(Word), NEW m \in Seq(Word), NEW x \in Word, NEW y \in Word, Append(n, x) = Append(m, y)
  PROVE  n = m /\ x = y
BY AppendInjective

LEMMA DigitsAre ==
  /\ Suffixed \subseteq Word
  /\ \A i \in DOMAIN Digit : Digit[i] \in Word \ Suffixed
  /\ \A i, j \in DOMAIN Digit : Digit[i] = Digit[j] => i = j
  /\ DOMAIN Digit = 1..Len(Digit) /\ Len(Digit) \in Nat /\ 1..3 \subseteq DOMAIN Digit
<1>1. Digit \in Seq(Word) /\ Len(Digit) >= 3
  BY RedisNamesAreStrings
<1>2. DOMAIN Digit = 1..Len(Digit) /\ Len(Digit) \in Nat /\ \A i \in 1..Len(Digit) : Digit[i] \in Word
  BY <1>1, LenProperties, ElementOfSeq
<1>3. Suffixed \subseteq Word
  BY RedisNamesAreStrings
<1> QED
  BY <1>1, <1>2, <1>3, RedisNamesAreStrings

LEMMA SuffixesAre ==
  /\ "exporter" \in Suffixed /\ "init" \in Suffixed /\ "sentinel" \in Suffixed /\ "cluster" \in Suffixed
  /\ "exporter" # "init" /\ "exporter" # "sentinel" /\ "exporter" # "cluster"
  /\ "init" # "sentinel" /\ "init" # "cluster" /\ "sentinel" # "cluster"
BY DEF Suffixed

LEMMA NumberedIs ==
  ASSUME NEW n \in Seq(Word), NEW i \in DOMAIN Digit
  PROVE  /\ Numbered(n, i) \in Called /\ Numbered(n, i) # n
         /\ \A m \in Seq(Word), y \in Suffixed : Numbered(n, i) # Append(m, y)
         /\ \A m \in Seq(Word), j \in DOMAIN Digit : Numbered(n, i) = Numbered(m, j) => n = m /\ i = j
<1>1. Digit[i] \in Word \ Suffixed /\ Suffixed \subseteq Word
  BY DigitsAre
<1>2. \A m \in Seq(Word), y \in Suffixed : Numbered(n, i) # Append(m, y)
  BY <1>1, NameSplits DEF Numbered
<1>3. ASSUME NEW m \in Seq(Word), NEW j \in DOMAIN Digit, Numbered(n, i) = Numbered(m, j) PROVE n = m /\ i = j
  <2>1. Digit[j] \in Word
    BY DigitsAre
  <2>2. n = m /\ Digit[i] = Digit[j]
    BY <1>1, <1>3, <2>1, NameSplits DEF Numbered
  <2> QED
    BY <2>2, DigitsAre
<1> QED
  BY <1>1, <1>2, <1>3, NameGrows DEF Numbered

\* A sentinel of a node, or its exporter, is called as nothing else of that node.
LEMMA SentinelIs ==
  ASSUME NEW n \in Seq(Word), NEW c \in SentinelsOf(n)
  PROVE  \E i \in DOMAIN Digit, s \in Called :
           /\ s = Append(n, "sentinel")
           /\ c = Numbered(s, i) \/ c = Append(Numbered(s, i), "exporter")
<1>1. Append(n, "sentinel") \in Called
  BY NameGrows, DigitsAre, SuffixesAre
<1>2. PICK d \in {Numbered(Append(n, "sentinel"), i) : i \in 1..3} : c = d \/ c = Append(d, "exporter")
  BY DEF SentinelsOf, WithExporters
<1>3. PICK i \in 1..3 : d = Numbered(Append(n, "sentinel"), i)
  BY <1>2
<1>4. i \in DOMAIN Digit
  BY <1>3, DigitsAre
<1> QED
  BY <1>1, <1>2, <1>3, <1>4

LEMMA SentinelsApart ==
  ASSUME NEW n \in Seq(Word)
  PROVE  /\ n \notin SentinelsOf(n) /\ Append(n, "exporter") \notin SentinelsOf(n) /\ Append(n, "init") \notin SentinelsOf(n)
         /\ \A i \in DOMAIN Digit : Numbered(n, i) \notin SentinelsOf(n) /\ Append(Numbered(n, i), "exporter") \notin SentinelsOf(n)
<1> SUFFICES ASSUME NEW c \in SentinelsOf(n)
             PROVE  /\ c # n /\ c # Append(n, "exporter") /\ c # Append(n, "init")
                    /\ \A i \in DOMAIN Digit : c # Numbered(n, i) /\ c # Append(Numbered(n, i), "exporter")
  BY Zenon
<1>1. PICK i \in DOMAIN Digit, s \in Called :
        /\ s = Append(n, "sentinel")
        /\ c = Numbered(s, i) \/ c = Append(Numbered(s, i), "exporter")
  BY SentinelIs
<1>2. /\ s \in Seq(Word) /\ Numbered(s, i) \in Seq(Word) /\ s # n
      /\ Suffixed \subseteq Word
  BY <1>1, NumberedIs, NameGrows, DigitsAre, SuffixesAre DEF Called
<1>3. Len(s) = Len(n) + 1 /\ Len(Numbered(s, i)) = Len(n) + 2 /\ Len(Append(Numbered(s, i), "exporter")) = Len(n) + 3 /\ Len(n) \in Nat
  BY <1>1, <1>2, NameGrows, DigitsAre, SuffixesAre, LenProperties DEF Numbered
<1>4. Len(Append(n, "exporter")) = Len(n) + 1 /\ Len(Append(n, "init")) = Len(n) + 1
  BY NameGrows, DigitsAre, SuffixesAre
<1>5. c # n /\ c # Append(n, "exporter") /\ c # Append(n, "init")
  BY <1>1, <1>3, <1>4
<1>6. ASSUME NEW j \in DOMAIN Digit PROVE c # Numbered(n, j) /\ c # Append(Numbered(n, j), "exporter")
  <2>1. Numbered(n, j) \in Seq(Word) /\ Len(Numbered(n, j)) = Len(n) + 1 /\ Len(Append(Numbered(n, j), "exporter")) = Len(n) + 2
    BY NumberedIs, NameGrows, DigitsAre, SuffixesAre DEF Numbered, Called
  <2>2. Numbered(s, i) # Append(Numbered(n, j), "exporter")
    BY <1>2, <2>1, NumberedIs, SuffixesAre
  <2> QED
    BY <1>1, <1>3, <2>1, <2>2
<1> QED
  BY <1>5, <1>6

\* Functions that one is laid over.
LEMMA OverIs ==
  ASSUME NEW f, NEW g
  PROVE  /\ DOMAIN Over(f, g) = DOMAIN f \union DOMAIN g
         /\ \A x \in DOMAIN f : Over(f, g)[x] = f[x]
         /\ \A x \in DOMAIN g \ DOMAIN f : Over(f, g)[x] = g[x]
BY DEF Over

LEMMA OneIs == ASSUME NEW x, NEW v PROVE DOMAIN One(x, v) = {x} /\ One(x, v)[x] = v
BY DEF One

LEMMA DropIs ==
  ASSUME NEW f, NEW K
  PROVE  DOMAIN DropKeys(f, K) = DOMAIN f \ K /\ \A x \in DOMAIN f \ K : DropKeys(f, K)[x] = f[x]
BY DEF DropKeys, Restrict

LEMMA HoldingIs == ASSUME NEW n, NEW p PROVE Holding(n, p).owner = n /\ Holding(n, p).flags = p
BY DEF Holding

LEMMA DataIs ==
  ASSUME NEW n, NEW C, NEW p
  PROVE  /\ DOMAIN Data(n, C, p) = C /\ \A c \in C : Data(n, C, p)[c] = Holding(n, p)
         /\ DOMAIN Plain(n, C) = C /\ \A c \in C : Plain(n, C)[c] = Holding(n, "none")
BY DEF Data, Plain

\* Stores that differ only in their keyspaces.
ShapeSame(st, st2) ==
  /\ DOMAIN st2 = DOMAIN st
  /\ \A n \in DOMAIN st :
       /\ st2[n].type = st[n].type /\ st2[n].parent = st[n].parent /\ st2[n].sentinel = st[n].sentinel
       /\ st2[n].members = st[n].members /\ st2[n].persistence = st[n].persistence

LEMMA MasterIs ==
  ASSUME NEW st, StoreFits(st), NEW n \in DOMAIN st, st[n].type = "redis"
  PROVE  /\ Master(st, n) \in DOMAIN st /\ IsPrimary(st, Master(st, n))
         /\ st[n].parent # NoParent => st[Master(st, n)].sentinel /\ st[n].members = 0 /\ Master(st, n) # n /\ ~st[n].sentinel
<1>1. st[n].parent # NoParent => ReplicaFits(st, n)
  BY DEF StoreFits
<1>2. n # NoParent
  BY DEF StoreFits, Called, NoParent
<1> QED
  BY <1>1, <1>2 DEF ReplicaFits, Master, IsPrimary

LEMMA ShapeKeeps ==
  ASSUME NEW st, NEW st2, ShapeSame(st, st2), StoreFits(st)
  PROVE  /\ \A n \in DOMAIN st : Containers(st2[n], n) = Containers(st[n], n) /\ Keepers(st2[n], n) = Keepers(st[n], n)
         /\ \A n \in DOMAIN st : Scrapes(st2[n], n) = Scrapes(st[n], n) /\ Master(st2, n) = Master(st, n)
         /\ \A n \in DOMAIN st : (IsPrimary(st2, n) <=> IsPrimary(st, n)) /\ (SeededBy(st2, n) <=> SeededBy(st, n))
         /\ \A n \in DOMAIN st : ReplicaFits(st, n) => ReplicaFits(st2, n)
         /\ ServicesIn(st2) = ServicesIn(st)
<1> DEFINE Same(m) == /\ st2[m].type = st[m].type /\ st2[m].parent = st[m].parent /\ st2[m].sentinel = st[m].sentinel
                      /\ st2[m].members = st[m].members /\ st2[m].persistence = st[m].persistence
<1>1. DOMAIN st2 = DOMAIN st /\ \A m \in DOMAIN st : Same(m)
  BY DEF ShapeSame
<1>2. ASSUME NEW n \in DOMAIN st
      PROVE  Containers(st2[n], n) = Containers(st[n], n) /\ Keepers(st2[n], n) = Keepers(st[n], n)
  BY <1>1 DEF Containers, Keepers
<1>3. ASSUME NEW n \in DOMAIN st
      PROVE  Scrapes(st2[n], n) = Scrapes(st[n], n) /\ Master(st2, n) = Master(st, n)
  BY <1>1, <1>2 DEF Scrapes, Master
<1>4. ASSUME NEW n \in DOMAIN st
      PROVE  (IsPrimary(st2, n) <=> IsPrimary(st, n)) /\ (SeededBy(st2, n) <=> SeededBy(st, n))
  BY <1>1 DEF SeededBy, IsPrimary
<1>5. ASSUME NEW n \in DOMAIN st, ReplicaFits(st, n) PROVE ReplicaFits(st2, n)
  BY <1>1, <1>5 DEF ReplicaFits
<1>6. ServicesIn(st2) = ServicesIn(st)
  BY <1>1 DEF ServicesIn
<1> HIDE DEF Same
<1> QED
  BY <1>2, <1>3, <1>4, <1>5, <1>6

LEMMA ShapeBuilt ==
  ASSUME NEW st, NEW st2, ShapeSame(st, st2), StoreFits(st), NEW sv, BuiltAs(st, sv)
  PROVE  BuiltAs(st2, sv)
<1>1. DOMAIN st2 = DOMAIN st
  BY DEF ShapeSame
<1>2. ASSUME NEW n \in DOMAIN st2, NEW c \in Containers(st2[n], n) PROVE c \in DOMAIN sv /\ sv[c].owner = n
  BY <1>1, ShapeKeeps DEF BuiltAs
<1>3. ASSUME NEW c \in DOMAIN sv PROVE OwnerFits(st2, sv, c)
  <2> DEFINE n == sv[c].owner
  <2>1. /\ sv[c] = Holding(n, sv[c].flags) /\ n \in DOMAIN st
        /\ c \in Containers(st[n], n) \/ (c = Append(n, "init") /\ SeededBy(st, n))
        /\ st[n].type = "redis" =>
             sv[c].flags = IF c \in Keepers(st[n], n) THEN st[Master(st, n)].persistence ELSE "none"
    BY DEF BuiltAs, OwnerFits
  <2>2. st[n].type = "redis" => st2[Master(st, n)].persistence = st[Master(st, n)].persistence
    BY <2>1, MasterIs DEF ShapeSame
  <2>3. st2[n].type = st[n].type
    BY <2>1 DEF ShapeSame
  <2>4. c \in Containers(st2[n], n) \/ (c = Append(n, "init") /\ SeededBy(st2, n))
    BY <2>1, ShapeKeeps
  <2>5. st2[n].type = "redis" =>
          sv[c].flags = IF c \in Keepers(st2[n], n) THEN st2[Master(st2, n)].persistence ELSE "none"
    BY <2>1, <2>2, <2>3, ShapeKeeps
  <2> QED
    BY <1>1, <2>1, <2>4, <2>5 DEF OwnerFits
<1> QED
  BY <1>2, <1>3 DEF BuiltAs

LEMMA ShapeFolders ==
  ASSUME NEW st, NEW st2, ShapeSame(st, st2), StoreFits(st), NEW sc, NEW fo, FoldersFit(st, sc, fo)
  PROVE  FoldersFit(st2, sc, fo)
<1>1. DOMAIN st2 = DOMAIN st /\ \A n \in DOMAIN st : st2[n].type = st[n].type /\ st2[n].sentinel = st[n].sentinel
  BY DEF ShapeSame
<1>2. [n \in DOMAIN st2 |-> Scrapes(st2[n], n)] = [n \in DOMAIN st |-> Scrapes(st[n], n)]
  BY <1>1, ShapeKeeps
<1> QED
  BY <1>1, <1>2 DEF FoldersFit

\* One node gets other keyspaces.
KeysSet(st, n, v, st2) ==
  /\ StoreFits(st) /\ IsPrimary(st, n) /\ st2 = [st EXCEPT ![n].keyspaces = v]
  /\ \A k \in DOMAIN v : RolesFit(v[k], ServicesIn(st))

LEMMA KeyspacesSet ==
  ASSUME NEW st, NEW n, NEW v, NEW st2, KeysSet(st, n, v, st2)
  PROVE  /\ ShapeSame(st, st2) /\ StoreFits(st2)
         /\ st2[n].keyspaces = v /\ \A m \in DOMAIN st \ {n} : st2[m] = st[m]
<1> USE DEF KeysSet
<1>1. /\ n \in DOMAIN st /\ st[n].type = "redis" /\ st[n].parent = NoParent
      /\ NodeFits(st[n])
  BY DEF StoreFits, IsPrimary
<1>2. /\ DOMAIN st2 = DOMAIN st /\ st2[n] = [st[n] EXCEPT !.keyspaces = v]
      /\ \A m \in DOMAIN st \ {n} : st2[m] = st[m]
  BY <1>1
<1>3. st2[n] = [type |-> st[n].type, parent |-> st[n].parent, sentinel |-> st[n].sentinel, members |-> st[n].members,
                persistence |-> st[n].persistence, keyspaces |-> v]
  BY <1>1, <1>2 DEF NodeFits
<1>4. /\ st2[n].type = st[n].type /\ st2[n].parent = st[n].parent /\ st2[n].sentinel = st[n].sentinel
      /\ st2[n].members = st[n].members /\ st2[n].persistence = st[n].persistence /\ st2[n].keyspaces = v
      /\ NodeFits(st2[n])
  BY <1>1, <1>3 DEF NodeFits
<1>5. ShapeSame(st, st2)
  BY <1>2, <1>4 DEF ShapeSame
<1>6. ASSUME NEW m \in DOMAIN st2
      PROVE  /\ NodeFits(st2[m]) /\ (st2[m].parent # NoParent => ReplicaFits(st2, m))
             /\ \A k \in DOMAIN st2[m].keyspaces : RolesFit(st2[m].keyspaces[k], ServicesIn(st2))
  <2>1. m = n => NodeFits(st2[m]) /\ ~(st2[m].parent # NoParent)
    BY <1>1, <1>4
  <2>2. /\ NodeFits(st[m]) /\ (st[m].parent # NoParent => ReplicaFits(st, m))
        /\ \A k \in DOMAIN st[m].keyspaces : RolesFit(st[m].keyspaces[k], ServicesIn(st))
    BY <1>2, <1>6 DEF StoreFits
  <2>3. ServicesIn(st2) = ServicesIn(st) /\ (ReplicaFits(st, m) => ReplicaFits(st2, m))
    BY <1>2, <1>5, <1>6, ShapeKeeps
  <2>4. CASE m = n
    BY <1>4, <2>1, <2>3, <2>4
  <2>5. CASE m # n
    BY <1>2, <1>6, <2>2, <2>3, <2>5
  <2> QED
    BY <2>4, <2>5
<1>7. StoreFits(st2)
  <2>1. IsFiniteSet(DOMAIN st2) /\ DOMAIN st2 \subseteq Called
    BY <1>2 DEF StoreFits
  <2> QED
    BY <1>6, <2>1 DEF StoreFits
<1> QED
  BY <1>2, <1>4, <1>5, <1>7

LEMMA MetStays ==
  ASSUME NEW st, NEW n, NEW v, NEW st2, KeysSet(st, n, v, st2), NEW w, w = Wish(w.node, w.key, w.role, w.by), w.role \in Role, IsPrimary(st, w.node),
         w.node # n => Met(st, w),
         w.node = n => w.key \in DOMAIN v /\ w.by \in v[w.key][w.role]
  PROVE  Met(st2, w)
<1>1. /\ ShapeSame(st, st2) /\ st2[n].keyspaces = v /\ \A m \in DOMAIN st \ {n} : st2[m] = st[m]
  BY KeyspacesSet
<1>2. w.node \in DOMAIN st
  BY DEF IsPrimary
<1>3. IsPrimary(st2, w.node)
  BY <1>1, <1>2, ShapeKeeps DEF KeysSet
<1>4. CASE w.node = n
  BY <1>1, <1>3, <1>4 DEF Met
<1>5. CASE w.node # n
  BY <1>1, <1>2, <1>3, <1>5 DEF Met
<1> QED
  BY <1>4, <1>5

LEMMA MetIs ==
  ASSUME NEW st, NEW w, Met(st, w)
  PROVE  /\ w = Wish(w.node, w.key, w.role, w.by) /\ w.role \in Role /\ IsPrimary(st, w.node)
         /\ w.key \in DOMAIN st[w.node].keyspaces /\ w.by \in st[w.node].keyspaces[w.key][w.role]
BY DEF Met

\* What an edit of the keyspaces of one node leaves to be shown.
LEMMA KeyspaceStep ==
  ASSUME RedisInv, "lost" \notin wrong, NEW n, NEW v, KeysSet(store, n, v, store'),
         UNCHANGED <<services, scraped, folders>>,
         wrong' \in {wrong, wrong \union {"behind"}}, ScanFits(scan'), TabFits(displayed'),
         "behind" \notin wrong' => \A w \in wanted' : Met(store', w)
  PROVE  RedisInv'
<1>1. /\ StoreFits(store)
      /\ "collided" \notin wrong => BuiltAs(store, services)
      /\ wrong \intersect {"shared", "torn"} = {} => FoldersFit(store, scraped, folders)
  BY DEF RedisInv
<1>2. ShapeSame(store, store') /\ StoreFits(store')
  BY <1>1, KeyspacesSet
<1>3. "collided" \notin wrong' => BuiltAs(store', services')
  BY <1>1, <1>2, ShapeBuilt
<1>4. wrong' \intersect {"shared", "torn"} = {} => FoldersFit(store', scraped', folders')
  BY <1>1, <1>2, ShapeFolders
<1> QED
  BY <1>2, <1>3, <1>4 DEF RedisInv

LEMMA TabIs ==
  ASSUME NEW n, StoreFits(store'), IsPrimary(store', n)
  PROVE  TabFits(Tab(n))
<1>1. \A k \in DOMAIN store'[n].keyspaces : RolesFit(store'[n].keyspaces[k], ServicesIn(store'))
  BY DEF StoreFits, IsPrimary
<1> QED
  BY <1>1 DEF TabFits, Tab, RolesFit

LEMMA ServicesAre == Of("service") = ServicesIn(store) /\ \A n \in Redis : IsPrimary(store, n)
BY DEF Of, ServicesIn, Redis, Primary, IsPrimary

LEMMA RolesSet ==
  ASSUME NEW e, RoleLists(e), NEW a, NEW b, NEW c
  PROVE  [[[e EXCEPT !.waits = a] EXCEPT !.likelyWriters = b] EXCEPT !.likelyReaders = c] =
         [writers |-> e.writers, readers |-> e.readers, waits |-> a, likelyWriters |-> b, likelyReaders |-> c]
<1>1. PICK w, r : e = [writers |-> w, readers |-> r, waits |-> e.waits, likelyWriters |-> e.likelyWriters,
                       likelyReaders |-> e.likelyReaders]
  BY DEF RoleLists
<1>2. w = e.writers /\ r = e.readers
  BY <1>1
<1> DEFINE changed == [e EXCEPT !.waits = a]
           e3 == [changed EXCEPT !.likelyWriters = b]
<1>3. changed = [writers |-> w, readers |-> r, waits |-> a, likelyWriters |-> e.likelyWriters, likelyReaders |-> e.likelyReaders]
  BY <1>1
<1> HIDE DEF changed
<1>4. e3 = [writers |-> w, readers |-> r, waits |-> a, likelyWriters |-> b, likelyReaders |-> e.likelyReaders]
  BY <1>3
<1> HIDE DEF e3
<1>5. [e3 EXCEPT !.likelyReaders = c] = [writers |-> w, readers |-> r, waits |-> a, likelyWriters |-> b, likelyReaders |-> c]
  BY <1>4
<1> QED
  BY <1>2, <1>5 DEF changed, e3

Upserted(v, f, prev, k, e) == v = Over(One(k, e), DropKeys(f, {prev}))

EntryIn(v, f, prev, k, e) ==
  /\ DOMAIN v = {k} \union (DOMAIN f \ {prev}) /\ v[k] = e
  /\ \A j \in DOMAIN f \ {prev, k} : v[j] = f[j]

LEMMA UpsertedIs ==
  ASSUME NEW f, NEW prev, NEW k, NEW e, NEW v, Upserted(v, f, prev, k, e)
  PROVE  EntryIn(v, f, prev, k, e)
<1>1. DOMAIN One(k, e) = {k} /\ One(k, e)[k] = e
  BY OneIs
<1>2. DOMAIN DropKeys(f, {prev}) = DOMAIN f \ {prev} /\ \A x \in DOMAIN f \ {prev} : DropKeys(f, {prev})[x] = f[x]
  BY DropIs
<1>3. PICK f1, f2 : f1 = One(k, e) /\ f2 = DropKeys(f, {prev})
  OBVIOUS
<1>4. v = Over(f1, f2)
  BY <1>3 DEF Upserted
<1>5. /\ DOMAIN v = DOMAIN f1 \union DOMAIN f2
      /\ \A x \in DOMAIN f1 : v[x] = f1[x]
      /\ \A x \in DOMAIN f2 \ DOMAIN f1 : v[x] = f2[x]
  BY <1>4 DEF Over
<1> QED
  BY <1>1, <1>2, <1>3, <1>5 DEF EntryIn

\* The tab shows of a keyspace what the manifest has of it, and what the user wishes is in an
\* entry or was wished before.
AsShown(tabs, f, prev) ==
  /\ prev \in DOMAIN tabs <=> prev \in DOMAIN f
  /\ prev \in DOMAIN tabs => \A role \in Role : tabs[prev][role] = f[prev][role]
WishesFit(wishes, st, before, n, prev, k, e) ==
  \A w \in wishes :
    /\ w = Wish(w.node, w.key, w.role, w.by) /\ w.role \in Role /\ IsPrimary(st, w.node)
    /\ w.node # n => w \in before
    /\ w.node = n /\ w.key = k => w.by \in e[w.role] /\ (w.role = "waits" => w.by \in e.writers)
    /\ w.node = n /\ w.key # k => w.key # prev /\ w \in before

Wished(n, prev, k, e, wishes) ==
  AsShown(displayed.list, store[n].keyspaces, prev) => WishesFit(wishes, store, wanted, n, prev, k, e)

LEMMA UpsertStep ==
  ASSUME RedisInv, "lost" \notin wrong, NEW n, NEW prev, NEW k, NEW e, NEW wishes, RoleLists(e), UNCHANGED scan,
         UpsertKeyspace(n, prev, k, e, wishes),
         "behind" \notin wrong => Wished(n, prev, k, e, wishes)
  PROVE  RedisInv'
<1>0. PICK list : list = store[n].keyspaces
  OBVIOUS
<1> DEFINE known == prev \in DOMAIN list
           lw == (IF known THEN list[prev].likelyWriters ELSE {}) \ e.writers
           lr == (IF known THEN list[prev].likelyReaders ELSE {}) \ e.readers
           given == [writers |-> e.writers, readers |-> e.readers, waits |-> Waiting(e), likelyWriters |-> lw, likelyReaders |-> lr]
           v == Over(One(k, given), DropKeys(list, {prev}))
<1>1. /\ n \in Redis
      /\ e.writers \union e.readers \subseteq Of("service")
      /\ k # prev => known /\ k \notin DOMAIN list
      /\ wanted' = wishes /\ displayed' = Tab(n)
      /\ wrong' = IF IF prev \in DOMAIN displayed.list
                       THEN known /\ \A role \in Role : displayed.list[prev][role] = list[prev][role]
                       ELSE ~known
                    THEN wrong ELSE wrong \union {"behind"}
      /\ UNCHANGED <<services, scraped, folders, scan>>
  BY <1>0 DEF UpsertKeyspace
<1>2. store' = [store EXCEPT ![n].keyspaces = v]
  <2>1. [[[e EXCEPT !.waits = Waiting(e)]
           EXCEPT !.likelyWriters = (IF known THEN list[prev].likelyWriters ELSE {}) \ e.writers]
           EXCEPT !.likelyReaders = (IF known THEN list[prev].likelyReaders ELSE {}) \ e.readers] = given
    BY RolesSet
  <2> QED
    BY <1>0, <2>1 DEF UpsertKeyspace
<1>3. StoreFits(store) /\ TabFits(displayed) /\ ScanFits(scan) /\ IsPrimary(store, n)
  BY <1>1, ServicesAre DEF RedisInv
<1>4. \A j \in DOMAIN list : RolesFit(list[j], ServicesIn(store))
  BY <1>0, <1>3 DEF StoreFits, IsPrimary
<1>5. /\ DOMAIN v = {k} \union (DOMAIN list \ {prev}) /\ v[k] = given
      /\ \A j \in DOMAIN list \ {prev, k} : v[j] = list[j]
  <2>1. Upserted(v, list, prev, k, given)
    BY DEF Upserted
  <2> HIDE DEF v, given
  <2>2. EntryIn(v, list, prev, k, given)
    BY <2>1, UpsertedIs
  <2> QED
    BY <2>2 DEF EntryIn
<1>6. RolesFit(given, ServicesIn(store))
  <2>1. e.writers \subseteq ServicesIn(store) /\ e.readers \subseteq ServicesIn(store)
    BY <1>1, ServicesAre
  <2>2. lw \subseteq ServicesIn(store) \ e.writers /\ lr \subseteq ServicesIn(store) \ e.readers
    BY <1>4 DEF RolesFit
  <2> QED
    BY <2>1, <2>2 DEF RolesFit, RoleLists, Waiting
<1> HIDE DEF v
<1>7. \A j \in DOMAIN v : RolesFit(v[j], ServicesIn(store))
  BY <1>4, <1>5, <1>6
<1> KeysSet(store, n, v, store')
  BY <1>2, <1>3, <1>7 DEF KeysSet
<1>8. wrong' \in {wrong, wrong \union {"behind"}} /\ ScanFits(scan')
  BY <1>1, <1>3
<1>9. TabFits(displayed')
  <2>1. StoreFits(store') /\ ShapeSame(store, store')
    BY KeyspacesSet
  <2>2. IsPrimary(store', n)
    BY <1>3, <2>1, ShapeKeeps DEF IsPrimary
  <2> QED
    BY <1>1, <2>1, <2>2, TabIs
<1>10. ASSUME "behind" \notin wrong', NEW w \in wanted' PROVE Met(store', w)
  <2>1. wrong' = wrong /\ AsShown(displayed.list, list, prev)
    BY <1>1, <1>10 DEF AsShown
  <2>2. /\ w = Wish(w.node, w.key, w.role, w.by) /\ w.role \in Role /\ IsPrimary(store, w.node)
        /\ w.node # n => w \in wanted
        /\ w.node = n /\ w.key = k => w.by \in e[w.role] /\ (w.role = "waits" => w.by \in e.writers)
        /\ w.node = n /\ w.key # k => w.key # prev /\ w \in wanted
    BY <1>0, <1>1, <1>10, <2>1 DEF Wished, WishesFit
  <2>3. \A x \in wanted : Met(store, x)
    BY <1>10, <2>1 DEF RedisInv
  <2>4. w.node = n => w.key \in DOMAIN v /\ w.by \in v[w.key][w.role]
    <3>1. CASE w.key = k
      <4>1. w.role \in {"writers", "readers", "waits"}
        BY <2>2 DEF Role
      <4>2. w.node = n => w.by \in given[w.role]
        BY <2>2, <3>1, <4>1 DEF Waiting
      <4> QED
        BY <1>5, <3>1, <4>2
    <3>2. CASE w.key # k
      BY <1>0, <1>5, <2>2, <2>3, <3>2 DEF Met
    <3> QED
      BY <3>1, <3>2
  <2>5. w.node # n => Met(store, w)
    BY <2>2, <2>3
  <2> QED
    BY <2>2, <2>4, <2>5, MetStays
<1> QED
  BY <1>1, <1>8, <1>9, <1>10, KeyspaceStep

\* What the wishes say in a state of the invariant.
LEMMA WishesBefore ==
  ASSUME RedisInv, "lost" \notin wrong, "behind" \notin wrong, NEW w \in wanted
  PROVE  /\ w = Wish(w.node, w.key, w.role, w.by) /\ w.role \in Role /\ IsPrimary(store, w.node)
         /\ w.key \in DOMAIN store[w.node].keyspaces /\ w.by \in store[w.node].keyspaces[w.key][w.role]
BY DEF RedisInv, Met

LEMMA WishIs ==
  ASSUME NEW n, NEW k, NEW role, NEW s
  PROVE  LET w == Wish(n, k, role, s)
         IN w.node = n /\ w.key = k /\ w.role = role /\ w.by = s /\ w = Wish(w.node, w.key, w.role, w.by)
BY DEF Wish

LEMMA EntryBefore ==
  ASSUME RedisInv, "lost" \notin wrong, NEW n, IsPrimary(store, n), NEW k \in DOMAIN store[n].keyspaces
  PROVE  RolesFit(store[n].keyspaces[k], ServicesIn(store))
BY DEF RedisInv, StoreFits, IsPrimary

LEMMA AddKeyspaceStep ==
  ASSUME RedisInv, NEW k, AddKeyspace(k)
  PROVE  RedisInv'
<1>1. PICK n : n = displayed.of
  OBVIOUS
<1>2. "lost" \notin wrong /\ k \notin DOMAIN displayed.list /\ UpsertKeyspace(n, k, k, NewKeyspace, wanted)
  BY <1>1 DEF AddKeyspace, Request1
<1>3. RoleLists(NewKeyspace) /\ UNCHANGED scan
  BY <1>2 DEF NewKeyspace, RoleLists, UpsertKeyspace
<1>4. ASSUME "behind" \notin wrong, AsShown(displayed.list, store[n].keyspaces, k)
      PROVE  WishesFit(wanted, store, wanted, n, k, k, NewKeyspace)
  BY <1>2, <1>4, WishesBefore DEF AsShown, WishesFit
<1> QED
  BY <1>2, <1>3, <1>4, UpsertStep DEF Wished

LEMMA RenameKeyspaceStep ==
  ASSUME RedisInv, NEW prev, NEW k, RenameKeyspace(prev, k)
  PROVE  RedisInv'
<1>1. PICK n, e : n = displayed.of /\ e = displayed.list[prev]
  OBVIOUS
<1>2. /\ "lost" \notin wrong /\ prev \in DOMAIN displayed.list /\ k \notin DOMAIN displayed.list
      /\ UpsertKeyspace(n, prev, k, e, Renamed1(n, prev, k))
  BY <1>1 DEF RenameKeyspace, Request1
<1>3. RoleLists(e) /\ UNCHANGED scan /\ IsPrimary(store, n) /\ k # prev /\ k \notin DOMAIN store[n].keyspaces
  BY <1>1, <1>2, ServicesAre DEF RedisInv, TabFits, UpsertKeyspace
<1>4. ASSUME "behind" \notin wrong, AsShown(displayed.list, store[n].keyspaces, prev), NEW w \in Renamed1(n, prev, k)
      PROVE  /\ w = Wish(w.node, w.key, w.role, w.by) /\ w.role \in Role /\ IsPrimary(store, w.node)
             /\ w.node # n => w \in wanted
             /\ w.node = n /\ w.key = k => w.by \in e[w.role] /\ (w.role = "waits" => w.by \in e.writers)
             /\ w.node = n /\ w.key # k => w.key # prev /\ w \in wanted
  <2>1. PICK x \in wanted : w = IF x.node = n /\ x.key = prev THEN [x EXCEPT !.key = k] ELSE x
    BY <1>4 DEF Renamed1
  <2>2. /\ x = Wish(x.node, x.key, x.role, x.by) /\ x.role \in Role /\ IsPrimary(store, x.node)
        /\ x.key \in DOMAIN store[x.node].keyspaces /\ x.by \in store[x.node].keyspaces[x.key][x.role]
    BY <1>2, <1>4, WishesBefore
  <2>3. CASE x.node = n /\ x.key = prev
    <3>1. w = Wish(n, k, x.role, x.by)
      BY <2>1, <2>2, <2>3 DEF Wish
    <3>2. prev \in DOMAIN store[n].keyspaces /\ \A role \in Role : e[role] = store[n].keyspaces[prev][role]
      BY <1>1, <1>2, <1>4 DEF AsShown
    <3>3. x.by \in e[x.role]
      BY <2>2, <2>3, <3>2
    <3>4. store[n].keyspaces[prev].waits \subseteq store[n].keyspaces[prev].writers
      BY <1>2, <1>3, <3>2, EntryBefore DEF RolesFit
    <3>5. x.role = "waits" => x.by \in e.writers
      BY <3>2, <3>3, <3>4 DEF Role
    <3>6. w.node = n /\ w.key = k /\ w.role = x.role /\ w.by = x.by /\ w = Wish(w.node, w.key, w.role, w.by)
      BY <3>1, WishIs
    <3> QED
      BY <1>3, <2>2, <3>3, <3>5, <3>6
  <2>4. CASE ~(x.node = n /\ x.key = prev)
    <3>1. w = x
      BY <2>1, <2>4
    <3>2. w.node = n => w.key # k
      BY <1>3, <2>2, <3>1
    <3> QED
      BY <2>2, <2>4, <3>1, <3>2
  <2> QED
    BY <2>3, <2>4
<1>5. "behind" \notin wrong => Wished(n, prev, k, e, Renamed1(n, prev, k))
  BY <1>4 DEF Wished, WishesFit
<1> QED
  BY <1>2, <1>3, <1>5, UpsertStep

LEMMA RoleGiven ==
  ASSUME NEW e, RoleLists(e), NEW role \in Role, NEW v
  PROVE  LET changed == [e EXCEPT ![role] = v]
         IN RoleLists(changed) /\ changed[role] = v /\ \A r \in Role \ {role} : changed[r] = e[r]
<1>1. PICK a, b, c, d, f : e = [writers |-> a, readers |-> b, waits |-> c, likelyWriters |-> d, likelyReaders |-> f]
  BY DEF RoleLists
<1>2. role \in {"writers", "readers", "waits"}
  BY DEF Role
<1>3. CASE role = "writers"
  <2>1. [e EXCEPT ![role] = v] = [writers |-> v, readers |-> b, waits |-> c, likelyWriters |-> d, likelyReaders |-> f]
    BY <1>1, <1>3
  <2> QED
    BY <1>1, <1>3, <2>1 DEF RoleLists, Role
<1>4. CASE role = "readers"
  <2>1. [e EXCEPT ![role] = v] = [writers |-> a, readers |-> v, waits |-> c, likelyWriters |-> d, likelyReaders |-> f]
    BY <1>1, <1>4
  <2> QED
    BY <1>1, <1>4, <2>1 DEF RoleLists, Role
<1>5. CASE role = "waits"
  <2>1. [e EXCEPT ![role] = v] = [writers |-> a, readers |-> b, waits |-> v, likelyWriters |-> d, likelyReaders |-> f]
    BY <1>1, <1>5
  <2> QED
    BY <1>1, <1>5, <2>1 DEF RoleLists, Role
<1> QED
  BY <1>2, <1>3, <1>4, <1>5

\* What is known of a wish about a keyspace the tab shows as it is.
LEMMA ShownWish ==
  ASSUME RedisInv, "lost" \notin wrong, "behind" \notin wrong, NEW n, IsPrimary(store, n), NEW k, NEW e,
         k \in DOMAIN displayed.list, e = displayed.list[k], AsShown(displayed.list, store[n].keyspaces, k),
         NEW w \in wanted, w.node = n, w.key = k
  PROVE  w.by \in e[w.role] /\ (w.role = "waits" => w.by \in e.writers)
<1>1. k \in DOMAIN store[n].keyspaces /\ \A role \in Role : e[role] = store[n].keyspaces[k][role]
  BY DEF AsShown
<1>2. w.role \in Role /\ w.by \in store[n].keyspaces[k][w.role]
  BY WishesBefore
<1>3. store[n].keyspaces[k].waits \subseteq store[n].keyspaces[k].writers
  BY <1>1, EntryBefore DEF RolesFit
<1> QED
  BY <1>1, <1>2, <1>3 DEF Role

LEMMA GiveRoleStep ==
  ASSUME RedisInv, NEW k, NEW role \in Role, NEW s, GiveRole(k, role, s)
  PROVE  RedisInv'
<1>1. PICK n, e, changed : n = displayed.of /\ e = displayed.list[k] /\ changed = [e EXCEPT ![role] = e[role] \union {s}]
  OBVIOUS
<1> DEFINE wishes == wanted \union {Wish(n, k, role, s)}
<1>2. /\ "lost" \notin wrong /\ k \in DOMAIN displayed.list /\ (role = "waits" => s \in e.writers)
      /\ UpsertKeyspace(n, k, k, changed, wishes)
  BY <1>1 DEF GiveRole, Request1
<1>3. RoleLists(e) /\ UNCHANGED scan /\ IsPrimary(store, n)
  BY <1>1, <1>2, ServicesAre DEF RedisInv, TabFits, UpsertKeyspace
<1>4. RoleLists(changed) /\ changed[role] = e[role] \union {s} /\ \A r \in Role \ {role} : changed[r] = e[r]
  BY <1>1, <1>3, RoleGiven
<1>5. e.writers \subseteq changed.writers /\ \A r \in Role : e[r] \subseteq changed[r]
  BY <1>4 DEF Role
<1>6. ASSUME "behind" \notin wrong, AsShown(displayed.list, store[n].keyspaces, k), NEW w \in wishes
      PROVE  /\ w = Wish(w.node, w.key, w.role, w.by) /\ w.role \in Role /\ IsPrimary(store, w.node)
             /\ w.node # n => w \in wanted
             /\ w.node = n /\ w.key = k => w.by \in changed[w.role] /\ (w.role = "waits" => w.by \in changed.writers)
             /\ w.node = n /\ w.key # k => w.key # k /\ w \in wanted
  <2>1. CASE w \in wanted
    <3>1. w = Wish(w.node, w.key, w.role, w.by) /\ w.role \in Role /\ IsPrimary(store, w.node)
      BY <1>2, <1>6, <2>1, WishesBefore
    <3>2. w.node = n /\ w.key = k => w.by \in e[w.role] /\ (w.role = "waits" => w.by \in e.writers)
      BY <1>1, <1>2, <1>3, <1>6, <2>1, ShownWish
    <3> QED
      BY <1>5, <2>1, <3>1, <3>2
  <2>2. CASE w = Wish(n, k, role, s)
    <3>1. w.node = n /\ w.key = k /\ w.role = role /\ w.by = s /\ w = Wish(w.node, w.key, w.role, w.by)
      BY <2>2, WishIs
    <3> QED
      BY <1>2, <1>3, <1>4, <1>5, <3>1
  <2> QED
    BY <1>6, <2>1, <2>2
<1>7. "behind" \notin wrong => Wished(n, k, k, changed, wishes)
  BY <1>6 DEF Wished, WishesFit
<1> QED
  BY <1>2, <1>3, <1>4, <1>7, UpsertStep

LEMMA TakeRoleStep ==
  ASSUME RedisInv, NEW k, NEW role \in Role, NEW s, TakeRole(k, role, s)
  PROVE  RedisInv'
<1>1. PICK n, e, changed : n = displayed.of /\ e = displayed.list[k] /\ changed = [e EXCEPT ![role] = e[role] \ {s}]
  OBVIOUS
<1> DEFINE taken == {Wish(n, k, r, s) : r \in {role} \union IF role = "writers" THEN {"waits"} ELSE {}}
           wishes == wanted \ taken
<1>2. /\ "lost" \notin wrong /\ k \in DOMAIN displayed.list /\ UpsertKeyspace(n, k, k, changed, wishes)
  BY <1>1 DEF TakeRole, Request1
<1>3. RoleLists(e) /\ UNCHANGED scan /\ IsPrimary(store, n)
  BY <1>1, <1>2, ServicesAre DEF RedisInv, TabFits, UpsertKeyspace
<1>4. RoleLists(changed) /\ changed[role] = e[role] \ {s} /\ \A r \in Role \ {role} : changed[r] = e[r]
  BY <1>1, <1>3, RoleGiven
<1>5. ASSUME "behind" \notin wrong, AsShown(displayed.list, store[n].keyspaces, k), NEW w \in wishes
      PROVE  /\ w = Wish(w.node, w.key, w.role, w.by) /\ w.role \in Role /\ IsPrimary(store, w.node) /\ w \in wanted
             /\ w.node = n /\ w.key = k => w.by \in changed[w.role] /\ (w.role = "waits" => w.by \in changed.writers)
  <2>1. /\ w = Wish(w.node, w.key, w.role, w.by) /\ w.role \in Role /\ IsPrimary(store, w.node) /\ w \in wanted
        /\ w \notin taken
    BY <1>2, <1>5, WishesBefore
  <2>2. ASSUME w.node = n, w.key = k PROVE w.by \in changed[w.role] /\ (w.role = "waits" => w.by \in changed.writers)
    <3>1. w.by \in e[w.role] /\ (w.role = "waits" => w.by \in e.writers)
      BY <1>1, <1>2, <1>3, <1>5, <2>1, <2>2, ShownWish
    <3>2. w = Wish(n, k, w.role, w.by)
      BY <2>1, <2>2
    <3>3. w.role = role => w.by # s
      BY <2>1, <3>2
    <3>4. w.role = "waits" /\ role = "writers" => w.by # s
      BY <2>1, <3>2
    <3> HIDE DEF taken
    <3>5. w.by \in changed[w.role]
      BY <1>4, <2>1, <3>1, <3>3
    <3>6. w.role = "waits" => w.by \in changed.writers
      BY <1>4, <3>1, <3>4 DEF Role
    <3> QED
      BY <3>5, <3>6
  <2> QED
    BY <2>1, <2>2
<1>6. "behind" \notin wrong => Wished(n, k, k, changed, wishes)
  BY <1>5 DEF Wished, WishesFit
<1> QED
  BY <1>2, <1>3, <1>4, <1>6, UpsertStep

LEMMA DropKeyspaceStep ==
  ASSUME RedisInv, NEW k, DropKeyspace(k)
  PROVE  RedisInv'
<1>1. PICK n, list, v : n = displayed.of /\ list = store[n].keyspaces /\ v = DropKeys(list, {k})
  OBVIOUS
<1>2. /\ "lost" \notin wrong /\ n \in Redis
      /\ store' = [store EXCEPT ![n].keyspaces = v]
      /\ wanted' = {w \in wanted : w.node # n \/ w.key # k} /\ displayed' = Tab(n)
      /\ UNCHANGED <<services, scraped, folders, scan, wrong>>
  BY <1>1 DEF DropKeyspace, Request1
<1>3. IsPrimary(store, n) /\ StoreFits(store) /\ ScanFits(scan')
  BY <1>2, ServicesAre DEF RedisInv
<1>4. DOMAIN v = DOMAIN list \ {k} /\ \A j \in DOMAIN list \ {k} : v[j] = list[j]
  BY <1>1 DEF DropKeys, Restrict
<1>5. \A j \in DOMAIN list : RolesFit(list[j], ServicesIn(store))
  BY <1>1, <1>2, <1>3, EntryBefore
<1>6. KeysSet(store, n, v, store')
  BY <1>2, <1>3, <1>4, <1>5 DEF KeysSet
<1>7. ASSUME "behind" \notin wrong', NEW w \in wanted' PROVE Met(store', w)
  <2>1. w \in wanted /\ "behind" \notin wrong /\ (w.node # n \/ w.key # k)
    BY <1>2, <1>7
  <2>2. /\ w = Wish(w.node, w.key, w.role, w.by) /\ w.role \in Role /\ IsPrimary(store, w.node)
        /\ w.key \in DOMAIN store[w.node].keyspaces /\ w.by \in store[w.node].keyspaces[w.key][w.role]
    BY <1>2, <2>1, WishesBefore
  <2>3. w.node = n => w.key \in DOMAIN v /\ w.by \in v[w.key][w.role]
    BY <1>1, <1>4, <2>1, <2>2
  <2>4. w.node # n => Met(store, w)
    BY <2>2 DEF Met
  <2> QED
    BY <1>6, <2>2, <2>3, <2>4, MetStays
<1>8. StoreFits(store') /\ IsPrimary(store', n)
  BY <1>3, <1>6, KeyspacesSet, ShapeKeeps DEF IsPrimary
<1>9. TabFits(displayed')
  BY <1>2, <1>8, TabIs
<1> QED
  BY <1>2, <1>3, <1>6, <1>7, <1>9, KeyspaceStep

LEMMA HandleSuggestionStep ==
  ASSUME RedisInv, NEW k, NEW role \in {"writers", "readers"}, NEW s, NEW accept \in BOOLEAN,
         HandleSuggestion(k, role, s, accept)
  PROVE  RedisInv'
<1>1. PICK n, list, e : n = displayed.of /\ list = store[n].keyspaces /\ e = list[k]
  OBVIOUS
<1>2. PICK given, v : /\ given = IF accept THEN e[role] \union {s} ELSE e[role]
                      /\ v = [list EXCEPT ![k] = [[e EXCEPT ![Likely(role)] = e[Likely(role)] \ {s}] EXCEPT ![role] = given]]
  OBVIOUS
<1>3. /\ "lost" \notin wrong /\ n \in Redis /\ k \in DOMAIN list /\ s \in e[Likely(role)]
      /\ wanted' = (IF accept THEN wanted \union {Wish(n, k, role, s)} ELSE wanted) /\ displayed' = Tab(n)
      /\ UNCHANGED <<services, scraped, folders, scan, wrong>>
  BY <1>1 DEF HandleSuggestion, Request1
<1>4. IsPrimary(store, n) /\ StoreFits(store) /\ ScanFits(scan')
  BY <1>3, ServicesAre DEF RedisInv
<1>5. \A j \in DOMAIN list : RolesFit(list[j], ServicesIn(store))
  BY <1>1, <1>3, <1>4, EntryBefore
<1> RolesFit(e, ServicesIn(store))
  BY <1>1, <1>3, <1>5
<1>6. PICK a, b, c, d, f : e = [writers |-> a, readers |-> b, waits |-> c, likelyWriters |-> d, likelyReaders |-> f]
  BY DEF RolesFit, RoleLists
<1>7. /\ a \subseteq ServicesIn(store) /\ b \subseteq ServicesIn(store) /\ c \subseteq a
      /\ d \subseteq ServicesIn(store) \ a /\ f \subseteq ServicesIn(store) \ b
  <2>1. a = e.writers /\ b = e.readers /\ c = e.waits /\ d = e.likelyWriters /\ f = e.likelyReaders
    BY <1>6
  <2> QED
    BY <2>1 DEF RolesFit
<1>8. v[k] = (IF role = "writers"
                THEN [writers |-> given, readers |-> b, waits |-> c, likelyWriters |-> d \ {s}, likelyReaders |-> f]
                ELSE [writers |-> a, readers |-> given, waits |-> c, likelyWriters |-> d, likelyReaders |-> f \ {s}])
  <2>1. v[k] = [[e EXCEPT ![Likely(role)] = e[Likely(role)] \ {s}] EXCEPT ![role] = given]
    BY <1>2, <1>3
  <2>2. PICK changed : changed = [e EXCEPT ![Likely(role)] = e[Likely(role)] \ {s}]
    OBVIOUS
  <2>3. CASE role = "writers"
    <3>1. changed = [writers |-> a, readers |-> b, waits |-> c, likelyWriters |-> d \ {s}, likelyReaders |-> f]
      BY <1>6, <2>2, <2>3 DEF Likely
    <3>2. v[k] = [changed EXCEPT !.writers = given]
      BY <2>1, <2>2, <2>3
    <3> QED
      BY <2>3, <3>1, <3>2
  <2>4. CASE role = "readers"
    <3>1. changed = [writers |-> a, readers |-> b, waits |-> c, likelyWriters |-> d, likelyReaders |-> f \ {s}]
      BY <1>6, <2>2, <2>4 DEF Likely
    <3>2. v[k] = [changed EXCEPT !.readers = given]
      BY <2>1, <2>2, <2>4
    <3> QED
      BY <2>4, <3>1, <3>2
  <2> QED
    BY <2>3, <2>4
<1>9. DOMAIN v = DOMAIN list /\ \A j \in DOMAIN list \ {k} : v[j] = list[j]
  BY <1>2
<1>10. RolesFit(v[k], ServicesIn(store)) /\ (\A r \in Role : e[r] \subseteq v[k][r]) /\ v[k][role] = given
  <2>1. CASE role = "writers"
    <3>1. v[k] = [writers |-> given, readers |-> b, waits |-> c, likelyWriters |-> d \ {s}, likelyReaders |-> f]
      BY <1>8, <2>1
    <3>2. given = (IF accept THEN a \union {s} ELSE a) /\ s \in d
      BY <1>2, <1>3, <1>6, <2>1 DEF Likely
    <3> QED
      BY <1>6, <1>7, <2>1, <3>1, <3>2 DEF RolesFit, RoleLists, Role
  <2>2. CASE role = "readers"
    <3>1. v[k] = [writers |-> a, readers |-> given, waits |-> c, likelyWriters |-> d, likelyReaders |-> f \ {s}]
      BY <1>8, <2>2
    <3>2. given = (IF accept THEN b \union {s} ELSE b) /\ s \in f
      BY <1>2, <1>3, <1>6, <2>2 DEF Likely
    <3> QED
      BY <1>6, <1>7, <2>2, <3>1, <3>2 DEF RolesFit, RoleLists, Role
  <2> QED
    BY <2>1, <2>2
<1>11. store' = [store EXCEPT ![n].keyspaces = v]
  <2>1. /\ store[n].keyspaces = list /\ store[n].keyspaces[k] = e
        /\ displayed.of = n
    BY <1>1
  <2>2. store' = [store EXCEPT ![n].keyspaces =
          [store[n].keyspaces EXCEPT ![k] = [[e EXCEPT ![Likely(role)] = @ \ {s}] EXCEPT ![role] = IF accept THEN @ \union {s} ELSE @]]]
    BY <2>1, Zenon DEF HandleSuggestion
  <2>3. [[e EXCEPT ![Likely(role)] = @ \ {s}] EXCEPT ![role] = IF accept THEN @ \union {s} ELSE @]
        = [[e EXCEPT ![Likely(role)] = e[Likely(role)] \ {s}] EXCEPT ![role] = given]
    <3>1. [e EXCEPT ![Likely(role)] = @ \ {s}][role] = e[role]
      BY <1>6 DEF Likely
    <3> QED
      BY <1>2, <3>1
  <2> QED
    BY <1>2, <2>1, <2>2, <2>3
<1>12. KeysSet(store, n, v, store')
  BY <1>4, <1>5, <1>9, <1>10, <1>11 DEF KeysSet
<1>13. ASSUME "behind" \notin wrong', NEW w \in wanted' PROVE Met(store', w)
  <2>1. /\ w = Wish(w.node, w.key, w.role, w.by) /\ w.role \in Role /\ IsPrimary(store, w.node)
        /\ w.node # n => Met(store, w)
        /\ w.node = n => w.key \in DOMAIN v /\ w.by \in v[w.key][w.role]
    <3>1. CASE w \in wanted
      <4>1. /\ w = Wish(w.node, w.key, w.role, w.by) /\ w.role \in Role /\ IsPrimary(store, w.node)
            /\ w.key \in DOMAIN store[w.node].keyspaces /\ w.by \in store[w.node].keyspaces[w.key][w.role]
        BY <1>3, <1>13, <3>1, WishesBefore
      <4>2. w.node # n => Met(store, w)
        BY <4>1 DEF Met
      <4>3. w.node = n => w.key \in DOMAIN v /\ w.by \in v[w.key][w.role]
        BY <1>1, <1>9, <1>10, <4>1
      <4> QED
        BY <4>1, <4>2, <4>3
    <3>2. CASE w \notin wanted
      <4>1. accept /\ w = Wish(n, k, role, s)
        BY <1>3, <1>13, <3>2
      <4>2. w.node = n /\ w.key = k /\ w.role = role /\ w.by = s /\ w = Wish(w.node, w.key, w.role, w.by)
        BY <4>1, WishIs
      <4> QED
        <5>1. s \in given /\ role \in Role
          BY <1>2, <4>1 DEF Role
        <5>2. s \in v[k][role]
          BY <1>10, <5>1
        <5> QED
          BY <1>3, <1>4, <1>9, <4>2, <5>1, <5>2
    <3> QED
      BY <3>1, <3>2
  <2> QED
    BY <1>12, <2>1, MetStays
<1>14. StoreFits(store') /\ IsPrimary(store', n)
  BY <1>4, <1>12, KeyspacesSet, ShapeKeeps DEF IsPrimary
<1>15. TabFits(displayed')
  BY <1>3, <1>14, TabIs
<1> QED
  BY <1>3, <1>4, <1>12, <1>13, <1>15, KeyspaceStep

LEMMA ShowStep ==
  ASSUME RedisInv, NEW n, Show(n)
  PROVE  RedisInv'
<1>1. /\ n \in Redis /\ displayed' = [of |-> n, list |-> store[n].keyspaces]
      /\ UNCHANGED <<redisFiles, scan, wanted, wrong, budget>>
  BY DEF Show
<1>2. UNCHANGED <<store, services, scraped, folders>>
  BY <1>1 DEF redisFiles
<1>3. ASSUME "lost" \notin wrong PROVE TabFits(displayed')
  <2>1. \A k \in DOMAIN store[n].keyspaces : RolesFit(store[n].keyspaces[k], ServicesIn(store))
    BY <1>1, <1>3, EntryBefore, ServicesAre
  <2>2. \A k \in DOMAIN store[n].keyspaces : RoleLists(store[n].keyspaces[k])
    BY <2>1 DEF RolesFit
  <2> QED
    BY <1>1, <2>2 DEF TabFits
<1> QED
  BY <1>1, <1>2, <1>3 DEF RedisInv

LEMMA ScanStartsStep ==
  ASSUME RedisInv, ScanStarts
  PROVE  RedisInv'
<1>1. /\ "lost" \notin wrong /\ displayed.of \in Redis
      /\ scan' = [of |-> displayed.of, loaded |-> store]
      /\ UNCHANGED <<store, services, scraped, folders, displayed, wanted, wrong>>
  BY DEF ScanStarts, Request1, redisFiles
<1>2. ScanFits(scan')
  BY <1>1, ServicesAre DEF ScanFits
<1> QED
  BY <1>1, <1>2 DEF RedisInv

LEMMA ScanFailsStep ==
  ASSUME RedisInv, ScanFails
  PROVE  RedisInv'
<1>1. scan' = NoScan /\ UNCHANGED <<store, services, scraped, folders, displayed, wanted, wrong>>
  BY DEF ScanFails, redisFiles
<1> QED
  BY <1>1 DEF RedisInv, ScanFits

LEMMA ScanSavesStep ==
  ASSUME RedisInv, NEW found, NEW named, NEW parts, ScanSaves(found, named, parts)
  PROVE  RedisInv'
<1> SUFFICES ASSUME "lost" \notin wrong' PROVE RedisInv'
  BY Zenon DEF RedisInv
<1>1. /\ scan # NoScan /\ store = scan.loaded /\ wrong' = wrong /\ scan' = NoScan
      /\ UNCHANGED <<services, scraped, folders, wanted>>
  BY DEF ScanSaves
<1>2. PICK n, list : n = scan.of /\ list = store[n].keyspaces
  OBVIOUS
<1> DEFINE all == [k \in found \union DOMAIN list |-> IF k \in DOMAIN list THEN list[k] ELSE NewKeyspace]
           hints(k, role) == all[k][Likely(role)] \union IF role \in parts THEN named \ all[k][role] ELSE {}
           seen == [k \in DOMAIN all |-> [[all[k] EXCEPT !.likelyWriters = hints(k, "writers")]
                                            EXCEPT !.likelyReaders = hints(k, "readers")]]
<1>3. /\ found \intersect DOMAIN list = {} /\ named \subseteq ServicesIn(store)
      /\ store' = [store EXCEPT ![n].keyspaces = seen]
      /\ displayed' = [of |-> n, list |-> seen]
  BY <1>1, <1>2 DEF ScanSaves, ServicesIn
<1>4. "lost" \notin wrong /\ StoreFits(store) /\ IsPrimary(store, n)
  BY <1>1, <1>2 DEF RedisInv, ScanFits
<1>5. \A k \in DOMAIN list : RolesFit(list[k], ServicesIn(store))
  BY <1>2, <1>4, EntryBefore
<1>6. ASSUME NEW k \in DOMAIN seen
      PROVE  /\ RolesFit(seen[k], ServicesIn(store))
             /\ k \in DOMAIN list => \A role \in Role : seen[k][role] = list[k][role]
  <2>1. RolesFit(NewKeyspace, ServicesIn(store))
    BY DEF RolesFit, RoleLists, NewKeyspace
  <2>2. PICK e, hw, hr : e = all[k] /\ hw = hints(k, "writers") /\ hr = hints(k, "readers")
    OBVIOUS
  <2>3. k \in DOMAIN all /\ (k \in DOMAIN list => e = list[k]) /\ RolesFit(e, ServicesIn(store))
    BY <1>5, <1>6, <2>1, <2>2
  <2>4. seen[k] = [[e EXCEPT !.likelyWriters = hw] EXCEPT !.likelyReaders = hr]
    BY <2>2, <2>3
  <2> HIDE DEF seen
  <2>5. PICK a, b, c, d, f : e = [writers |-> a, readers |-> b, waits |-> c, likelyWriters |-> d, likelyReaders |-> f]
    BY <2>3 DEF RolesFit, RoleLists
  <2>6. PICK changed : changed = [e EXCEPT !.likelyWriters = hw]
    OBVIOUS
  <2>7. changed = [writers |-> a, readers |-> b, waits |-> c, likelyWriters |-> hw, likelyReaders |-> f]
    BY <2>5, <2>6
  <2>8. seen[k] = [writers |-> a, readers |-> b, waits |-> c, likelyWriters |-> hw, likelyReaders |-> hr]
    <3>1. seen[k] = [changed EXCEPT !.likelyReaders = hr]
      BY <2>4, <2>6
    <3> QED
      BY <2>7, <3>1
  <2>9. /\ a \subseteq ServicesIn(store) /\ b \subseteq ServicesIn(store) /\ c \subseteq a
        /\ d \subseteq ServicesIn(store) \ a /\ f \subseteq ServicesIn(store) \ b
    <3>1. a = e.writers /\ b = e.readers /\ c = e.waits /\ d = e.likelyWriters /\ f = e.likelyReaders
      BY <2>5
    <3> QED
      BY <2>3, <3>1 DEF RolesFit
  <2>10. /\ hw = d \union (IF "writers" \in parts THEN named \ a ELSE {})
         /\ hr = f \union (IF "readers" \in parts THEN named \ b ELSE {})
    BY <2>2, <2>5 DEF Likely
  <2>11. hw \subseteq ServicesIn(store) \ a /\ hr \subseteq ServicesIn(store) \ b
    BY <1>3, <2>9, <2>10
  <2>12. RolesFit(seen[k], ServicesIn(store))
    BY <2>8, <2>9, <2>11 DEF RolesFit, RoleLists
  <2>13. \A role \in Role : seen[k][role] = e[role]
    BY <2>5, <2>8 DEF Role
  <2> QED
    BY <2>3, <2>12, <2>13
<1>7. DOMAIN list \subseteq DOMAIN seen
  OBVIOUS
<1> HIDE DEF seen
<1>8. PICK v : v = seen
  OBVIOUS
<1>9. KeysSet(store, n, v, store')
  BY <1>3, <1>4, <1>6, <1>8 DEF KeysSet
<1>10. TabFits(displayed') /\ ScanFits(scan')
  BY <1>1, <1>3, <1>6 DEF TabFits, ScanFits, RolesFit
<1>11. ASSUME "behind" \notin wrong', NEW w \in wanted' PROVE Met(store', w)
  <2>1. /\ w = Wish(w.node, w.key, w.role, w.by) /\ w.role \in Role /\ IsPrimary(store, w.node)
        /\ w.key \in DOMAIN store[w.node].keyspaces /\ w.by \in store[w.node].keyspaces[w.key][w.role]
    BY <1>1, <1>4, <1>11, WishesBefore
  <2>2. w.node # n => Met(store, w)
    BY <2>1 DEF Met
  <2>3. w.node = n => w.key \in DOMAIN v /\ w.by \in v[w.key][w.role]
    BY <1>2, <1>6, <1>7, <1>8, <2>1
  <2> QED
    BY <1>9, <2>1, <2>2, <2>3, MetStays
<1> QED
  BY <1>1, <1>4, <1>9, <1>10, <1>11, KeyspaceStep

\* A node more.
Added(st, n, x, st2) ==
  /\ DOMAIN st2 = DOMAIN st \union {n} /\ n \notin DOMAIN st /\ st2[n] = x
  /\ \A m \in DOMAIN st : st2[m] = st[m]
NewNode(x) == NodeFits(x) /\ x.parent = NoParent /\ ~x.sentinel /\ \A k \in DOMAIN x.keyspaces : x.keyspaces[k] = NewKeyspace

LEMMA AddedIs ==
  ASSUME NEW st, NEW n, NEW x, NEW st2, n \notin DOMAIN st, st2 = Over(One(n, x), st)
  PROVE  Added(st, n, x, st2)
BY DEF Added, Over, One

LEMMA NodeIs ==
  ASSUME NEW type \in {"redis", "service"}, NEW parent, NEW v
  PROVE  /\ Node(type, parent) = [type |-> type, parent |-> parent, sentinel |-> FALSE, members |-> 0,
                                   persistence |-> "image", keyspaces |-> <<>>]
         /\ [Node(type, parent) EXCEPT !.keyspaces = v] =
              [type |-> type, parent |-> parent, sentinel |-> FALSE, members |-> 0, persistence |-> "image", keyspaces |-> v]
         /\ DOMAIN <<>> = {}
<1>1. PICK no : no = FALSE
  OBVIOUS
<1>2. Node(type, parent) = [type |-> type, parent |-> parent, sentinel |-> no, members |-> 0,
                            persistence |-> "image", keyspaces |-> <<>>]
  BY <1>1 DEF Node
<1>3. [Node(type, parent) EXCEPT !.keyspaces = v] =
        [type |-> type, parent |-> parent, sentinel |-> no, members |-> 0, persistence |-> "image", keyspaces |-> v]
  BY <1>2
<1>4. DOMAIN <<>> = {}
  OBVIOUS
<1> QED
  BY <1>1, <1>2, <1>3, <1>4

LEMMA StoreAdded ==
  ASSUME NEW st, StoreFits(st), NEW n \in Called, NEW x, NewNode(x), NEW st2, Added(st, n, x, st2)
  PROVE  StoreFits(st2) /\ \A m \in DOMAIN st : IsPrimary(st, m) => IsPrimary(st2, m)
<1>1. IsFiniteSet(DOMAIN st2) /\ DOMAIN st2 \subseteq Called
  BY FS_AddElement DEF StoreFits, Added
<1>2. ServicesIn(st) \subseteq ServicesIn(st2)
  BY DEF ServicesIn, Added
<1>3. ASSUME NEW m \in DOMAIN st
      PROVE  /\ NodeFits(st2[m]) /\ (st2[m].parent # NoParent => ReplicaFits(st2, m))
             /\ \A k \in DOMAIN st2[m].keyspaces : RolesFit(st2[m].keyspaces[k], ServicesIn(st2))
  <2>1. /\ st2[m] = st[m] /\ NodeFits(st[m]) /\ (st[m].parent # NoParent => ReplicaFits(st, m))
        /\ \A k \in DOMAIN st[m].keyspaces : RolesFit(st[m].keyspaces[k], ServicesIn(st))
    BY <1>3 DEF StoreFits, Added
  <2>2. ReplicaFits(st, m) => ReplicaFits(st2, m)
    BY <1>3 DEF ReplicaFits, Added
  <2>3. \A k \in DOMAIN st[m].keyspaces : RolesFit(st[m].keyspaces[k], ServicesIn(st2))
    BY <1>2, <2>1 DEF RolesFit
  <2> QED
    BY <2>1, <2>2, <2>3
<1>4. /\ NodeFits(st2[n]) /\ (st2[n].parent # NoParent => ReplicaFits(st2, n))
      /\ \A k \in DOMAIN st2[n].keyspaces : RolesFit(st2[n].keyspaces[k], ServicesIn(st2))
  <2>1. RolesFit(NewKeyspace, ServicesIn(st2))
    BY DEF RolesFit, RoleLists, NewKeyspace
  <2> QED
    BY <2>1 DEF NewNode, Added
<1>5. \A m \in DOMAIN st : IsPrimary(st, m) => IsPrimary(st2, m)
  BY DEF IsPrimary, Added
<1>6. DOMAIN st2 = DOMAIN st \union {n}
  BY DEF Added
<1> QED
  BY <1>1, <1>3, <1>4, <1>5, <1>6 DEF StoreFits

LEMMA MetAdded ==
  ASSUME NEW st, StoreFits(st), NEW n \in Called, NEW x, NewNode(x), NEW st2, Added(st, n, x, st2), NEW w, Met(st, w)
  PROVE  Met(st2, w)
<1>1. w.node \in DOMAIN st
  BY DEF Met, IsPrimary
<1>2. st2[w.node] = st[w.node] /\ IsPrimary(st2, w.node)
  BY <1>1, StoreAdded DEF Added, Met
<1> QED
  BY <1>2 DEF Met

\* Its containers are started.
BroughtUp(n, x, sv, own, sv2) ==
  /\ own \intersect DOMAIN sv = {} /\ Containers(x, n) \subseteq own
  /\ DOMAIN sv2 = DOMAIN sv \union own /\ \A c \in DOMAIN sv : sv2[c] = sv[c]
  /\ \A c \in own :
       /\ sv2[c] = Holding(n, sv2[c].flags)
       /\ c \in Containers(x, n) \/ (c = Append(n, "init") /\ x.type = "redis" /\ x.members = 0)
       /\ x.type = "redis" => sv2[c].flags = IF c \in Keepers(x, n) THEN x.persistence ELSE "none"

LEMMA BuiltAdded ==
  ASSUME NEW st, StoreFits(st), NEW n, NEW x, NewNode(x), NEW st2, Added(st, n, x, st2),
         NEW sv, BuiltAs(st, sv), NEW own, NEW sv2, BroughtUp(n, x, sv, own, sv2)
  PROVE  BuiltAs(st2, sv2)
<1> USE DEF BroughtUp
<1>1. /\ DOMAIN st2 = DOMAIN st \union {n} /\ n \notin DOMAIN st /\ st2[n] = x
      /\ \A m \in DOMAIN st : st2[m] = st[m]
  BY DEF Added
<1>2. \A m \in DOMAIN st : \A c \in Containers(st[m], m) : c \in DOMAIN sv /\ sv[c].owner = m
  BY DEF BuiltAs
<1>3. ASSUME NEW m \in DOMAIN st2, NEW c \in Containers(st2[m], m) PROVE c \in DOMAIN sv2 /\ sv2[c].owner = m
  <2>1. CASE m = n
    <3>1. c \in own /\ sv2[c] = Holding(n, sv2[c].flags)
      BY <1>1, <1>3, <2>1
    <3> QED
      BY <2>1, <3>1 DEF Holding
  <2>2. CASE m # n
    BY <1>1, <1>2, <1>3, <2>2
  <2> QED
    BY <2>1, <2>2
<1>4. ASSUME NEW c \in DOMAIN sv2 PROVE OwnerFits(st2, sv2, c)
  <2>1. CASE c \in own
    <3>1. /\ sv2[c] = Holding(n, sv2[c].flags)
          /\ c \in Containers(x, n) \/ (c = Append(n, "init") /\ x.type = "redis" /\ x.members = 0)
          /\ x.type = "redis" => sv2[c].flags = IF c \in Keepers(x, n) THEN x.persistence ELSE "none"
      BY <2>1
    <3>2. sv2[c].owner = n /\ Master(st2, n) = n /\ x.parent = NoParent
      BY <1>1, <3>1 DEF Holding, Master, NewNode
    <3> QED
      BY <1>1, <3>1, <3>2 DEF OwnerFits, SeededBy, IsPrimary
  <2>2. CASE c \notin own
    <3>1. c \in DOMAIN sv /\ sv2[c] = sv[c] /\ OwnerFits(st, sv, c)
      BY <1>4, <2>2 DEF BuiltAs
    <3>2. PICK m : m = sv[c].owner
      OBVIOUS
    <3>3. /\ sv[c] = Holding(m, sv[c].flags) /\ m \in DOMAIN st
          /\ c \in Containers(st[m], m) \/ (c = Append(m, "init") /\ SeededBy(st, m))
          /\ st[m].type = "redis" =>
               sv[c].flags = IF c \in Keepers(st[m], m) THEN st[Master(st, m)].persistence ELSE "none"
      BY <3>1, <3>2 DEF OwnerFits
    <3>4. st2[m] = st[m] /\ (SeededBy(st, m) => SeededBy(st2, m)) /\ Master(st2, m) = Master(st, m)
      BY <1>1, <3>3 DEF SeededBy, IsPrimary, Master
    <3>5. st[m].type = "redis" => st2[Master(st, m)] = st[Master(st, m)]
      BY <1>1, <3>3, MasterIs
    <3> QED
      BY <1>1, <3>1, <3>2, <3>3, <3>4, <3>5 DEF OwnerFits
  <2> QED
    BY <2>1, <2>2
<1> QED
  BY <1>3, <1>4 DEF BuiltAs

Filed(n, x, fo, fo2) ==
  /\ DOMAIN fo \subseteq DOMAIN fo2 /\ \A f \in DOMAIN fo : fo2[f] = fo[f]
  /\ x.type = "service" => n \in DOMAIN fo2 /\ "code" \in fo2[n]

LEMMA FoldersAdded ==
  ASSUME NEW st, NEW n, NEW x, NewNode(x), NEW st2, Added(st, n, x, st2),
         NEW sc, NEW fo, FoldersFit(st, sc, fo), n \notin DOMAIN fo,
         NEW sc2, sc2 = Over(One(n, Scrapes(x, n)), sc),
         NEW fo2, Filed(n, x, fo, fo2)
  PROVE  FoldersFit(st2, sc2, fo2)
<1> USE DEF Filed
<1>1. /\ DOMAIN st2 = DOMAIN st \union {n} /\ n \notin DOMAIN st /\ st2[n] = x
      /\ \A m \in DOMAIN st : st2[m] = st[m]
  BY DEF Added
<1>2. /\ sc = [m \in DOMAIN st |-> Scrapes(st[m], m)]
      /\ \A m \in DOMAIN st :
           /\ st[m].sentinel => Append(m, "sentinel") \in DOMAIN fo \ DOMAIN st
           /\ st[m].type = "service" => m \in DOMAIN fo /\ "code" \in fo[m]
  BY DEF FoldersFit
<1>3. sc2 = [m \in DOMAIN st2 |-> Scrapes(st2[m], m)]
  BY <1>1, <1>2 DEF Over, One
<1>4. ASSUME NEW m \in DOMAIN st2
      PROVE  /\ st2[m].sentinel => Append(m, "sentinel") \in DOMAIN fo2 \ DOMAIN st2
             /\ st2[m].type = "service" => m \in DOMAIN fo2 /\ "code" \in fo2[m]
  <2>1. CASE m = n
    BY <1>1, <2>1 DEF NewNode
  <2>2. CASE m # n
    BY <1>1, <1>2, <1>4, <2>2
  <2> QED
    BY <2>1, <2>2
<1> QED
  BY <1>3, <1>4 DEF FoldersFit

LEMMA RequestIs == ASSUME Request1 PROVE "lost" \notin wrong
BY DEF Request1

LEMMA AddRedisStep ==
  ASSUME RedisInv, NEW n \in RedisId, NEW keys, AddRedis(n, keys)
  PROVE  RedisInv'
<1>1. PICK x : x = [Node("redis", NoParent) EXCEPT !.keyspaces = [k \in keys |-> NewKeyspace]]
  OBVIOUS
<1>2. PICK own : own = {n, Append(n, "exporter")} \union {Append(n, "init") : k \in keys}
  OBVIOUS
<1>3. /\ "lost" \notin wrong /\ n \notin DOMAIN store \union DOMAIN folders
      /\ store' = Over(One(n, x), store)
      /\ services' = Over(Over(Data(n, {n}, "image"), Plain(n, own)), services)
      /\ scraped' = Over(One(n, {Append(n, "exporter")}), scraped)
      /\ NoteOverwritten(own)
      /\ UNCHANGED <<folders, scan, displayed, wanted>>
  BY <1>1, <1>2, RequestIs DEF AddRedis
<1>4. n \in Called
  BY RedisNamesAreStrings DEF Called
<1>5. x = [type |-> "redis", parent |-> NoParent, sentinel |-> FALSE, members |-> 0, persistence |-> "image",
           keyspaces |-> [k \in keys |-> NewKeyspace]]
  BY <1>1, NodeIs
<1>6. /\ x.type = "redis" /\ x.parent = NoParent /\ x.sentinel = FALSE /\ x.members = 0 /\ x.persistence = "image"
      /\ x.keyspaces = [k \in keys |-> NewKeyspace]
  BY <1>5
<1>7. NewNode(x)
  BY <1>5, <1>6 DEF NewNode, NodeFits
<1>8. Added(store, n, x, store')
  BY <1>3, AddedIs
<1>9. StoreFits(store) /\ TabFits(displayed) /\ ScanFits(scan)
  BY <1>3 DEF RedisInv
<1>10. StoreFits(store')
  BY <1>4, <1>7, <1>8, <1>9, StoreAdded
<1>11. ASSUME "behind" \notin wrong', NEW w \in wanted' PROVE Met(store', w)
  <2>1. Met(store, w)
    BY <1>3, <1>11 DEF RedisInv, NoteOverwritten
  <2> QED
    BY <1>4, <1>7, <1>8, <1>9, <2>1, MetAdded
<1>12. Containers(x, n) = {n, Append(n, "exporter")} /\ Keepers(x, n) = {n} /\ Scrapes(x, n) = {Append(n, "exporter")}
  BY <1>6 DEF Containers, Keepers, Scrapes
<1>13. ASSUME "collided" \notin wrong' PROVE BuiltAs(store', services')
  <2>1. own \intersect DOMAIN services = {} /\ BuiltAs(store, services)
    BY <1>3, <1>13 DEF RedisInv, NoteOverwritten
  <2>2. /\ DOMAIN services' = DOMAIN services \union own
        /\ \A c \in DOMAIN services : services'[c] = services[c]
        /\ \A c \in own : services'[c] = Holding(n, IF c = n THEN "image" ELSE "none")
    BY <1>2, <1>3, <2>1 DEF Over, Data, Plain
  <2>3. ASSUME NEW c \in own
        PROVE  /\ services'[c] = Holding(n, services'[c].flags)
               /\ c \in Containers(x, n) \/ (c = Append(n, "init") /\ x.type = "redis" /\ x.members = 0)
               /\ x.type = "redis" => services'[c].flags = IF c \in Keepers(x, n) THEN x.persistence ELSE "none"
    <3>1. services'[c].flags = IF c = n THEN "image" ELSE "none"
      BY <2>2, <2>3 DEF Holding
    <3>2. c \in {n, Append(n, "exporter")} \/ c = Append(n, "init")
      BY <1>2, <2>3
    <3> QED
      BY <1>6, <1>12, <2>2, <2>3, <3>1, <3>2
  <2>4. Containers(x, n) \subseteq own
    BY <1>2, <1>12
  <2>5. BroughtUp(n, x, services, own, services')
    BY <2>1, <2>2, <2>3, <2>4 DEF BroughtUp
  <2> QED
    BY <1>7, <1>8, <1>9, <2>1, <2>5, BuiltAdded
<1>14. ASSUME wrong' \intersect {"shared", "torn"} = {} PROVE FoldersFit(store', scraped', folders')
  <2>1. FoldersFit(store, scraped, folders)
    BY <1>3, <1>14 DEF RedisInv, NoteOverwritten
  <2>2. Filed(n, x, folders, folders') /\ scraped' = Over(One(n, Scrapes(x, n)), scraped)
    BY <1>3, <1>6, <1>12 DEF Filed
  <2> QED
    BY <1>3, <1>7, <1>8, <2>1, <2>2, FoldersAdded
<1> QED
  BY <1>3, <1>9, <1>10, <1>11, <1>13, <1>14 DEF RedisInv

LEMMA AddBackendStep ==
  ASSUME RedisInv, NEW n \in RedisId, AddBackend(n)
  PROVE  RedisInv'
<1>1. PICK x : x = Node("service", NoParent)
  OBVIOUS
<1>2. /\ "lost" \notin wrong /\ n \notin DOMAIN store \union DOMAIN folders
      /\ store' = Over(One(n, x), store)
      /\ services' = Over(Plain(n, {n}), services)
      /\ scraped' = Over(One(n, {n}), scraped)
      /\ folders' = Over(One(n, {"code"}), folders)
      /\ NoteOverwritten({n})
      /\ UNCHANGED <<scan, displayed, wanted>>
  BY <1>1, RequestIs DEF AddBackend
<1>3. n \in Called
  BY RedisNamesAreStrings DEF Called
<1>4. /\ x = [type |-> "service", parent |-> NoParent, sentinel |-> FALSE, members |-> 0, persistence |-> "image",
             keyspaces |-> <<>>]
      /\ DOMAIN <<>> = {}
  BY <1>1, NodeIs
<1>5. /\ x.type = "service" /\ x.parent = NoParent /\ x.sentinel = FALSE /\ x.members = 0 /\ DOMAIN x.keyspaces = {}
      /\ x = [type |-> x.type, parent |-> x.parent, sentinel |-> x.sentinel, members |-> x.members,
              persistence |-> x.persistence, keyspaces |-> x.keyspaces]
  BY <1>4
<1>6. NewNode(x)
  BY <1>5 DEF NewNode, NodeFits
<1>7. Added(store, n, x, store')
  BY <1>2, AddedIs
<1>8. StoreFits(store) /\ TabFits(displayed) /\ ScanFits(scan)
  BY <1>2 DEF RedisInv
<1>9. StoreFits(store')
  BY <1>3, <1>6, <1>7, <1>8, StoreAdded
<1>10. ASSUME "behind" \notin wrong', NEW w \in wanted' PROVE Met(store', w)
  <2>1. Met(store, w)
    BY <1>2, <1>10 DEF RedisInv, NoteOverwritten
  <2> QED
    BY <1>3, <1>6, <1>7, <1>8, <2>1, MetAdded
<1>11. Containers(x, n) = {n} /\ Scrapes(x, n) = {n}
  BY <1>5 DEF Containers, Scrapes
<1>12. ASSUME "collided" \notin wrong' PROVE BuiltAs(store', services')
  <2>1. {n} \intersect DOMAIN services = {} /\ BuiltAs(store, services)
    BY <1>2, <1>12 DEF RedisInv, NoteOverwritten
  <2>2. /\ DOMAIN services' = DOMAIN services \union {n}
        /\ \A c \in DOMAIN services : services'[c] = services[c]
        /\ services'[n] = Holding(n, "none")
    BY <1>2, <2>1 DEF Over, Plain, Data
  <2>3. ASSUME NEW c \in {n}
        PROVE  /\ services'[c] = Holding(n, services'[c].flags)
               /\ c \in Containers(x, n) \/ (c = Append(n, "init") /\ x.type = "redis" /\ x.members = 0)
               /\ x.type = "redis" => services'[c].flags = IF c \in Keepers(x, n) THEN x.persistence ELSE "none"
    <3>1. services'[n].flags = "none"
      BY <2>2 DEF Holding
    <3> QED
      BY <1>5, <1>11, <2>2, <3>1
  <2>4. BroughtUp(n, x, services, {n}, services')
    BY <1>11, <2>1, <2>2, <2>3 DEF BroughtUp
  <2> QED
    BY <1>6, <1>7, <1>8, <2>1, <2>4, BuiltAdded
<1>13. ASSUME wrong' \intersect {"shared", "torn"} = {} PROVE FoldersFit(store', scraped', folders')
  <2>1. FoldersFit(store, scraped, folders)
    BY <1>2, <1>13 DEF RedisInv, NoteOverwritten
  <2>2. /\ DOMAIN folders \subseteq DOMAIN folders' /\ \A f \in DOMAIN folders : folders'[f] = folders[f]
        /\ n \in DOMAIN folders' /\ "code" \in folders'[n]
    BY <1>2 DEF Over, One
  <2>3. Filed(n, x, folders, folders') /\ scraped' = Over(One(n, Scrapes(x, n)), scraped)
    BY <1>2, <1>5, <1>11, <2>2 DEF Filed
  <2> QED
    BY <1>2, <1>6, <1>7, <2>1, <2>3, FoldersAdded
<1> QED
  BY <1>2, <1>8, <1>9, <1>10, <1>12, <1>13 DEF RedisInv

LEMMA MembersAre ==
  ASSUME NEW st, StoreFits(st), NEW n \in DOMAIN st
  PROVE  /\ st[n].members \in 0..Len(Digit) /\ st[n].members \in Nat /\ Len(Digit) \in Nat
         /\ st[n].members = 0 \/ st[n].members > 0
<1>1. st[n].members \in {0} \union ClusterSizes
  BY DEF StoreFits, NodeFits
<1>2. PICK k, d : k = st[n].members /\ d = Len(Digit)
  OBVIOUS
<1>3. d \in Nat /\ (k = 0 \/ k \in 1..d)
  BY <1>1, <1>2, DigitsAre, RedisSizesCount
<1>4. k \in 0..d /\ k \in Nat /\ (k = 0 \/ k > 0)
  BY <1>3
<1> QED
  BY <1>2, <1>3, <1>4

\* The containers that a setting is written to are those that hold the keys of the node or of one
\* of its replicas.
LEMMA TargetsAre ==
  ASSUME StoreFits(store), BuiltAs(store, services), NEW n, IsPrimary(store, n), NEW c \in DOMAIN services,
         NEW m, m = services[c].owner, store[m].type = "redis"
  PROVE  /\ c \in DataTargets(n) => Master(store, m) = n /\ c \in Keepers(store[m], m)
         /\ Master(store, m) = n /\ c \in Keepers(store[m], m) => c \in DataTargets(n)
<1>1. /\ n \in DOMAIN store /\ store[n].type = "redis" /\ store[n].parent = NoParent /\ m \in DOMAIN store
      /\ n # NoParent
  BY DEF IsPrimary, BuiltAs, OwnerFits, StoreFits, Called, NoParent
<1>2. \A q \in DOMAIN store : \A d \in Containers(store[q], q) : services[d].owner = q
  BY DEF BuiltAs
<1>3. Keepers(store[n], n) \subseteq Containers(store[n], n)
  BY <1>1 DEF Keepers, Containers, WithExporters
<1>4. ASSUME NEW r \in ReplicasOf(n)
      PROVE  /\ r \in DOMAIN store /\ store[r].type = "redis" /\ store[r].members = 0 /\ Master(store, r) = n
             /\ Keepers(store[r], r) = {r} /\ r \in Containers(store[r], r)
  <2>1. r \in DOMAIN store /\ store[r].parent = n
    BY DEF ReplicasOf
  <2>2. store[r].type = "redis" /\ store[r].members = 0
    BY <1>1, <2>1 DEF StoreFits, NodeFits, ReplicaFits
  <2> QED
    BY <1>1, <2>1, <2>2 DEF Master, Keepers, Containers
<1>5. ASSUME c \in DataTargets(n)
      PROVE  Master(store, m) = n /\ c \in Keepers(store[m], m)
  <2>1. CASE c \in Keepers(store[n], n)
    <3>1. m = n
      BY <1>1, <1>2, <1>3, <2>1
    <3> QED
      BY <1>1, <2>1, <3>1 DEF Master
  <2>2. CASE c \in ReplicasOf(n)
    <3>1. m = c
      BY <1>2, <1>4, <2>2
    <3> QED
      BY <1>4, <2>2, <3>1
  <2> QED
    BY <1>5, <2>1, <2>2 DEF DataTargets, Keepers
<1>6. ASSUME Master(store, m) = n, c \in Keepers(store[m], m)
      PROVE  c \in DataTargets(n)
  <2>1. CASE store[m].parent = NoParent
    <3>1. m = n
      BY <1>6, <2>1 DEF Master
    <3> QED
      BY <1>6, <3>1 DEF Keepers, DataTargets
  <2>2. CASE store[m].parent # NoParent
    <3>1. store[n].sentinel /\ store[m].members = 0 /\ store[m].parent = n
      BY <1>1, <1>6, <2>2, MasterIs DEF Master
    <3>2. store[n].members = 0
      BY <1>1, <3>1 DEF StoreFits, NodeFits
    <3>3. m \in ReplicasOf(n) /\ c = m
      BY <1>1, <1>6, <3>1 DEF ReplicasOf, Keepers
    <3> QED
      BY <3>2, <3>3 DEF DataTargets
  <2> QED
    BY <2>1, <2>2
<1> QED
  BY <1>5, <1>6

LEMMA SetPersistenceStep ==
  ASSUME RedisInv, NEW n \in Primary, NEW p, SetPersistence(n, p)
  PROVE  RedisInv'
<1>1. /\ "lost" \notin wrong /\ n \in Primary
      /\ store' = [store EXCEPT ![n].persistence = p]
      /\ services' = [c \in DOMAIN services |-> IF c \in DataTargets(n) THEN [services[c] EXCEPT !.flags = p] ELSE services[c]]
      /\ UNCHANGED <<scraped, folders, scan, displayed, wanted, wrong>>
  BY RequestIs DEF SetPersistence
<1>2. StoreFits(store) /\ TabFits(displayed) /\ ScanFits(scan) /\ IsPrimary(store, n)
  BY <1>1 DEF RedisInv, Primary, Of, IsPrimary
<1>3. n \in DOMAIN store /\ NodeFits(store[n])
  BY <1>2 DEF IsPrimary, StoreFits
<1>4. /\ DOMAIN store' = DOMAIN store /\ \A m \in DOMAIN store \ {n} : store'[m] = store[m]
      /\ store'[n] = [store[n] EXCEPT !.persistence = p]
  BY <1>1, <1>3
<1>5. store'[n] = [type |-> store[n].type, parent |-> store[n].parent, sentinel |-> store[n].sentinel,
                   members |-> store[n].members, persistence |-> p, keyspaces |-> store[n].keyspaces]
  <2>1. PICK a, b, c, d, e, f : store[n] = [type |-> a, parent |-> b, sentinel |-> c, members |-> d, persistence |-> e, keyspaces |-> f]
    BY <1>3 DEF NodeFits
  <2> QED
    BY <1>4, <2>1
<1>6. \A m \in DOMAIN store :
        /\ store'[m].type = store[m].type /\ store'[m].parent = store[m].parent /\ store'[m].sentinel = store[m].sentinel
        /\ store'[m].members = store[m].members /\ store'[m].keyspaces = store[m].keyspaces
        /\ store'[m].persistence = IF m = n THEN p ELSE store[m].persistence
  BY <1>4, <1>5
<1>7. ASSUME NEW m \in DOMAIN store PROVE NodeFits(store'[m])
  <2>1. NodeFits(store[m])
    BY <1>2 DEF StoreFits
  <2>2. CASE m = n
    BY <1>5, <1>6, <2>1, <2>2 DEF NodeFits
  <2> QED
    BY <1>4, <2>1, <2>2
<1>8. ServicesIn(store') = ServicesIn(store)
  BY <1>4, <1>6 DEF ServicesIn
<1>9. ASSUME NEW m \in DOMAIN store
      PROVE  (store'[m].parent # NoParent => ReplicaFits(store', m)) /\ (IsPrimary(store, m) => IsPrimary(store', m))
  <2>1. store[m].parent # NoParent => ReplicaFits(store, m)
    BY <1>2 DEF StoreFits
  <2> QED
    BY <1>4, <1>6, <2>1 DEF ReplicaFits, IsPrimary
<1>10. StoreFits(store')
  BY <1>2, <1>4, <1>6, <1>7, <1>8, <1>9 DEF StoreFits
<1>11. ASSUME "behind" \notin wrong', NEW w \in wanted' PROVE Met(store', w)
  <2>1. Met(store, w) /\ w.node \in DOMAIN store
    BY <1>1, <1>11 DEF RedisInv, Met, IsPrimary
  <2> QED
    BY <1>6, <1>9, <2>1 DEF Met
<1>12. ASSUME "collided" \notin wrong' PROVE BuiltAs(store', services')
  <2>1. BuiltAs(store, services)
    BY <1>1, <1>12 DEF RedisInv
  <2>2. ASSUME NEW m \in DOMAIN store
        PROVE  /\ Containers(store'[m], m) = Containers(store[m], m) /\ Keepers(store'[m], m) = Keepers(store[m], m)
               /\ Master(store', m) = Master(store, m) /\ (SeededBy(store, m) => SeededBy(store', m))
    BY <1>4, <1>6 DEF Containers, Keepers, Master, SeededBy, IsPrimary
  <2>3. ASSUME NEW c \in DOMAIN services
        PROVE  /\ services'[c].owner = services[c].owner
               /\ services'[c] = Holding(services[c].owner, services'[c].flags)
               /\ services'[c].flags = IF c \in DataTargets(n) THEN p ELSE services[c].flags
    <3>1. services[c] = Holding(services[c].owner, services[c].flags)
      BY <2>1 DEF BuiltAs, OwnerFits
    <3>2. PICK o, f : services[c] = [owner |-> o, flags |-> f]
      BY <3>1 DEF Holding
    <3>3. services'[c] = IF c \in DataTargets(n) THEN [services[c] EXCEPT !.flags = p] ELSE services[c]
      BY <1>1
    <3>4. services'[c] = [owner |-> o, flags |-> IF c \in DataTargets(n) THEN p ELSE f]
      BY <3>2, <3>3
    <3> QED
      BY <3>2, <3>4 DEF Holding
  <2>4. DOMAIN services' = DOMAIN services
    BY <1>1
  <2>5. ASSUME NEW c \in DOMAIN services' PROVE OwnerFits(store', services', c)
    <3>1. PICK m : m = services[c].owner
      OBVIOUS
    <3>2. /\ c \in DOMAIN services /\ m \in DOMAIN store
          /\ c \in Containers(store[m], m) \/ (c = Append(m, "init") /\ SeededBy(store, m))
          /\ store[m].type = "redis" =>
               services[c].flags = IF c \in Keepers(store[m], m) THEN store[Master(store, m)].persistence ELSE "none"
      BY <2>1, <2>4, <2>5, <3>1 DEF BuiltAs, OwnerFits
    <3>3. ASSUME store'[m].type = "redis"
          PROVE  services'[c].flags = IF c \in Keepers(store'[m], m) THEN store'[Master(store', m)].persistence ELSE "none"
      <4>1. store[m].type = "redis" /\ Master(store, m) \in DOMAIN store
        BY <1>6, <1>2, <3>2, <3>3, MasterIs
      <4>2. /\ c \in DataTargets(n) => Master(store, m) = n /\ c \in Keepers(store[m], m)
            /\ Master(store, m) = n /\ c \in Keepers(store[m], m) => c \in DataTargets(n)
        BY <1>2, <2>1, <3>1, <3>2, <4>1, TargetsAre
      <4>3. store'[Master(store, m)].persistence = IF Master(store, m) = n THEN p ELSE store[Master(store, m)].persistence
        BY <1>6, <4>1
      <4> QED
        BY <2>2, <2>3, <3>2, <4>1, <4>2, <4>3
    <3> QED
      BY <1>4, <2>2, <2>3, <3>1, <3>2, <3>3 DEF OwnerFits
  <2>6. ASSUME NEW m \in DOMAIN store', NEW c \in Containers(store'[m], m)
        PROVE  c \in DOMAIN services' /\ services'[c].owner = m
    <3>1. m \in DOMAIN store /\ c \in Containers(store[m], m)
      BY <1>4, <2>2, <2>6
    <3> QED
      BY <2>1, <2>3, <2>4, <3>1 DEF BuiltAs
  <2> QED
    BY <2>5, <2>6 DEF BuiltAs
<1>13. ASSUME wrong' \intersect {"shared", "torn"} = {} PROVE FoldersFit(store', scraped', folders')
  <2>1. FoldersFit(store, scraped, folders)
    BY <1>1, <1>13 DEF RedisInv
  <2>2. \A m \in DOMAIN store : Scrapes(store'[m], m) = Scrapes(store[m], m)
    BY <1>6 DEF Scrapes, Keepers
  <2> QED
    BY <1>1, <1>4, <1>6, <2>1, <2>2 DEF FoldersFit
<1> QED
  BY <1>1, <1>2, <1>10, <1>11, <1>12, <1>13 DEF RedisInv

ScrubFits(changed, e, S, gone) == RolesFit(changed, S \ gone) /\ \A role \in Role : changed[role] = e[role] \ gone

LEMMA ScrubbedIs ==
  ASSUME NEW e, NEW S, RolesFit(e, S), NEW gone
  PROVE  ScrubFits([f \in DOMAIN e |-> e[f] \ gone], e, S, gone)
<1>1. PICK a, b, c, d, f : e = [writers |-> a, readers |-> b, waits |-> c, likelyWriters |-> d, likelyReaders |-> f]
  BY DEF RolesFit, RoleLists
<1>2. /\ a \subseteq S /\ b \subseteq S /\ c \subseteq a /\ d \subseteq S \ a /\ f \subseteq S \ b
  <2>1. a = e.writers /\ b = e.readers /\ c = e.waits /\ d = e.likelyWriters /\ f = e.likelyReaders
    BY <1>1
  <2> QED
    BY <2>1 DEF RolesFit
<1>3. [x \in DOMAIN e |-> e[x] \ gone] =
        [writers |-> a \ gone, readers |-> b \ gone, waits |-> c \ gone, likelyWriters |-> d \ gone, likelyReaders |-> f \ gone]
  BY <1>1
<1>4. RolesFit([x \in DOMAIN e |-> e[x] \ gone], S \ gone)
  BY <1>2, <1>3 DEF RolesFit, RoleLists
<1>5. \A role \in Role : [x \in DOMAIN e |-> e[x] \ gone][role] = e[role] \ gone
  BY <1>1 DEF Role
<1> QED
  BY <1>4, <1>5 DEF ScrubFits

LEMMA KeyspacesScrubbed ==
  ASSUME NEW ks, NEW k \in DOMAIN ks, NEW S, RolesFit(ks[k], S), NEW gone
  PROVE  DOMAIN Scrubbed1(ks, gone) = DOMAIN ks /\ ScrubFits(Scrubbed1(ks, gone)[k], ks[k], S, gone)
<1>1. PICK e : e = ks[k]
  OBVIOUS
<1>2. Scrubbed1(ks, gone)[k] = [f \in DOMAIN e |-> e[f] \ gone]
  BY <1>1 DEF Scrubbed1
<1>3. ScrubFits([f \in DOMAIN e |-> e[f] \ gone], e, S, gone)
  BY <1>1, ScrubbedIs
<1>4. DOMAIN Scrubbed1(ks, gone) = DOMAIN ks
  BY DEF Scrubbed1
<1> QED
  BY <1>1, <1>2, <1>3, <1>4

\* The delete handler misses nothing of a node.
LEMMA OwnedIs ==
  ASSUME StoreFits(store), NEW n \in DOMAIN store
  PROVE  /\ Containers(store[n], n) \subseteq OwnedBy(n)
         /\ SeededBy(store, n) => Append(n, "init") \in OwnedBy(n)
<1>1. NodeFits(store[n]) /\ (store[n].members = 0 \/ store[n].members > 0) /\ store[n].members \in Nat
  BY MembersAre DEF StoreFits
<1>2. CASE store[n].type = "service"
  BY <1>1, <1>2 DEF Containers, OwnedBy, SeededBy, IsPrimary
<1>3. CASE store[n].type = "redis" /\ store[n].members > 0
  BY <1>1, <1>3 DEF Containers, OwnedBy, SeededBy, IsPrimary
<1>4. CASE store[n].type = "redis" /\ store[n].members = 0
  BY <1>1, <1>4 DEF Containers, OwnedBy, SeededBy, IsPrimary
<1> QED
  BY <1>1, <1>2, <1>3, <1>4 DEF NodeFits

LEMMA DeleteComponentStep ==
  ASSUME RedisInv, NEW n \in DOMAIN store, DeleteComponent(n)
  PROVE  RedisInv'
<1>1. PICK gone, owned, confs :
        /\ gone = {n} \union ReplicasOf(n) /\ owned = UNION {OwnedBy(g) : g \in gone}
        /\ confs = {Append(g, "sentinel") : g \in {x \in gone : store[x].sentinel}}
  OBVIOUS
<1>2. /\ "lost" \notin wrong
      /\ store' = [m \in DOMAIN store \ gone |-> [store[m] EXCEPT !.keyspaces = Scrubbed1(@, gone)]]
      /\ services' = DropKeys(services, owned)
      /\ scraped' = DropKeys(scraped, gone \union confs)
      /\ folders' = DropKeys(folders, gone \union confs)
      /\ wanted' = {w \in wanted : {w.node, w.by} \intersect gone = {}}
      /\ wrong' = IF OfOthers(owned, gone) THEN wrong \union {"collided"} ELSE wrong
      /\ UNCHANGED <<scan, displayed>>
  BY <1>1, RequestIs DEF DeleteComponent
<1>3. StoreFits(store) /\ TabFits(displayed) /\ ScanFits(scan) /\ gone \subseteq DOMAIN store /\ NoParent \notin DOMAIN store
  BY <1>1, <1>2 DEF RedisInv, ReplicasOf, StoreFits, Called, NoParent
<1>4. DOMAIN store' = DOMAIN store \ gone
  BY <1>2
<1>5. ASSUME NEW m \in DOMAIN store \ gone
      PROVE  /\ store'[m].type = store[m].type /\ store'[m].parent = store[m].parent /\ store'[m].sentinel = store[m].sentinel
             /\ store'[m].members = store[m].members /\ store'[m].persistence = store[m].persistence
             /\ store'[m].keyspaces = Scrubbed1(store[m].keyspaces, gone)
             /\ NodeFits(store'[m])
  <2>1. NodeFits(store[m])
    BY <1>3 DEF StoreFits
  <2>2. PICK a, b, c, d, e, f : store[m] = [type |-> a, parent |-> b, sentinel |-> c, members |-> d, persistence |-> e, keyspaces |-> f]
    BY <2>1 DEF NodeFits
  <2>3. PICK v : v = Scrubbed1(store[m].keyspaces, gone)
    OBVIOUS
  <2>4. store'[m] = [store[m] EXCEPT !.keyspaces = v]
    BY <1>2, <2>3
  <2>5. store'[m] = [type |-> a, parent |-> b, sentinel |-> c, members |-> d, persistence |-> e, keyspaces |-> v]
    BY <2>2, <2>4
  <2>6. DOMAIN v = DOMAIN store[m].keyspaces
    BY <2>3 DEF Scrubbed1
  <2> QED
    BY <2>1, <2>2, <2>3, <2>5, <2>6 DEF NodeFits
<1>6. ASSUME NEW m \in DOMAIN store \ gone, store[m].parent # NoParent
      PROVE  ReplicaFits(store, m) /\ store[m].parent \in DOMAIN store \ gone
  <2>1. ReplicaFits(store, m)
    BY <1>3, <1>6 DEF StoreFits
  <2>2. store[m].parent \in DOMAIN store /\ store[store[m].parent].parent = NoParent
    BY <2>1 DEF ReplicaFits
  <2>3. store[m].parent # n
    BY <1>1, <1>6 DEF ReplicasOf
  <2>4. store[m].parent \notin ReplicasOf(n)
    BY <1>3, <2>2 DEF ReplicasOf
  <2> QED
    BY <1>1, <2>1, <2>2, <2>3, <2>4
<1>7. ServicesIn(store') = ServicesIn(store) \ gone
  BY <1>4, <1>5 DEF ServicesIn
<1>8. ASSUME NEW m \in DOMAIN store \ gone, NEW k \in DOMAIN store[m].keyspaces
      PROVE  /\ k \in DOMAIN store'[m].keyspaces /\ RolesFit(store'[m].keyspaces[k], ServicesIn(store'))
             /\ \A role \in Role : store'[m].keyspaces[k][role] = store[m].keyspaces[k][role] \ gone
  <2>1. RolesFit(store[m].keyspaces[k], ServicesIn(store))
    BY <1>3, <1>8 DEF StoreFits
  <2>2. store'[m].keyspaces = Scrubbed1(store[m].keyspaces, gone)
    BY <1>5
  <2>3. /\ DOMAIN store'[m].keyspaces = DOMAIN store[m].keyspaces
        /\ ScrubFits(store'[m].keyspaces[k], store[m].keyspaces[k], ServicesIn(store), gone)
    BY <1>8, <2>1, <2>2, KeyspacesScrubbed
  <2> QED
    BY <1>7, <1>8, <2>3 DEF ScrubFits
<1>9. \A m \in DOMAIN store \ gone : DOMAIN store'[m].keyspaces = DOMAIN store[m].keyspaces
  BY <1>5 DEF Scrubbed1
<1>10. StoreFits(store')
  <2>1. IsFiniteSet(DOMAIN store') /\ DOMAIN store' \subseteq Called
    BY <1>3, <1>4, FS_Subset DEF StoreFits
  <2>2. ASSUME NEW m \in DOMAIN store', store'[m].parent # NoParent PROVE ReplicaFits(store', m)
    <3>1. ReplicaFits(store, m) /\ store[m].parent \in DOMAIN store \ gone
      BY <1>4, <1>5, <1>6, <2>2
    <3> QED
      BY <1>4, <1>5, <2>2, <3>1 DEF ReplicaFits
  <2> QED
    BY <1>4, <1>5, <1>8, <1>9, <2>1, <2>2 DEF StoreFits
<1>11. ASSUME "behind" \notin wrong', NEW w \in wanted' PROVE Met(store', w)
  <2>1. w \in wanted /\ w.node \notin gone /\ w.by \notin gone /\ Met(store, w)
    BY <1>2, <1>11 DEF RedisInv
  <2>2. w.node \in DOMAIN store \ gone /\ w.key \in DOMAIN store[w.node].keyspaces
    BY <2>1 DEF Met, IsPrimary
  <2>3. IsPrimary(store', w.node)
    BY <1>4, <1>5, <2>1, <2>2 DEF Met, IsPrimary
  <2> QED
    BY <1>8, <2>1, <2>2, <2>3 DEF Met
<1>12. ASSUME "collided" \notin wrong' PROVE BuiltAs(store', services')
  <2>1. BuiltAs(store, services) /\ \A c \in owned \intersect DOMAIN services : services[c].owner \in gone
    BY <1>2, <1>12 DEF RedisInv, OfOthers
  <2>2. DOMAIN services' = DOMAIN services \ owned /\ \A c \in DOMAIN services \ owned : services'[c] = services[c]
    BY <1>2 DEF DropKeys, Restrict
  <2>3. ASSUME NEW m \in DOMAIN store \ gone
        PROVE  /\ Containers(store'[m], m) = Containers(store[m], m) /\ Keepers(store'[m], m) = Keepers(store[m], m)
               /\ Master(store', m) = Master(store, m) /\ (SeededBy(store, m) => SeededBy(store', m))
    BY <1>4, <1>5 DEF Containers, Keepers, Master, SeededBy, IsPrimary
  <2>4. ASSUME NEW m \in DOMAIN store', NEW c \in Containers(store'[m], m)
        PROVE  c \in DOMAIN services' /\ services'[c].owner = m
    <3>1. m \in DOMAIN store \ gone /\ c \in Containers(store[m], m)
      BY <1>4, <2>3, <2>4
    <3>2. c \in DOMAIN services /\ services[c].owner = m
      BY <2>1, <3>1 DEF BuiltAs
    <3> QED
      BY <2>1, <2>2, <3>1, <3>2
  <2>5. ASSUME NEW c \in DOMAIN services' PROVE OwnerFits(store', services', c)
    <3>1. PICK m : m = services[c].owner
      OBVIOUS
    <3>2. /\ c \in DOMAIN services \ owned /\ services'[c] = services[c] /\ services[c] = Holding(m, services[c].flags)
          /\ m \in DOMAIN store
          /\ c \in Containers(store[m], m) \/ (c = Append(m, "init") /\ SeededBy(store, m))
          /\ store[m].type = "redis" =>
               services[c].flags = IF c \in Keepers(store[m], m) THEN store[Master(store, m)].persistence ELSE "none"
      BY <2>1, <2>2, <2>5, <3>1 DEF BuiltAs, OwnerFits
    <3>3. m \notin gone
      BY <1>1, <1>3, <3>2, OwnedIs
    <3>4. store[m].type = "redis" => store'[Master(store, m)].persistence = store[Master(store, m)].persistence
      BY <1>5, <1>6, <3>2, <3>3 DEF Master
    <3> QED
      BY <1>4, <1>5, <2>3, <3>1, <3>2, <3>3, <3>4 DEF OwnerFits
  <2> QED
    BY <2>4, <2>5 DEF BuiltAs
<1>13. ASSUME wrong' \intersect {"shared", "torn"} = {} PROVE FoldersFit(store', scraped', folders')
  <2>1. FoldersFit(store, scraped, folders)
    BY <1>2, <1>13 DEF RedisInv
  <2>2. confs \intersect DOMAIN store = {}
    BY <1>1, <1>3, <2>1 DEF FoldersFit
  <2>3. \A m \in DOMAIN store \ gone : Scrapes(store'[m], m) = Scrapes(store[m], m)
    BY <1>5 DEF Scrapes, Keepers
  <2>4. scraped' = [m \in DOMAIN store' |-> Scrapes(store'[m], m)]
    <3>1. scraped = [m \in DOMAIN store |-> Scrapes(store[m], m)]
      BY <2>1 DEF FoldersFit
    <3>2. scraped' = [m \in DOMAIN store \ gone |-> Scrapes(store[m], m)]
      BY <1>2, <2>2, <3>1 DEF DropKeys, Restrict
    <3> QED
      BY <1>4, <2>3, <3>2
  <2>5. DOMAIN folders' = DOMAIN folders \ (gone \union confs) /\ \A f \in DOMAIN folders' : folders'[f] = folders[f]
    BY <1>2 DEF DropKeys, Restrict
  <2>6. ASSUME NEW m \in DOMAIN store \ gone, store[m].sentinel
        PROVE  Append(m, "sentinel") \in DOMAIN folders' \ DOMAIN store'
    <3>1. Append(m, "sentinel") \in DOMAIN folders \ DOMAIN store
      BY <2>1, <2>6 DEF FoldersFit
    <3>2. Append(m, "sentinel") \notin confs
      <4>1. SUFFICES ASSUME NEW g \in gone, Append(g, "sentinel") = Append(m, "sentinel") PROVE FALSE
        BY <1>1
      <4>2. m \in Seq(Word) /\ g \in Seq(Word) /\ "sentinel" \in Word
        BY <1>3, DigitsAre, SuffixesAre DEF StoreFits, Called
      <4> QED
        BY <4>1, <4>2, NameSplits
    <3> QED
      BY <1>3, <1>4, <2>5, <3>1, <3>2
  <2>7. ASSUME NEW m \in DOMAIN store \ gone, store[m].type = "service"
        PROVE  m \in DOMAIN folders' /\ "code" \in folders'[m]
    BY <2>1, <2>2, <2>5, <2>7 DEF FoldersFit
  <2> QED
    BY <1>4, <1>5, <2>4, <2>6, <2>7 DEF FoldersFit
<1> QED
  BY <1>2, <1>3, <1>10, <1>11, <1>12, <1>13 DEF RedisInv

\* The ordinals that a topology gives are beyond those in use.
LEMMA LastIs ==
  ASSUME NEW n
  PROVE  LastNumbered(n) \in Nat /\ \A i \in DOMAIN Digit : i > LastNumbered(n) => Numbered(n, i) \notin DOMAIN store
<1>1. PICK used, d : used = {i \in DOMAIN Digit : Numbered(n, i) \in DOMAIN store} /\ d = Len(Digit)
  OBVIOUS
<1>2. DOMAIN Digit = 1..d /\ d \in Nat /\ used \subseteq 1..d
  BY <1>1, DigitsAre
<1>3. LastNumbered(n) = IF used = {} THEN 0 ELSE CHOOSE i \in used : \A j \in used : j <= i
  BY <1>1 DEF LastNumbered
<1>4. LastNumbered(n) \in Nat /\ \A j \in used : j <= LastNumbered(n)
  <2>1. CASE used = {}
    BY <1>3, <2>1
  <2>2. CASE used # {}
    <3>1. PICK S : S = {d - i : i \in used}
      OBVIOUS
    <3>2. S \in SUBSET Nat /\ S # {}
      <4>1. ASSUME NEW i \in used PROVE d - i \in Nat
        BY <1>2
      <4> QED
        BY <2>2, <3>1, <4>1
    <3>3. PICK x \in S : \A y \in S : x <= y
      BY <3>2, Minimum
    <3>4. PICK i \in used : x = d - i
      BY <3>1, <3>3
    <3>5. ASSUME NEW j \in used PROVE j <= i
      <4>1. d - i <= d - j
        BY <3>1, <3>3, <3>4
      <4>2. i \in Nat /\ j \in Nat /\ d \in Nat
        BY <1>2
      <4> QED
        BY <4>1, <4>2
    <3>6. PICK last : last = LastNumbered(n)
      OBVIOUS
    <3>7. last \in used /\ \A j \in used : j <= last
      BY <1>3, <2>2, <3>5, <3>6
    <3> QED
      BY <1>2, <3>6, <3>7
  <2> QED
    BY <2>1, <2>2
<1>5. ASSUME NEW i \in DOMAIN Digit, i > LastNumbered(n) PROVE Numbered(n, i) \notin DOMAIN store
  <2>1. i \in Nat /\ ~(i <= LastNumbered(n))
    BY <1>2, <1>4, <1>5
  <2>2. i \notin used
    BY <1>4, <2>1
  <2> QED
    BY <1>1, <1>5, <2>2
<1> QED
  BY <1>4, <1>5

LEMMA MadeIs ==
  ASSUME IsFiniteSet(DOMAIN store), NEW n, NEW count \in Nat,
         LastNumbered(n) + count - Cardinality(ReplicasOf(n)) <= Len(Digit)
  PROVE  /\ \A r \in Made(n, count) : r \notin DOMAIN store /\ \E i \in DOMAIN Digit : r = Numbered(n, i)
         /\ IsFiniteSet(Made(n, count))
<1>1. IsFiniteSet(ReplicasOf(n))
  BY FS_Subset DEF ReplicasOf
<1>2. PICK last, have, d : last = LastNumbered(n) /\ have = Cardinality(ReplicasOf(n)) /\ d = Len(Digit)
  OBVIOUS
<1>3. last \in Nat /\ have \in Nat /\ d \in Nat /\ last + count - have <= d
  BY <1>1, <1>2, LastIs, DigitsAre, FS_CardinalityType
<1>4. Made(n, count) = {Numbered(n, last + i) : i \in 1..(count - have)}
  BY <1>2 DEF Made
<1>5. \A i \in 1..(count - have) : last + i \in 1..d /\ last + i > last
  BY <1>3
<1>6. ASSUME NEW r \in Made(n, count)
      PROVE  r \notin DOMAIN store /\ \E i \in DOMAIN Digit : r = Numbered(n, i)
  <2>1. PICK i \in 1..(count - have) : r = Numbered(n, last + i)
    BY <1>4, <1>6
  <2>2. last + i \in DOMAIN Digit /\ last + i > last
    BY <1>2, <1>5, DigitsAre
  <2> QED
    BY <1>2, <2>1, <2>2, LastIs
<1>7. IsFiniteSet(Made(n, count))
  <2>1. PICK f, T : f = [i \in DOMAIN Digit |-> Numbered(n, i)] /\ T = {f[i] : i \in DOMAIN Digit}
    OBVIOUS
  <2>2. f \in Surjection(DOMAIN Digit, T)
    BY <2>1 DEF Surjection
  <2>3. IsFiniteSet(DOMAIN Digit)
    BY DigitsAre, FS_Interval
  <2>4. IsFiniteSet(T)
    BY <2>2, <2>3, FS_Surjection
  <2>5. Made(n, count) \subseteq T
    BY <1>6, <2>1
  <2> QED
    BY <2>4, <2>5, FS_Subset
<1> QED
  BY <1>6, <1>7

\* The containers that a node may have in any mode but cluster.
Own(n) == {n, Append(n, "exporter"), Append(n, "init")} \union SentinelsOf(n)

LEMMA FrontIs ==
  ASSUME NEW s \in Seq(Word), NEW x \in Word
  PROVE  Front(Append(s, x)) = s
<1>1. PICK t : t = Append(s, x)
  OBVIOUS
<1>2. t \in Seq(Word) /\ Len(t) = Len(s) + 1 /\ (\A i \in 1..Len(s) : t[i] = s[i]) /\ Len(s) \in Nat
  BY <1>1, AppendProperties, LenProperties
<1>3. Front(t) = SubSeq(t, 1, Len(s))
  BY <1>2 DEF Front
<1>4. SubSeq(t, 1, Len(s)) \in Seq(Word) /\ Len(SubSeq(t, 1, Len(s))) = Len(s)
      /\ \A i \in 1..Len(s) : SubSeq(t, 1, Len(s))[i] = t[i]
  <2>1. 1 \in 1..Len(t) + 1 /\ Len(s) \in 1 - 1 .. Len(t)
    BY <1>2
  <2> QED
    BY <1>2, SubSeqProperties
<1> QED
  BY <1>1, <1>2, <1>3, <1>4, SeqEqual

LEMMA NumberApart ==
  ASSUME NEW n \in Seq(Word), NEW i \in DOMAIN Digit, NEW r, r = Numbered(n, i)
  PROVE  /\ r \notin Own(n) /\ Append(r, "exporter") \notin Own(n) /\ r \in Called
         /\ \A j \in DOMAIN Digit : Append(r, "exporter") # Numbered(n, j)
         /\ Front(Append(r, "exporter")) = r /\ Append(r, "exporter") # r
         /\ n # Append(r, "exporter") /\ n # r
<1>1. Suffixed \subseteq Word /\ "exporter" \in Suffixed /\ "init" \in Suffixed
  BY DigitsAre, SuffixesAre
<1>2. /\ r \in Called /\ r \in Seq(Word) /\ r # n
      /\ \A m \in Seq(Word), y \in Suffixed : r # Append(m, y)
  BY NumberedIs DEF Called
<1>3. r \notin Own(n)
  BY <1>1, <1>2, SentinelsApart DEF Own
<1>4. Append(r, "exporter") # n
  <2>1. PICK a, b, c : a = Len(n) /\ b = Len(r) /\ c = Len(Append(r, "exporter"))
    OBVIOUS
  <2>2. b = a + 1 /\ c = b + 1 /\ a \in Nat
    BY <1>1, <1>2, <2>1, NameGrows, DigitsAre, LenProperties DEF Numbered
  <2>3. c # a
    BY <2>2
  <2> QED
    BY <2>1, <2>3
<1>5. Append(r, "exporter") # Append(n, "exporter") /\ Append(r, "exporter") # Append(n, "init")
  BY <1>1, <1>2, NameSplits
<1>6. Append(r, "exporter") \notin SentinelsOf(n)
  BY SentinelsApart
<1>7. \A j \in DOMAIN Digit : Append(r, "exporter") # Numbered(n, j)
  BY <1>1, <1>2, NumberedIs
<1>8. Front(Append(r, "exporter")) = r
  BY <1>1, <1>2, FrontIs
<1>9. Append(r, "exporter") # r
  BY <1>1, <1>2, NameGrows
<1> QED
  BY <1>2, <1>3, <1>4, <1>5, <1>6, <1>7, <1>8, <1>9 DEF Own

LEMMA NoMemberIs ==
  ASSUME NEW n \in Seq(Word), NEW count \in 0..Len(Digit)
  PROVE  n \notin {InitOf(n)} \union WithExporters(MembersOf(n, count))
<1>1. 1..count \subseteq DOMAIN Digit
  BY DigitsAre
<1>2. \A d \in MembersOf(n, count) : n # d /\ n # Append(d, "exporter")
  BY <1>1, NumberApart DEF MembersOf
<1>3. n # InitOf(n)
  <2>1. PICK s : s = Append(n, "cluster")
    OBVIOUS
  <2>2. PICK a, b, c : a = Len(n) /\ b = Len(s) /\ c = Len(InitOf(n))
    OBVIOUS
  <2>3. b = a + 1 /\ c = b + 1 /\ a \in Nat
    BY <2>1, <2>2, NameGrows, DigitsAre, SuffixesAre, LenProperties DEF InitOf, Called
  <2>4. c # a
    BY <2>3
  <2> QED
    BY <2>2, <2>4
<1> QED
  BY <1>2, <1>3 DEF WithExporters

\* What a change of topology makes of the manifest.
Followers(st, n) == {r \in DOMAIN st : st[r].parent = n}
Reshaped(st, n, to, count, dropped, made, st2) ==
  /\ StoreFits(st) /\ IsPrimary(st, n)
  /\ to = "cluster" => count \in ClusterSizes
  /\ dropped \subseteq Followers(st, n) /\ (to # "replicated" => dropped = Followers(st, n) /\ made = {})
  /\ IsFiniteSet(made) /\ \A r \in made : r \notin DOMAIN st /\ \E i \in DOMAIN Digit : r = Numbered(n, i)
  /\ DOMAIN st2 = (DOMAIN st \ dropped) \union made
  /\ \A m \in DOMAIN st \ (dropped \union {n}) : st2[m] = st[m]
  /\ \A r \in made : st2[r] = Node("redis", n)
  /\ st2[n] = [type |-> st2[n].type, parent |-> st2[n].parent, sentinel |-> st2[n].sentinel, members |-> st2[n].members,
               persistence |-> st2[n].persistence, keyspaces |-> st2[n].keyspaces]
  /\ st2[n].type = "redis" /\ st2[n].parent = NoParent /\ st2[n].sentinel = (to = "replicated")
  /\ st2[n].members = (IF to = "cluster" THEN count ELSE 0)
  /\ st2[n].persistence = st[n].persistence /\ st2[n].keyspaces = st[n].keyspaces

\* What is as it was, and what is new.
Reshapes(st, n, dropped, made, st2) ==
  /\ n \in DOMAIN st \ dropped /\ n \in Called /\ n # NoParent /\ st[n].type = "redis" /\ st[n].parent = NoParent
  /\ made \intersect DOMAIN st = {} /\ n \notin made
  /\ \A r \in dropped : /\ r \in DOMAIN st /\ st[r].parent = n /\ st[r].type = "redis" /\ ~st[r].sentinel
                        /\ st[r].members = 0 /\ ~IsPrimary(st, r)
  /\ \A r \in made : /\ st2[r].type = "redis" /\ st2[r].parent = n /\ st2[r].sentinel = FALSE /\ st2[r].members = 0
                     /\ DOMAIN st2[r].keyspaces = {} /\ NodeFits(st2[r])
  /\ \A p \in DOMAIN st \ {n} : IsPrimary(st, p) => p \in DOMAIN st2 /\ st2[p] = st[p]

LEMMA ReshapedIs ==
  ASSUME NEW st, NEW n, NEW to, NEW count, NEW dropped, NEW made, NEW st2, Reshaped(st, n, to, count, dropped, made, st2)
  PROVE  Reshapes(st, n, dropped, made, st2)
<1>1. n \in DOMAIN st /\ st[n].type = "redis" /\ st[n].parent = NoParent /\ n \in Called /\ n # NoParent /\ StoreFits(st)
  BY DEF Reshaped, IsPrimary, StoreFits, Called, NoParent
<1>2. n \notin dropped /\ made \intersect DOMAIN st = {}
  BY <1>1 DEF Reshaped, Followers
<1>3. ASSUME NEW r \in dropped
      PROVE  /\ r \in DOMAIN st /\ st[r].parent = n /\ st[r].type = "redis" /\ ~st[r].sentinel
             /\ st[r].members = 0 /\ ~IsPrimary(st, r)
  <2>1. r \in DOMAIN st /\ st[r].parent = n
    BY <1>3 DEF Reshaped, Followers
  <2>2. NodeFits(st[r]) /\ ReplicaFits(st, r)
    BY <1>1, <2>1 DEF StoreFits
  <2> QED
    BY <1>1, <2>1, <2>2 DEF NodeFits, ReplicaFits, IsPrimary
<1>4. ASSUME NEW r \in made
      PROVE  /\ st2[r].type = "redis" /\ st2[r].parent = n /\ st2[r].sentinel = FALSE /\ st2[r].members = 0
             /\ DOMAIN st2[r].keyspaces = {} /\ NodeFits(st2[r])
  <2>1. st2[r] = Node("redis", n)
    BY DEF Reshaped
  <2>2. st2[r] = [type |-> "redis", parent |-> n, sentinel |-> FALSE, members |-> 0, persistence |-> "image", keyspaces |-> <<>>]
    BY <2>1, NodeIs
  <2>3. DOMAIN <<>> = {}
    BY NodeIs
  <2> QED
    BY <2>2, <2>3 DEF NodeFits
<1>5. ASSUME NEW p \in DOMAIN st \ {n}, IsPrimary(st, p) PROVE p \in DOMAIN st2 /\ st2[p] = st[p]
  BY <1>3, <1>5 DEF Reshaped
<1> QED
  BY <1>1, <1>2, <1>3, <1>4, <1>5 DEF Reshapes

LEMMA ReshapedStore ==
  ASSUME NEW st, NEW n, NEW to, NEW count, NEW dropped, NEW made, NEW st2, Reshaped(st, n, to, count, dropped, made, st2)
  PROVE  StoreFits(st2) /\ \A w : Met(st, w) => Met(st2, w)
<1>0. Reshapes(st, n, dropped, made, st2)
  BY ReshapedIs
<1>1. /\ n \in DOMAIN st \ dropped /\ n \in Called /\ st[n].type = "redis" /\ st[n].parent = NoParent /\ n # NoParent
      /\ made \intersect DOMAIN st = {} /\ n \notin made
  BY <1>0 DEF Reshapes
<1>2. /\ DOMAIN st2 = (DOMAIN st \ dropped) \union made /\ StoreFits(st)
      /\ \A m \in DOMAIN st \ (dropped \union {n}) : st2[m] = st[m]
      /\ st2[n].type = "redis" /\ st2[n].parent = NoParent /\ st2[n].sentinel = (to = "replicated")
      /\ st2[n].members = (IF to = "cluster" THEN count ELSE 0)
      /\ st2[n].keyspaces = st[n].keyspaces
  BY DEF Reshaped
<1>3. IsFiniteSet(DOMAIN st2)
  <2>1. IsFiniteSet(DOMAIN st) /\ IsFiniteSet(made)
    BY <1>2 DEF Reshaped, StoreFits
  <2>2. IsFiniteSet(DOMAIN st \ dropped)
    BY <2>1, FS_Difference
  <2>3. IsFiniteSet((DOMAIN st \ dropped) \union made)
    BY <2>1, <2>2, FS_Union
  <2> QED
    BY <1>2, <2>3
<1>4. DOMAIN st2 \subseteq Called
  <2>1. \A r \in made : r \in Called
    BY <1>1, NumberedIs DEF Reshaped, Called
  <2> QED
    BY <1>2, <2>1 DEF StoreFits
<1>5. ServicesIn(st) \subseteq ServicesIn(st2)
  BY <1>0, <1>1, <1>2 DEF Reshapes, ServicesIn
<1>6. ASSUME NEW m \in DOMAIN st2 PROVE NodeFits(st2[m])
  <2>1. CASE m = n
    <3>1. st2[n].members \in {0} \union ClusterSizes
      BY <1>2 DEF Reshaped
    <3>2. st2[n].sentinel \in BOOLEAN /\ (st2[n].sentinel => st2[n].members = 0)
      BY <1>2
    <3> QED
      BY <1>2, <2>1, <3>1, <3>2 DEF NodeFits, Reshaped
  <2>2. CASE m \in made
    BY <1>0, <2>2 DEF Reshapes
  <2>3. CASE m \in DOMAIN st \ (dropped \union {n})
    BY <1>2, <2>3 DEF StoreFits
  <2> QED
    BY <1>2, <1>6, <2>1, <2>2, <2>3
<1>7. ASSUME NEW m \in DOMAIN st2, st2[m].parent # NoParent PROVE ReplicaFits(st2, m)
  <2>1. m # n
    BY <1>2, <1>7
  <2>2. CASE m \in made
    <3>1. to = "replicated" /\ \E i \in DOMAIN Digit : m = Numbered(n, i)
      BY <2>2 DEF Reshaped
    <3>2. st2[m].parent = n /\ st2[m].sentinel = FALSE /\ st2[m].members = 0
      BY <1>0, <2>2 DEF Reshapes
    <3> QED
      BY <1>1, <1>2, <3>1, <3>2 DEF ReplicaFits
  <2>3. CASE m \in DOMAIN st \ (dropped \union {n})
    <3>1. st2[m] = st[m] /\ ReplicaFits(st, m)
      BY <1>2, <1>7, <2>3 DEF StoreFits
    <3>2. PICK p : p = st[m].parent
      OBVIOUS
    <3>3. /\ ~st[m].sentinel /\ st[m].members = 0
          /\ p \in DOMAIN st /\ st[p].type = "redis" /\ st[p].parent = NoParent /\ st[p].sentinel
          /\ \E i \in DOMAIN Digit : m = Numbered(p, i)
      BY <3>1, <3>2 DEF ReplicaFits
    <3>4. p \in DOMAIN st2 /\ st2[p].type = "redis" /\ st2[p].parent = NoParent /\ st2[p].sentinel
      <4>1. CASE p = n
        <5>1. m \in Followers(st, n)
          BY <2>3, <3>2, <4>1 DEF Followers
        <5>2. to = "replicated"
          BY <2>3, <5>1 DEF Reshaped
        <5> QED
          BY <1>1, <1>2, <4>1, <5>2
      <4>2. CASE p # n
        BY <1>0, <3>3, <4>2 DEF Reshapes, IsPrimary
      <4> QED
        BY <4>1, <4>2
    <3> QED
      BY <3>1, <3>2, <3>3, <3>4 DEF ReplicaFits
  <2> QED
    BY <1>2, <1>7, <2>1, <2>2, <2>3
<1>8. ASSUME NEW m \in DOMAIN st2, NEW k \in DOMAIN st2[m].keyspaces
      PROVE  RolesFit(st2[m].keyspaces[k], ServicesIn(st2))
  <2>1. m \notin made
    BY <1>0, <1>8 DEF Reshapes
  <2>2. m \in DOMAIN st /\ st2[m].keyspaces = st[m].keyspaces
    BY <1>2, <1>8, <2>1
  <2>3. RolesFit(st[m].keyspaces[k], ServicesIn(st))
    BY <1>2, <1>8, <2>2 DEF StoreFits
  <2> QED
    BY <1>5, <2>2, <2>3 DEF RolesFit
<1>9. ASSUME NEW w, Met(st, w) PROVE Met(st2, w)
  <2>1. IsPrimary(st, w.node)
    BY <1>9 DEF Met
  <2>2. st2[w.node].keyspaces = st[w.node].keyspaces /\ IsPrimary(st2, w.node)
    <3>1. CASE w.node = n
      BY <1>1, <1>2, <3>1 DEF IsPrimary
    <3>2. CASE w.node # n
      BY <1>0, <2>1, <3>2 DEF Reshapes, IsPrimary
    <3> QED
      BY <3>1, <3>2
  <2> QED
    BY <1>9, <2>2 DEF Met
<1> QED
  BY <1>3, <1>4, <1>6, <1>7, <1>8, <1>9 DEF StoreFits

\* What it makes of the containers: those removed, those made for the node, and its new replicas.
Unneeded(x, n, to, dropped) ==
  WithExporters(dropped)
  \union (IF x.members > 0 THEN {InitOf(n)} \union WithExporters(MembersOf(n, x.members)) ELSE {})
  \union (IF x.sentinel /\ to # "replicated" THEN SentinelsOf(n) ELSE {})
  \union (IF to = "cluster" /\ ~(x.members > 0) THEN {n, Append(n, "exporter"), Append(n, "init")} ELSE {})
FreshFits(x, n, to, count, fresh) ==
  /\ to = "cluster" => fresh = {InitOf(n)} \union WithExporters(MembersOf(n, count))
  /\ to = "replicated" => SentinelsOf(n) \subseteq fresh /\ fresh \subseteq Own(n)
  /\ to = "standalone" => fresh \subseteq {n, Append(n, "exporter"), Append(n, "init")}
  /\ x.members > 0 /\ to # "cluster" => {n, Append(n, "exporter")} \subseteq fresh
Placed(sv, n, p, made, members, removed, fresh, sv2) ==
  /\ DOMAIN sv2 = fresh \union WithExporters(made) \union (DOMAIN sv \ removed)
  /\ \A c \in fresh : sv2[c] = Holding(n, IF c \in members \union {n} THEN p ELSE "none")
  /\ \A r \in made \ fresh : sv2[r] = Holding(r, p)
  /\ \A c \in {Append(r, "exporter") : r \in made} \ (fresh \union made) : sv2[c] = Holding(Front(c), "none")
  /\ \A c \in DOMAIN sv \ (removed \union fresh \union WithExporters(made)) : sv2[c] = sv[c]
Unharmed(x, sv, n, dropped, made, removed, fresh) ==
  /\ (fresh \union WithExporters(made)) \intersect (DOMAIN sv \ removed) \subseteq (IF x.sentinel THEN SentinelsOf(n) ELSE {})
  /\ \A c \in removed \intersect DOMAIN sv : sv[c].owner \in {n} \union dropped

\* The containers of the node in its new mode.
InMode(x, n, to, count, fresh) ==
  /\ to = "cluster" => /\ Containers(x, n) = fresh /\ Keepers(x, n) = MembersOf(n, count)
                        /\ n \notin fresh /\ MembersOf(n, count) \subseteq fresh
  /\ to # "cluster" => /\ Keepers(x, n) = {n} /\ fresh \subseteq Containers(x, n) \union {Append(n, "init")}
                        /\ Containers(x, n) = {n, Append(n, "exporter")} \union (IF to = "replicated" THEN SentinelsOf(n) ELSE {})
                        /\ x.members = 0

LEMMA NewMode ==
  ASSUME NEW st, NEW n, NEW to \in {"standalone", "replicated", "cluster"}, NEW count, NEW dropped, NEW made, NEW st2,
         Reshaped(st, n, to, count, dropped, made, st2), NEW fresh, FreshFits(st[n], n, to, count, fresh)
  PROVE  InMode(st2[n], n, to, count, fresh)
<1>0. Reshapes(st, n, dropped, made, st2)
  BY ReshapedIs
<1>1. n \in Seq(Word)
  BY <1>0 DEF Reshapes, Called
<1>2. PICK x : x = st2[n]
  OBVIOUS
<1>3. /\ x.type = "redis" /\ (x.sentinel <=> to = "replicated")
      /\ x.members = IF to = "cluster" THEN count ELSE 0
  BY <1>2 DEF Reshaped
<1>4. CASE to = "cluster"
  <2>1. PICK d : d = Len(Digit)
    OBVIOUS
  <2>2. count \in 1..d /\ d \in Nat /\ x.members = count
    BY <1>3, <1>4, <2>1, RedisSizesCount, DigitsAre DEF Reshaped
  <2>3. count > 0 /\ count \in 0..d
    BY <2>2
  <2>4. fresh = {InitOf(n)} \union WithExporters(MembersOf(n, count))
    BY <1>4 DEF FreshFits
  <2>5. Containers(x, n) = fresh /\ Keepers(x, n) = MembersOf(n, count)
    BY <1>3, <2>2, <2>3, <2>4 DEF Containers, Keepers
  <2>6. n \notin fresh /\ MembersOf(n, count) \subseteq fresh
    BY <1>1, <2>1, <2>3, <2>4, NoMemberIs DEF WithExporters
  <2> QED
    BY <1>2, <1>4, <2>5, <2>6 DEF InMode
<1>5. CASE to # "cluster"
  <2>1. x.members = 0 /\ ~(x.members > 0)
    BY <1>3, <1>5
  <2>2. Keepers(x, n) = {n}
    BY <2>1 DEF Keepers
  <2>3. Containers(x, n) = {n, Append(n, "exporter")} \union (IF to = "replicated" THEN SentinelsOf(n) ELSE {})
    <3>1. CASE to = "replicated"
      BY <1>3, <2>1, <3>1 DEF Containers
    <3>2. CASE to # "replicated"
      BY <1>3, <2>1, <3>2 DEF Containers
    <3> QED
      BY <3>1, <3>2
  <2>4. fresh \subseteq Containers(x, n) \union {Append(n, "init")}
    BY <1>5, <2>3 DEF FreshFits, Own
  <2> QED
    BY <1>2, <1>5, <2>1, <2>2, <2>3, <2>4 DEF InMode
<1> QED
  BY <1>4, <1>5

LEMMA ReshapedBuilt ==
  ASSUME NEW st, NEW n, NEW to \in {"standalone", "replicated", "cluster"}, NEW count, NEW dropped, NEW made, NEW st2,
         Reshaped(st, n, to, count, dropped, made, st2),
         NEW sv, BuiltAs(st, sv), NEW members, members = (IF to = "cluster" THEN MembersOf(n, count) ELSE {}),
         NEW removed, removed = Unneeded(st[n], n, to, dropped), NEW fresh, FreshFits(st[n], n, to, count, fresh),
         NEW sv2, Placed(sv, n, st[n].persistence, made, members, removed, fresh, sv2),
         Unharmed(st[n], sv, n, dropped, made, removed, fresh)
  PROVE  BuiltAs(st2, sv2)
<1>1. Reshapes(st, n, dropped, made, st2)
  BY ReshapedIs
<1>2. /\ n \in DOMAIN st \ dropped /\ n \in Seq(Word) /\ n # NoParent /\ st[n].type = "redis" /\ st[n].parent = NoParent
      /\ made \intersect DOMAIN st = {} /\ n \notin made
  BY <1>1 DEF Reshapes, Called
<1>3. /\ DOMAIN st2 = (DOMAIN st \ dropped) \union made /\ StoreFits(st)
      /\ \A m \in DOMAIN st \ (dropped \union {n}) : st2[m] = st[m]
      /\ st2[n].type = "redis" /\ st2[n].parent = NoParent /\ st2[n].persistence = st[n].persistence
  BY DEF Reshaped
<1>4. PICK p : p = st[n].persistence
  OBVIOUS
<1>m. /\ InMode(st2[n], n, to, count, fresh)
      /\ to # "cluster" => SeededBy(st2, n)
  <2>1. InMode(st2[n], n, to, count, fresh)
    BY NewMode
  <2> QED
    BY <1>2, <1>3, <2>1 DEF InMode, SeededBy, IsPrimary
<1>5. ASSUME NEW c \in fresh
      PROVE  /\ c \in DOMAIN sv2 /\ sv2[c].owner = n /\ sv2[c] = Holding(n, sv2[c].flags)
             /\ sv2[c].flags = IF c \in Keepers(st2[n], n) THEN p ELSE "none"
             /\ c \in Containers(st2[n], n) \/ (c = Append(n, "init") /\ SeededBy(st2, n))
  <2>1. c \in DOMAIN sv2 /\ sv2[c] = Holding(n, IF c \in members \union {n} THEN p ELSE "none")
    BY <1>4, <1>5 DEF Placed
  <2>2. sv2[c].owner = n /\ sv2[c].flags = (IF c \in members \union {n} THEN p ELSE "none")
    BY <2>1, HoldingIs
  <2>3. CASE to = "cluster"
    BY <1>5, <1>m, <2>1, <2>2, <2>3 DEF InMode
  <2>4. CASE to # "cluster"
    BY <1>5, <1>m, <2>1, <2>2, <2>4 DEF InMode
  <2> QED
    BY <2>3, <2>4
<1>6. ASSUME NEW r \in made
      PROVE  /\ r \notin fresh /\ Append(r, "exporter") \notin fresh /\ {r, Append(r, "exporter")} \subseteq DOMAIN sv2
             /\ sv2[r] = Holding(r, p) /\ sv2[Append(r, "exporter")] = Holding(r, "none") /\ r # Append(r, "exporter")
             /\ Containers(st2[r], r) = {r, Append(r, "exporter")} /\ Keepers(st2[r], r) = {r} /\ Master(st2, r) = n
             /\ st2[r].type = "redis" /\ r \in DOMAIN st2
  <2>1. PICK i \in DOMAIN Digit : r = Numbered(n, i)
    BY DEF Reshaped
  <2>2. \A q \in made : \E j \in DOMAIN Digit : q = Numbered(n, j)
    BY DEF Reshaped
  <2>3. to = "replicated"
    BY DEF Reshaped
  <2>4. fresh \subseteq Own(n)
    BY <2>3 DEF FreshFits
  <2>5. /\ r \notin Own(n) /\ Append(r, "exporter") \notin Own(n) /\ Front(Append(r, "exporter")) = r
        /\ Append(r, "exporter") # r /\ \A j \in DOMAIN Digit : Append(r, "exporter") # Numbered(n, j)
    BY <1>2, <2>1, NumberApart
  <2>6. Append(r, "exporter") \notin made
    BY <2>2, <2>5
  <2>7. sv2[r] = Holding(r, p) /\ r \in DOMAIN sv2
    BY <1>4, <2>4, <2>5 DEF Placed, WithExporters
  <2>8. sv2[Append(r, "exporter")] = Holding(r, "none") /\ Append(r, "exporter") \in DOMAIN sv2
    BY <2>4, <2>5, <2>6 DEF Placed, WithExporters
  <2>9. st2[r].type = "redis" /\ st2[r].parent = n /\ st2[r].sentinel = FALSE /\ st2[r].members = 0
    BY <1>1 DEF Reshapes
  <2>10. Containers(st2[r], r) = {r, Append(r, "exporter")} /\ Keepers(st2[r], r) = {r} /\ Master(st2, r) = n
    BY <1>2, <2>9 DEF Containers, Keepers, Master
  <2> QED
    BY <1>3, <2>4, <2>5, <2>7, <2>8, <2>9, <2>10
<1>7. \A m \in DOMAIN st : \A c \in Containers(st[m], m) : c \in DOMAIN sv /\ sv[c].owner = m
  BY DEF BuiltAs
<1>8. ASSUME NEW m \in DOMAIN st \ (dropped \union {n}), NEW c \in Containers(st[m], m)
      PROVE  c \in DOMAIN sv2 /\ sv2[c].owner = m
  <2>1. c \in DOMAIN sv /\ sv[c].owner = m
    BY <1>7
  <2>2. c \notin removed
    BY <2>1 DEF Unharmed
  <2>3. c \notin fresh \union WithExporters(made)
    <3>1. SUFFICES ASSUME c \in fresh \union WithExporters(made) PROVE FALSE
      OBVIOUS
    <3>2. c \in DOMAIN sv \ removed
      BY <2>1, <2>2
    <3>3. st[n].sentinel /\ c \in SentinelsOf(n)
      BY <3>1, <3>2 DEF Unharmed
    <3>4. st[n].members = 0
      BY <1>2, <1>3, <3>3 DEF StoreFits, NodeFits
    <3>5. c \in Containers(st[n], n)
      BY <1>2, <3>3, <3>4 DEF Containers
    <3> QED
      BY <1>2, <1>7, <2>1, <3>5
  <2> QED
    BY <2>1, <2>2, <2>3 DEF Placed
<1>9. ASSUME NEW c \in Containers(st2[n], n) PROVE c \in DOMAIN sv2 /\ sv2[c].owner = n
  <2>1. CASE c \in fresh
    BY <1>5, <2>1
  <2>2. CASE c \notin fresh
    <3>1. to # "cluster" /\ c \in {n, Append(n, "exporter")}
      <4>1. to # "cluster"
        BY <1>9, <1>m, <2>2 DEF InMode
      <4> QED
        BY <1>9, <1>m, <2>2, <4>1 DEF InMode, FreshFits
    <3>2. st[n].members = 0
      BY <1>2, <1>3, <2>2, <3>1, MembersAre DEF FreshFits
    <3>3. c \in Containers(st[n], n)
      BY <1>2, <3>1, <3>2 DEF Containers
    <3>4. c \in DOMAIN sv /\ sv[c].owner = n
      BY <1>2, <1>7, <3>3
    <3>5. c \notin WithExporters(made)
      <4>1. ASSUME NEW r \in made PROVE c # r /\ c # Append(r, "exporter")
        <5>1. PICK i \in DOMAIN Digit : r = Numbered(n, i)
          BY DEF Reshaped
        <5>2. r \notin Own(n) /\ Append(r, "exporter") \notin Own(n)
          BY <1>2, <5>1, NumberApart
        <5>3. c \in Own(n)
          BY <3>1 DEF Own
        <5> QED
          BY <5>2, <5>3
      <4> QED
        BY <4>1 DEF WithExporters
    <3>6. c \notin WithExporters(dropped)
      <4>1. \A r \in dropped : \E i \in DOMAIN Digit : r = Numbered(n, i)
        BY <1>1, <1>2, <1>3 DEF Reshapes, StoreFits, ReplicaFits
      <4> QED
        BY <1>2, <3>1, <4>1, NumberApart DEF WithExporters, Own
    <3>7. c \notin removed
      <4>1. c \notin SentinelsOf(n)
        BY <1>2, <3>1, SentinelsApart
      <4>2. ~(st[n].members > 0)
        BY <3>2
      <4> QED
        BY <3>1, <3>6, <4>1, <4>2 DEF Unneeded
    <3> QED
      BY <2>2, <3>4, <3>5, <3>7 DEF Placed
  <2> QED
    BY <2>1, <2>2
<1>10. ASSUME NEW c \in DOMAIN sv \ (removed \union fresh \union WithExporters(made)) PROVE OwnerFits(st2, sv2, c)
  <2>1. sv2[c] = sv[c] /\ OwnerFits(st, sv, c)
    BY DEF Placed, BuiltAs
  <2>2. PICK m : m = sv[c].owner
    OBVIOUS
  <2>3. /\ sv[c] = Holding(m, sv[c].flags) /\ m \in DOMAIN st
        /\ c \in Containers(st[m], m) \/ (c = Append(m, "init") /\ SeededBy(st, m))
        /\ st[m].type = "redis" =>
             sv[c].flags = IF c \in Keepers(st[m], m) THEN st[Master(st, m)].persistence ELSE "none"
    BY <2>1, <2>2 DEF OwnerFits
  <2>4. m \notin dropped
    <3>1. SUFFICES ASSUME m \in dropped PROVE FALSE
      OBVIOUS
    <3>2. st[m].type = "redis" /\ ~st[m].sentinel /\ st[m].members = 0 /\ ~IsPrimary(st, m)
      BY <1>1, <3>1 DEF Reshapes
    <3>3. c \in {m, Append(m, "exporter")}
      BY <2>3, <3>2 DEF Containers, SeededBy
    <3>4. c \in removed
      BY <3>1, <3>3 DEF Unneeded, WithExporters
    <3> QED
      BY <3>4
  <2>5. m \in DOMAIN st2
    BY <1>3, <2>3, <2>4
  <2>6. CASE m = n
    <3>1. st[n].members \in {0} \union ClusterSizes /\ st[n].sentinel \in BOOLEAN
      BY <1>2, <1>3 DEF StoreFits, NodeFits
    <3>2. st[n].members = 0
      <4>1. SUFFICES ASSUME st[n].members # 0 PROVE FALSE
        OBVIOUS
      <4>2. st[n].members > 0
        BY <1>2, <1>3, <4>1, MembersAre
      <4>3. c \in {InitOf(n)} \union WithExporters(MembersOf(n, st[n].members))
        BY <1>2, <2>3, <2>6, <4>1, <4>2 DEF Containers, SeededBy
      <4>4. c \in removed
        BY <4>2, <4>3 DEF Unneeded
      <4> QED
        BY <4>4
    <3>3. \/ c \in {n, Append(n, "exporter"), Append(n, "init")}
          \/ st[n].sentinel /\ c \in SentinelsOf(n)
      BY <1>2, <2>3, <2>6, <3>2 DEF Containers
    <3>4. to # "cluster"
      BY <3>2, <3>3 DEF Unneeded
    <3>5. /\ Keepers(st2[n], n) = {n} /\ SeededBy(st2, n)
          /\ Containers(st2[n], n) = {n, Append(n, "exporter")} \union (IF to = "replicated" THEN SentinelsOf(n) ELSE {})
      BY <1>m, <3>4 DEF InMode
    <3>6. c \in Containers(st2[n], n) \/ (c = Append(n, "init") /\ SeededBy(st2, n))
      BY <3>3, <3>5 DEF Unneeded
    <3>7. Keepers(st[n], n) = {n} /\ Master(st, n) = n /\ Master(st2, n) = n
      BY <1>2, <1>3, <3>2 DEF Keepers, Master
    <3> QED
      BY <1>2, <1>3, <2>1, <2>2, <2>3, <2>5, <2>6, <3>5, <3>6, <3>7 DEF OwnerFits
  <2>7. CASE m # n
    <3>1. st2[m] = st[m]
      BY <1>3, <2>3, <2>4, <2>7
    <3>2. SeededBy(st, m) => SeededBy(st2, m)
      BY <2>5, <3>1 DEF SeededBy, IsPrimary
    <3>3. PICK q : q = Master(st, m)
      OBVIOUS
    <3>4. Master(st2, m) = q
      BY <3>1, <3>3 DEF Master
    <3>5. st[q].persistence = st2[q].persistence
      <4>1. CASE q = n
        BY <1>3, <4>1
      <4>2. CASE q # n
        <5>1. CASE st[m].parent = NoParent
          BY <3>1, <3>3, <5>1 DEF Master
        <5>2. CASE st[m].parent # NoParent
          <6>1. ReplicaFits(st, m) /\ q = st[m].parent
            BY <1>3, <2>3, <3>3, <5>2 DEF StoreFits, Master
          <6>2. IsPrimary(st, q) /\ q \in DOMAIN st \ {n}
            BY <4>2, <6>1 DEF ReplicaFits, IsPrimary
          <6> QED
            BY <1>1, <6>2 DEF Reshapes
        <5> QED
          BY <5>1, <5>2
      <4> QED
        BY <4>1, <4>2
    <3> QED
      BY <2>1, <2>2, <2>3, <2>5, <3>1, <3>2, <3>3, <3>4, <3>5 DEF OwnerFits
  <2> QED
    BY <2>6, <2>7
<1>11. ASSUME NEW c \in DOMAIN sv2 PROVE OwnerFits(st2, sv2, c)
  <2>1. CASE c \in fresh
    <3>1. Master(st2, n) = n /\ st2[n].persistence = p /\ n \in DOMAIN st2
      BY <1>2, <1>3, <1>4 DEF Master
    <3> QED
      BY <1>5, <2>1, <3>1 DEF OwnerFits
  <2>2. CASE c \in WithExporters(made)
    <3>1. PICK r \in made : c \in {r, Append(r, "exporter")}
      BY <2>2 DEF WithExporters
    <3>2. sv2[c] = Holding(r, IF c = r THEN p ELSE "none")
      BY <1>6, <3>1
    <3>3. sv2[c].owner = r /\ sv2[c].flags = IF c = r THEN p ELSE "none"
      BY <3>2, HoldingIs
    <3> QED
      BY <1>3, <1>4, <1>6, <3>1, <3>2, <3>3 DEF OwnerFits
  <2>3. CASE c \notin fresh \union WithExporters(made)
    <3>1. c \in DOMAIN sv \ (removed \union fresh \union WithExporters(made))
      BY <2>3 DEF Placed
    <3> QED
      BY <1>10, <3>1
  <2> QED
    BY <2>1, <2>2, <2>3
<1>12. ASSUME NEW m \in DOMAIN st2, NEW c \in Containers(st2[m], m) PROVE c \in DOMAIN sv2 /\ sv2[c].owner = m
  <2>1. CASE m \in made
    <3>1. PICK e : e = Append(m, "exporter")
      OBVIOUS
    <3>2. /\ {m, e} \subseteq DOMAIN sv2 /\ sv2[m] = Holding(m, p) /\ sv2[e] = Holding(m, "none")
          /\ Containers(st2[m], m) = {m, e}
      BY <1>6, <2>1, <3>1
    <3>3. sv2[m].owner = m /\ sv2[e].owner = m
      BY <3>2, HoldingIs
    <3> QED
      BY <1>12, <3>2, <3>3
  <2>2. CASE m = n
    BY <1>9, <2>2
  <2>3. CASE m \in DOMAIN st \ (dropped \union {n})
    BY <1>3, <1>8, <2>3
  <2> QED
    BY <1>3, <2>1, <2>2, <2>3
<1> QED
  BY <1>11, <1>12 DEF BuiltAs

\* What it makes of the jobs and of the folders; gone is the sentinels' configuration.
Rescraped(sc, n, dropped, made, targets, gone, sc2) ==
  /\ sc2 = [m \in made \union {n} \union (DOMAIN sc \ (dropped \union gone)) |-> sc2[m]]
  /\ \A r \in made : sc2[r] = {Append(r, "exporter")}
  /\ sc2[n] = {Append(c, "exporter") : c \in targets}
  /\ \A m \in DOMAIN sc \ (dropped \union gone \union made \union {n}) : sc2[m] = sc[m]
Refiled(fo, n, to, gone, fo2) ==
  /\ DOMAIN fo \ gone \subseteq DOMAIN fo2
  /\ \A f \in DOMAIN fo \ gone : fo[f] \subseteq fo2[f]
  /\ to = "replicated" => gone = {} /\ Append(n, "sentinel") \in DOMAIN fo2

LEMMA ReshapedFolders ==
  ASSUME NEW st, NEW n, NEW to \in {"standalone", "replicated", "cluster"}, NEW count, NEW dropped, NEW made, NEW st2,
         Reshaped(st, n, to, count, dropped, made, st2), NEW fresh, FreshFits(st[n], n, to, count, fresh),
         NEW sc, NEW fo, FoldersFit(st, sc, fo),
         NEW targets, targets = (IF to = "cluster" THEN MembersOf(n, count) ELSE {n}),
         NEW gone, gone \subseteq {Append(n, "sentinel")}, gone \intersect DOMAIN st = {},
         to = "replicated" => Append(n, "sentinel") \notin DOMAIN st,
         NEW sc2, Rescraped(sc, n, dropped, made, targets, gone, sc2), NEW fo2, Refiled(fo, n, to, gone, fo2)
  PROVE  FoldersFit(st2, sc2, fo2)
<1>1. Reshapes(st, n, dropped, made, st2)
  BY ReshapedIs
<1>2. /\ n \in DOMAIN st \ dropped /\ n \in Seq(Word) /\ n # NoParent /\ st[n].type = "redis"
      /\ made \intersect DOMAIN st = {} /\ n \notin made
  BY <1>1 DEF Reshapes, Called
<1>3. /\ DOMAIN st2 = (DOMAIN st \ dropped) \union made /\ StoreFits(st)
      /\ \A m \in DOMAIN st \ (dropped \union {n}) : st2[m] = st[m]
      /\ st2[n].type = "redis"
  BY DEF Reshaped
<1>4. st2[n].sentinel => to = "replicated"
  BY DEF Reshaped
<1>5. Keepers(st2[n], n) = targets
  <2>1. InMode(st2[n], n, to, count, fresh)
    BY NewMode
  <2> QED
    BY <2>1 DEF InMode
<1>6. /\ sc = [m \in DOMAIN st |-> Scrapes(st[m], m)]
      /\ \A m \in DOMAIN st :
           /\ st[m].sentinel => Append(m, "sentinel") \in DOMAIN fo \ DOMAIN st
           /\ st[m].type = "service" => m \in DOMAIN fo /\ "code" \in fo[m]
  BY DEF FoldersFit
<1>7. ASSUME NEW r \in made PROVE st2[r].type = "redis" /\ st2[r].sentinel = FALSE /\ Scrapes(st2[r], r) = {Append(r, "exporter")}
  <2>1. st2[r].type = "redis" /\ st2[r].sentinel = FALSE /\ st2[r].members = 0
    BY <1>1 DEF Reshapes
  <2> QED
    BY <2>1 DEF Scrapes, Keepers
<1>8. ASSUME NEW m \in Seq(Word) PROVE Append(m, "sentinel") \notin made
  <2>1. SUFFICES ASSUME Append(m, "sentinel") \in made PROVE FALSE
    OBVIOUS
  <2>2. PICK i \in DOMAIN Digit : Append(m, "sentinel") = Numbered(n, i)
    BY <2>1 DEF Reshaped
  <2>3. \A o \in Seq(Word), y \in Suffixed : Numbered(n, i) # Append(o, y)
    BY <1>2, NumberedIs
  <2> QED
    BY <2>2, <2>3, SuffixesAre
<1>9. sc2 = [m \in DOMAIN st2 |-> Scrapes(st2[m], m)]
  <2>1. DOMAIN st2 = made \union {n} \union (DOMAIN sc \ (dropped \union gone))
    BY <1>2, <1>3, <1>6
  <2>2. \A r \in made : sc2[r] = Scrapes(st2[r], r)
    BY <1>7 DEF Rescraped
  <2>3. sc2[n] = Scrapes(st2[n], n)
    BY <1>3, <1>5 DEF Rescraped, Scrapes
  <2>4. ASSUME NEW m \in DOMAIN st \ (dropped \union {n}) PROVE sc2[m] = Scrapes(st2[m], m)
    <3>1. m \in DOMAIN sc \ (dropped \union gone \union made \union {n})
      BY <1>2, <1>6, <2>4
    <3>2. sc2[m] = sc[m] /\ sc[m] = Scrapes(st[m], m)
      BY <1>6, <2>4, <3>1 DEF Rescraped
    <3> QED
      BY <1>3, <3>2
  <2>5. \A m \in DOMAIN st2 : sc2[m] = Scrapes(st2[m], m)
    BY <1>3, <2>2, <2>3, <2>4
  <2> QED
    BY <2>1, <2>5 DEF Rescraped
<1>10. ASSUME NEW m \in DOMAIN st2, st2[m].sentinel PROVE Append(m, "sentinel") \in DOMAIN fo2 \ DOMAIN st2
  <2>1. CASE m = n
    BY <1>2, <1>3, <1>4, <1>8, <1>10, <2>1 DEF Refiled
  <2>2. CASE m # n
    <3>1. m \in DOMAIN st \ (dropped \union {n})
      BY <1>3, <1>7, <1>10, <2>2
    <3>2. m \in Seq(Word) /\ "sentinel" \in Word
      BY <1>3, <3>1, DigitsAre, SuffixesAre DEF StoreFits, Called
    <3>3. Append(m, "sentinel") \in DOMAIN fo \ DOMAIN st
      BY <1>3, <1>6, <1>10, <3>1
    <3>4. Append(m, "sentinel") \notin gone
      <4>1. Append(m, "sentinel") # Append(n, "sentinel")
        BY <1>2, <2>2, <3>2, NameSplits
      <4> QED
        BY <4>1
    <3> QED
      BY <1>3, <1>8, <3>2, <3>3, <3>4 DEF Refiled
  <2> QED
    BY <2>1, <2>2
<1>11. ASSUME NEW m \in DOMAIN st2, st2[m].type = "service" PROVE m \in DOMAIN fo2 /\ "code" \in fo2[m]
  <2>1. m \in DOMAIN st \ (dropped \union {n})
    BY <1>3, <1>7, <1>11
  <2>2. m \in DOMAIN fo \ gone /\ "code" \in fo[m]
    BY <1>3, <1>6, <1>11, <2>1
  <2> QED
    BY <2>2 DEF Refiled
<1> QED
  BY <1>9, <1>10, <1>11 DEF FoldersFit

\* That a change of topology is one.
LEMMA TargetFits ==
  ASSUME NEW target \in Targets
  PROVE  /\ target.mode \in {"standalone", "replicated", "cluster"} /\ target.count \in Nat
         /\ target.mode = "cluster" => target.count \in ClusterSizes
<1>1. CASE target = [mode |-> "standalone", count |-> 0]
  BY <1>1
<1>2. CASE \E r \in 1..MaxReplicas : target = [mode |-> "replicated", count |-> r]
  BY <1>2, RedisSizesCount
<1>3. CASE \E c \in ClusterSizes : target = [mode |-> "cluster", count |-> c]
  <2>1. PICK c \in ClusterSizes : target = [mode |-> "cluster", count |-> c]
    BY <1>3
  <2>2. target.mode = "cluster" /\ target.count = c
    BY <2>1
  <2>3. c \in Nat
    BY RedisSizesCount, DigitsAre
  <2> QED
    BY <2>2, <2>3
<1> QED
  BY <1>1, <1>2, <1>3 DEF Targets

LEMMA ToReshaped ==
  ASSUME StoreFits(store), NEW n, IsPrimary(store, n), NEW to, NEW count \in Nat, to = "cluster" => count \in ClusterSizes,
         to = "replicated" => LastNumbered(n) + count - Cardinality(ReplicasOf(n)) <= Len(Digit),
         NEW dropped, dropped = IF to = "replicated" THEN ReplicasOf(n) \ Kept(n, count) ELSE ReplicasOf(n),
         NEW made, made = IF to = "replicated" THEN Made(n, count) ELSE {},
         NEW st2,
         st2 = Over([r \in made |-> Node("redis", n)],
                 [m \in DOMAIN store \ dropped |->
                   IF m = n THEN [[store[n] EXCEPT !.sentinel = (to = "replicated")] EXCEPT !.members = IF to = "cluster" THEN count ELSE 0]
                   ELSE store[m]])
  PROVE  Reshaped(store, n, to, count, dropped, made, st2)
<1>1. /\ n \in DOMAIN store /\ n # NoParent /\ store[n].type = "redis" /\ store[n].parent = NoParent /\ IsFiniteSet(DOMAIN store)
      /\ NodeFits(store[n])
  BY DEF IsPrimary, StoreFits, Called, NoParent
<1>2. dropped \subseteq Followers(store, n) /\ (to # "replicated" => dropped = Followers(store, n) /\ made = {})
  BY DEF ReplicasOf, Followers
<1>3. IsFiniteSet(made) /\ \A r \in made : r \notin DOMAIN store /\ \E i \in DOMAIN Digit : r = Numbered(n, i)
  <2>1. CASE to = "replicated"
    BY <1>1, <2>1, MadeIs
  <2>2. CASE to # "replicated"
    BY <1>2, <2>2, FS_EmptySet
  <2> QED
    BY <2>1, <2>2
<1>4. n \in DOMAIN store \ dropped
  BY <1>1, <1>2 DEF Followers
<1>5. PICK b, k : b = (to = "replicated") /\ k = IF to = "cluster" THEN count ELSE 0
  OBVIOUS
<1>6. PICK x : x = [[store[n] EXCEPT !.sentinel = b] EXCEPT !.members = k]
  OBVIOUS
<1>7. x = [type |-> store[n].type, parent |-> store[n].parent, sentinel |-> b, members |-> k,
           persistence |-> store[n].persistence, keyspaces |-> store[n].keyspaces]
  <2>1. PICK t, u, v, w, y, z : store[n] = [type |-> t, parent |-> u, sentinel |-> v, members |-> w, persistence |-> y, keyspaces |-> z]
    BY <1>1 DEF NodeFits
  <2>2. PICK f : f = [store[n] EXCEPT !.sentinel = b]
    OBVIOUS
  <2>3. f = [type |-> t, parent |-> u, sentinel |-> b, members |-> w, persistence |-> y, keyspaces |-> z]
    BY <2>1, <2>2
  <2>4. x = [f EXCEPT !.members = k]
    BY <1>6, <2>2
  <2>5. x = [type |-> t, parent |-> u, sentinel |-> b, members |-> k, persistence |-> y, keyspaces |-> z]
    BY <2>3, <2>4
  <2> QED
    BY <2>1, <2>5
<1>8. PICK f, g : f = [r \in made |-> Node("redis", n)]
                  /\ g = [m \in DOMAIN store \ dropped |-> IF m = n THEN x ELSE store[m]]
  OBVIOUS
<1>9. st2 = Over(f, g)
  BY <1>5, <1>6, <1>8
<1>10. /\ DOMAIN st2 = (DOMAIN store \ dropped) \union made
       /\ \A r \in made : st2[r] = Node("redis", n)
       /\ \A m \in DOMAIN store \ dropped : st2[m] = IF m = n THEN x ELSE store[m]
  BY <1>3, <1>8, <1>9 DEF Over
<1>11. st2[n] = x
  BY <1>4, <1>10
<1>12. \A m \in DOMAIN store \ (dropped \union {n}) : st2[m] = store[m]
  BY <1>10
<1>13. /\ x.type = "redis" /\ x.parent = NoParent /\ x.sentinel = b /\ x.members = k
       /\ x.persistence = store[n].persistence /\ x.keyspaces = store[n].keyspaces
       /\ x = [type |-> x.type, parent |-> x.parent, sentinel |-> x.sentinel, members |-> x.members,
               persistence |-> x.persistence, keyspaces |-> x.keyspaces]
  BY <1>1, <1>7
<1> QED
  BY <1>2, <1>3, <1>5, <1>10, <1>11, <1>12, <1>13 DEF Reshaped

LEMMA ToFresh ==
  ASSUME StoreFits(store), NEW n, IsPrimary(store, n), NEW target \in Targets
  PROVE  FreshFits(store[n], n, target.mode, target.count, Restored(n, target) \union BuiltFor(n, target))
<1>1. target.mode \in {"standalone", "replicated", "cluster"}
  BY TargetFits
<1>2. Seeder(n) \subseteq {Append(n, "init")}
  BY DEF Seeder
<1>3. store[n].members > 0 => ModeOf(n) = "cluster"
  BY DEF ModeOf
<1>4. CASE target.mode = "cluster"
  <2>1. Restored(n, target) = {} /\ BuiltFor(n, target) = {InitOf(n)} \union WithExporters(MembersOf(n, target.count))
    BY <1>4 DEF Restored, BuiltFor
  <2> QED
    BY <1>4, <2>1 DEF FreshFits
<1>5. CASE target.mode # "cluster"
  <2>1. Restored(n, target) \subseteq {n, Append(n, "exporter"), Append(n, "init")}
        /\ (store[n].members > 0 => {n, Append(n, "exporter")} \subseteq Restored(n, target))
    BY <1>2, <1>3, <1>5 DEF Restored
  <2>2. CASE target.mode = "standalone"
    <3>1. BuiltFor(n, target) = {}
      BY <2>2 DEF BuiltFor
    <3> QED
      BY <2>1, <2>2, <3>1 DEF FreshFits
  <2>3. CASE target.mode = "replicated"
    <3>1. BuiltFor(n, target) = SentinelsOf(n)
      BY <2>3 DEF BuiltFor
    <3> QED
      BY <2>1, <2>3, <3>1 DEF FreshFits, Own
  <2> QED
    BY <1>1, <1>5, <2>2, <2>3
<1> QED
  BY <1>4, <1>5

LEMMA ToPlaced ==
  ASSUME NEW sv, NEW n, NEW p, NEW made, NEW members, NEW removed, NEW fresh, members \subseteq fresh, NEW sv2,
         sv2 = Over(Data(n, (fresh \intersect {n}) \union members, p), Over(Plain(n, fresh),
               Over([c \in made |-> Holding(c, p)],
               Over([c \in {Append(r, "exporter") : r \in made} |-> Holding(Front(c), "none")], DropKeys(sv, removed)))))
  PROVE  Placed(sv, n, p, made, members, removed, fresh, sv2)
<1>1. PICK kept, a, b, c, d :
        /\ kept = DropKeys(sv, removed) /\ a = Data(n, (fresh \intersect {n}) \union members, p) /\ b = Plain(n, fresh)
        /\ c = [q \in made |-> Holding(q, p)]
        /\ d = [q \in {Append(r, "exporter") : r \in made} |-> Holding(Front(q), "none")]
  OBVIOUS
<1>2. PICK e, f, g : e = Over(d, kept) /\ f = Over(c, e) /\ g = Over(b, f)
  OBVIOUS
<1>3. sv2 = Over(a, g)
  BY <1>1, <1>2
<1>4. /\ DOMAIN kept = DOMAIN sv \ removed /\ \A x \in DOMAIN kept : kept[x] = sv[x]
  BY <1>1 DEF DropKeys, Restrict
<1>5. /\ DOMAIN a = (fresh \intersect {n}) \union members /\ \A x \in DOMAIN a : a[x] = Holding(n, p)
      /\ DOMAIN b = fresh /\ \A x \in DOMAIN b : b[x] = Holding(n, "none")
  BY <1>1 DEF Data, Plain
<1>6. /\ DOMAIN c = made /\ \A x \in DOMAIN c : c[x] = Holding(x, p)
      /\ DOMAIN d = {Append(r, "exporter") : r \in made} /\ \A x \in DOMAIN d : d[x] = Holding(Front(x), "none")
  BY <1>1
<1>7. DOMAIN e = DOMAIN d \union DOMAIN kept /\ (\A x \in DOMAIN d : e[x] = d[x]) /\ \A x \in DOMAIN kept \ DOMAIN d : e[x] = kept[x]
  BY <1>2 DEF Over
<1>8. DOMAIN f = DOMAIN c \union DOMAIN e /\ (\A x \in DOMAIN c : f[x] = c[x]) /\ \A x \in DOMAIN e \ DOMAIN c : f[x] = e[x]
  BY <1>2 DEF Over
<1>9. DOMAIN g = DOMAIN b \union DOMAIN f /\ (\A x \in DOMAIN b : g[x] = b[x]) /\ \A x \in DOMAIN f \ DOMAIN b : g[x] = f[x]
  BY <1>2 DEF Over
<1>10. DOMAIN sv2 = DOMAIN a \union DOMAIN g /\ (\A x \in DOMAIN a : sv2[x] = a[x]) /\ \A x \in DOMAIN g \ DOMAIN a : sv2[x] = g[x]
  BY <1>3 DEF Over
<1>11. PICK w : w = {Append(r, "exporter") : r \in made}
  OBVIOUS
<1>12. WithExporters(made) = made \union w
  BY <1>11 DEF WithExporters
<1>13. DOMAIN sv2 = fresh \union made \union w \union (DOMAIN sv \ removed)
  BY <1>4, <1>5, <1>6, <1>7, <1>8, <1>9, <1>10, <1>11
<1>14. ASSUME NEW x \in fresh PROVE sv2[x] = Holding(n, IF x \in members \union {n} THEN p ELSE "none")
  <2>1. CASE x \in members \union {n}
    BY <1>5, <1>10, <2>1
  <2>2. CASE x \notin members \union {n}
    BY <1>5, <1>9, <1>10, <2>2
  <2> QED
    BY <2>1, <2>2
<1>15. ASSUME NEW x \in made \ fresh PROVE sv2[x] = Holding(x, p)
  BY <1>5, <1>6, <1>8, <1>9, <1>10
<1>16. ASSUME NEW x \in w \ (fresh \union made) PROVE sv2[x] = Holding(Front(x), "none")
  <2>1. sv2[x] = g[x] /\ g[x] = f[x]
    BY <1>5, <1>6, <1>7, <1>8, <1>9, <1>10, <1>11
  <2>2. f[x] = e[x] /\ e[x] = d[x]
    BY <1>6, <1>7, <1>8, <1>11
  <2> QED
    BY <1>6, <1>11, <2>1, <2>2
<1>17. ASSUME NEW x \in DOMAIN sv \ (removed \union fresh \union made \union w) PROVE sv2[x] = sv[x]
  <2>1. x \in DOMAIN kept /\ x \notin DOMAIN d /\ x \notin DOMAIN c /\ x \notin DOMAIN b /\ x \notin DOMAIN a
    BY <1>4, <1>5, <1>6, <1>11
  <2>2. e[x] = sv[x] /\ x \in DOMAIN e
    BY <1>4, <1>7, <2>1
  <2>3. f[x] = sv[x] /\ x \in DOMAIN f
    BY <1>8, <2>1, <2>2
  <2>4. g[x] = sv[x] /\ x \in DOMAIN g
    BY <1>9, <2>1, <2>3
  <2> QED
    BY <1>10, <2>1, <2>4
<1> QED
  BY <1>11, <1>12, <1>13, <1>14, <1>15, <1>16, <1>17 DEF Placed

LEMMA SetTopologyStep ==
  ASSUME RedisInv, NEW n \in Primary, NEW target \in Targets, SetTopology(n, target)
  PROVE  RedisInv'
<1>1. PICK to, count, conf : to = target.mode /\ count = target.count /\ conf = Append(n, "sentinel")
  OBVIOUS
<1>2. PICK leaves : leaves = (store[n].sentinel /\ to # "replicated")
  OBVIOUS
<1>3. PICK dropped, made, members :
        /\ dropped = IF to = "replicated" THEN ReplicasOf(n) \ Kept(n, count) ELSE ReplicasOf(n)
        /\ made = IF to = "replicated" THEN Made(n, count) ELSE {}
        /\ members = IF to = "cluster" THEN MembersOf(n, count) ELSE {}
  OBVIOUS
<1>4. PICK removed, fresh, targets :
        /\ removed = Removed(n, target, dropped) /\ fresh = Restored(n, target) \union BuiltFor(n, target)
        /\ targets = IF to = "cluster" THEN members ELSE {n}
  OBVIOUS
<1>5. "lost" \notin wrong /\ UNCHANGED <<scan, displayed, wanted>>
  BY RequestIs DEF SetTopology
<1>6. to = "replicated" => LastNumbered(n) + count - Cardinality(ReplicasOf(n)) <= Len(Digit)
  BY <1>1 DEF SetTopology
<1>7. StoreFits(store) /\ TabFits(displayed) /\ ScanFits(scan) /\ IsPrimary(store, n)
  BY <1>5 DEF RedisInv, Primary, Of, IsPrimary
<1>8. to \in {"standalone", "replicated", "cluster"} /\ count \in Nat /\ (to = "cluster" => count \in ClusterSizes)
  BY <1>1, TargetFits
<1>9. CASE /\ folders' = IF leaves THEN DropKeys(folders, {conf}) ELSE folders
           /\ wrong' = IF leaves THEN wrong \union {"torn"} ELSE wrong
           /\ UNCHANGED <<store, services, scraped>>
  <2>1. ASSUME wrong' \intersect {"shared", "torn"} = {} PROVE folders' = folders /\ wrong' = wrong
    BY <1>9, <2>1
  <2>2. ASSUME wrong' \intersect {"shared", "torn"} = {} PROVE FoldersFit(store', scraped', folders')
    BY <1>5, <1>9, <2>1, <2>2 DEF RedisInv
  <2>3. "behind" \notin wrong' => \A w \in wanted' : Met(store', w)
    BY <1>5, <1>9 DEF RedisInv
  <2>4. "collided" \notin wrong' => BuiltAs(store', services')
    BY <1>5, <1>9 DEF RedisInv
  <2> QED
    BY <1>5, <1>7, <1>9, <2>2, <2>3, <2>4 DEF RedisInv
<1>10. CASE
         /\ store' = Over([r \in made |-> Node("redis", n)],
              [m \in DOMAIN store \ dropped |->
                IF m = n THEN [[store[n] EXCEPT !.sentinel = (to = "replicated")] EXCEPT !.members = IF to = "cluster" THEN count ELSE 0]
                ELSE store[m]])
         /\ services' = Over(Data(n, (fresh \intersect {n}) \union members, MemberFlags(n)), Over(Plain(n, fresh),
                        Over([c \in made |-> Holding(c, store[n].persistence)],
                        Over([c \in {Append(r, "exporter") : r \in made} |-> Holding(Front(c), "none")], DropKeys(services, removed)))))
         /\ scraped' = Over([r \in made |-> {Append(r, "exporter")}],
                       Over(One(n, {Append(c, "exporter") : c \in targets}),
                       DropKeys(scraped, dropped \union IF leaves THEN {conf} ELSE {})))
         /\ folders' = IF leaves THEN DropKeys(folders, {conf})
                       ELSE [f \in DOMAIN folders \union (IF to = "replicated" THEN {conf} ELSE {}) |->
                               (IF f = conf THEN {"conf"} ELSE {})
                               \union (IF f \in DOMAIN folders THEN folders[f] ELSE {})]
         /\ wrong' = wrong
              \union (IF (fresh \union WithExporters(made)) \intersect DOMAIN DropKeys(services, removed)
                           \subseteq (IF store[n].sentinel THEN SentinelsOf(n) ELSE {})
                         /\ ~OfOthers(removed, {n} \union dropped) THEN {} ELSE {"collided"})
              \union (IF (to = "replicated" \/ leaves) /\ conf \in DOMAIN store THEN {"shared"} ELSE {})
  <2>1. Reshaped(store, n, to, count, dropped, made, store')
    BY <1>3, <1>6, <1>7, <1>8, <1>10, ToReshaped
  <2>2. StoreFits(store') /\ \A w : Met(store, w) => Met(store', w)
    BY <2>1, ReshapedStore
  <2>3. FreshFits(store[n], n, to, count, fresh)
    BY <1>1, <1>4, <1>7, ToFresh
  <2>4. ASSUME "behind" \notin wrong', NEW w \in wanted' PROVE Met(store', w)
    <3>1. "behind" \notin wrong
      BY <1>10, <2>4
    <3>2. Met(store, w)
      BY <1>5, <2>4, <3>1 DEF RedisInv
    <3> QED
      BY <2>2, <3>2
  <2>5. ASSUME "collided" \notin wrong' PROVE BuiltAs(store', services')
    <3>1. BuiltAs(store, services)
      <4>1. "collided" \notin wrong
        BY <1>10, <2>5
      <4> QED
        BY <1>5, <4>1 DEF RedisInv
    <3>2. members \subseteq fresh
      BY <1>3, <2>3 DEF FreshFits, WithExporters
    <3>3. Placed(services, n, store[n].persistence, made, members, removed, fresh, services')
      BY <1>10, <3>2, ToPlaced DEF MemberFlags
    <3>4. removed = Unneeded(store[n], n, to, dropped)
      <4>1. ModeOf(n) = "cluster" <=> store[n].members > 0
        BY DEF ModeOf
      <4>2. removed = WithExporters(dropped)
              \union (IF ModeOf(n) = "cluster" THEN {InitOf(n)} \union WithExporters(MembersOf(n, store[n].members)) ELSE {})
              \union (IF store[n].sentinel /\ to # "replicated" THEN SentinelsOf(n) ELSE {})
              \union (IF to = "cluster" /\ ModeOf(n) # "cluster" THEN {n, Append(n, "exporter"), Append(n, "init")} ELSE {})
        BY <1>1, <1>4 DEF Removed
      <4> QED
        BY <4>1, <4>2 DEF Unneeded
    <3>5. Unharmed(store[n], services, n, dropped, made, removed, fresh)
      <4>1. DOMAIN DropKeys(services, removed) = DOMAIN services \ removed
        BY DEF DropKeys, Restrict
      <4>2. /\ (fresh \union WithExporters(made)) \intersect (DOMAIN services \ removed)
                 \subseteq (IF store[n].sentinel THEN SentinelsOf(n) ELSE {})
            /\ ~OfOthers(removed, {n} \union dropped)
        BY <1>10, <2>5, <4>1
      <4> QED
        BY <4>2 DEF Unharmed, OfOthers
    <3> QED
      BY <1>3, <1>8, <2>1, <2>3, <3>1, <3>3, <3>4, <3>5, ReshapedBuilt
  <2>6. ASSUME wrong' \intersect {"shared", "torn"} = {} PROVE FoldersFit(store', scraped', folders')
    <3>1. wrong \intersect {"shared", "torn"} = {} /\ ((to = "replicated" \/ leaves) => conf \notin DOMAIN store)
      BY <1>10, <2>6
    <3>2. FoldersFit(store, scraped, folders)
      BY <1>5, <3>1 DEF RedisInv
    <3>3. PICK gone : gone = IF leaves THEN {conf} ELSE {}
      OBVIOUS
    <3>4. /\ gone \subseteq {Append(n, "sentinel")} /\ gone \intersect DOMAIN store = {}
          /\ to = "replicated" => Append(n, "sentinel") \notin DOMAIN store
      BY <1>1, <3>1, <3>3
    <3>5. targets = IF to = "cluster" THEN MembersOf(n, count) ELSE {n}
      BY <1>3, <1>4
    <3>6. Rescraped(scraped, n, dropped, made, targets, gone, scraped')
      <4>1. n \notin made
        <5>1. Reshapes(store, n, dropped, made, store')
          BY <2>1, ReshapedIs
        <5> QED
          BY <5>1 DEF Reshapes
      <4>2. PICK f, g, h : /\ f = [r \in made |-> {Append(r, "exporter")}] /\ g = DropKeys(scraped, dropped \union gone)
                           /\ h = Over(One(n, {Append(c, "exporter") : c \in targets}), g)
        OBVIOUS
      <4>3. scraped' = Over(f, h)
        BY <1>10, <3>3, <4>2
      <4>4. DOMAIN g = DOMAIN scraped \ (dropped \union gone) /\ \A m \in DOMAIN g : g[m] = scraped[m]
        BY <4>2 DEF DropKeys, Restrict
      <4>5. /\ DOMAIN h = {n} \union DOMAIN g /\ h[n] = {Append(c, "exporter") : c \in targets}
            /\ \A m \in DOMAIN g \ {n} : h[m] = g[m]
        BY <4>2 DEF Over, One
      <4>6. /\ scraped' = [m \in made \union DOMAIN h |-> scraped'[m]]
            /\ (\A m \in made : scraped'[m] = {Append(m, "exporter")}) /\ \A m \in DOMAIN h \ made : scraped'[m] = h[m]
        BY <4>2, <4>3 DEF Over
      <4>7. made \union {n} \union (DOMAIN scraped \ (dropped \union gone)) = made \union DOMAIN h
        BY <4>4, <4>5
      <4> QED
        BY <4>1, <4>4, <4>5, <4>6, <4>7 DEF Rescraped
    <3>7. Refiled(folders, n, to, gone, folders')
      <4>1. CASE leaves
        <5>1. to # "replicated" /\ folders' = DropKeys(folders, gone)
          BY <1>2, <1>10, <3>3, <4>1
        <5> QED
          BY <5>1 DEF Refiled, DropKeys, Restrict
      <4>2. CASE ~leaves
        <5>1. gone = {} /\ folders' = [f \in DOMAIN folders \union (IF to = "replicated" THEN {conf} ELSE {}) |->
                                         (IF f = conf THEN {"conf"} ELSE {})
                                         \union (IF f \in DOMAIN folders THEN folders[f] ELSE {})]
          BY <1>10, <3>3, <4>2
        <5>2. DOMAIN folders \subseteq DOMAIN folders' /\ (to = "replicated" => conf \in DOMAIN folders')
          BY <5>1
        <5>3. \A f \in DOMAIN folders : folders[f] \subseteq folders'[f]
          BY <5>1
        <5> QED
          BY <1>1, <5>1, <5>2, <5>3 DEF Refiled
      <4> QED
        BY <4>1, <4>2
    <3> QED
      BY <1>8, <2>1, <2>3, <3>2, <3>4, <3>5, <3>6, <3>7, ReshapedFolders
  <2> QED
    BY <1>5, <1>7, <2>2, <2>4, <2>5, <2>6 DEF RedisInv
<1> QED
  BY <1>1, <1>2, <1>3, <1>4, <1>9, <1>10 DEF SetTopology

\* What the console starts with.
LEMMA PairIs ==
  ASSUME NEW x \in Word, NEW y \in Word
  PROVE  <<x>> \in Called /\ Append(<<x>>, y) = <<x, y>>
<1>1. PICK s, t, u : s = <<x>> /\ t = Append(s, y) /\ u = <<x, y>>
  OBVIOUS
<1>2. s \in Seq(Word) /\ Len(s) = 1 /\ s[1] = x /\ s # <<>>
  BY <1>1
<1>3. t \in Seq(Word) /\ Len(t) = 2 /\ t[1] = x /\ t[2] = y
  BY <1>1, <1>2, AppendProperties
<1>4. u \in Seq(Word) /\ Len(u) = 2 /\ u[1] = x /\ u[2] = y
  BY <1>1
<1>5. \A i \in 1..Len(t) : t[i] = u[i]
  <2>1. \A i \in 1..2 : i = 1 \/ i = 2
    OBVIOUS
  <2> QED
    BY <1>3, <1>4, <2>1
<1>6. t = u
  BY <1>3, <1>4, <1>5, SeqEqual
<1> QED
  BY <1>1, <1>2, <1>6 DEF Called

LEMMA CacheIs ==
  /\ Cache \in Called /\ Cache = <<"cache">> /\ Cache # NoParent
  /\ Append(Cache, "exporter") = <<"cache", "exporter">> /\ Append(Cache, "init") = <<"cache", "init">>
<1>1. "cache" \in Word /\ "exporter" \in Word /\ "init" \in Word
  BY RedisNamesAreStrings DEF Suffixed
<1> QED
  BY <1>1, PairIs DEF Cache, Called, NoParent

LEMMA RedisInitial == RedisInit => RedisInv
<1> SUFFICES ASSUME RedisInit PROVE RedisInv
  OBVIOUS
<1>1. PICK x \in RedisScopes :
        /\ store = [n \in {Cache} \union x.backends |->
             IF n = Cache THEN [Node("redis", NoParent) EXCEPT !.keyspaces = [k \in x.keys |-> NewKeyspace]]
             ELSE Node("service", NoParent)]
        /\ services = Over(Data(Cache, {Cache}, "image"), Over(Plain(Cache, {Append(Cache, "exporter")} \union Seeder(Cache)),
                           [n \in x.backends |-> Holding(n, "none")]))
        /\ scraped = Over(One(Cache, {Append(Cache, "exporter")}), [n \in x.backends |-> {n}])
        /\ folders = [n \in x.backends |-> {"code"}]
        /\ scan = NoScan /\ displayed = [of |-> Cache, list |-> store[Cache].keyspaces]
        /\ wanted = {} /\ wrong = {}
  BY DEF RedisInit
<1>2. PICK B, ks : B = x.backends /\ ks = [k \in x.keys |-> NewKeyspace]
  OBVIOUS
<1>3. IsFiniteSet(B) /\ B \subseteq Called /\ <<"cache">> \notin B /\ <<"cache", "exporter">> \notin B /\ <<"cache", "init">> \notin B
  BY <1>2, RedisScopesStart DEF Called
<1>4. Cache \in Called /\ Cache \notin B /\ Append(Cache, "exporter") \notin B /\ Append(Cache, "init") \notin B
      /\ Cache # NoParent
  BY <1>3, CacheIs
<1>5. DOMAIN store = {Cache} \union B /\ \A n \in B : store[n] = Node("service", NoParent)
  BY <1>1, <1>2, <1>4
<1>6. store[Cache] = [type |-> "redis", parent |-> NoParent, sentinel |-> FALSE, members |-> 0, persistence |-> "image", keyspaces |-> ks]
  <2>1. store[Cache] = [Node("redis", NoParent) EXCEPT !.keyspaces = ks]
    BY <1>1, <1>2
  <2> QED
    BY <2>1, NodeIs
<1>7. /\ store[Cache].type = "redis" /\ store[Cache].parent = NoParent /\ store[Cache].sentinel = FALSE /\ store[Cache].members = 0
      /\ store[Cache].persistence = "image" /\ store[Cache].keyspaces = ks /\ NodeFits(store[Cache])
  BY <1>6 DEF NodeFits
<1>8. ASSUME NEW n \in B
      PROVE  /\ store[n].type = "service" /\ store[n].parent = NoParent /\ store[n].sentinel = FALSE /\ store[n].members = 0
             /\ DOMAIN store[n].keyspaces = {} /\ NodeFits(store[n])
  <2>1. store[n] = [type |-> "service", parent |-> NoParent, sentinel |-> FALSE, members |-> 0, persistence |-> "image", keyspaces |-> <<>>]
    BY <1>5, NodeIs
  <2>2. DOMAIN <<>> = {}
    BY NodeIs
  <2> QED
    BY <2>1, <2>2 DEF NodeFits
<1>9. StoreFits(store)
  <2>1. IsFiniteSet({Cache} \union B)
    BY <1>3, FS_Singleton, FS_Union
  <2>2. \A S : RolesFit(NewKeyspace, S)
    BY DEF RolesFit, RoleLists, NewKeyspace
  <2>3. \A k \in DOMAIN ks : ks[k] = NewKeyspace
    BY <1>2
  <2>4. \A n \in DOMAIN store : store[n].parent = NoParent /\ NodeFits(store[n])
    BY <1>5, <1>7, <1>8
  <2>5. ASSUME NEW n \in DOMAIN store, NEW k \in DOMAIN store[n].keyspaces
        PROVE  RolesFit(store[n].keyspaces[k], ServicesIn(store))
    <3>1. n = Cache
      BY <1>5, <1>8, <2>5
    <3>2. store[n].keyspaces[k] = NewKeyspace
      BY <1>7, <2>3, <2>5, <3>1
    <3> QED
      BY <2>2, <3>2
  <2> QED
    BY <1>3, <1>4, <1>5, <2>1, <2>4, <2>5 DEF StoreFits
<1>10. TabFits(displayed) /\ ScanFits(scan)
  <2>1. displayed = [of |-> Cache, list |-> ks] /\ scan = NoScan
    BY <1>1, <1>7
  <2>2. \A k \in DOMAIN ks : RoleLists(ks[k])
    BY <1>2 DEF RoleLists, NewKeyspace
  <2> QED
    BY <2>1, <2>2 DEF TabFits, ScanFits
<1>11. /\ Containers(store[Cache], Cache) = {Cache, Append(Cache, "exporter")} /\ Keepers(store[Cache], Cache) = {Cache}
       /\ Master(store, Cache) = Cache /\ SeededBy(store, Cache) /\ Scrapes(store[Cache], Cache) = {Append(Cache, "exporter")}
  BY <1>5, <1>7 DEF Containers, Keepers, Master, SeededBy, IsPrimary, Scrapes
<1>b. ASSUME NEW n \in B PROVE Containers(store[n], n) = {n} /\ Scrapes(store[n], n) = {n}
  BY <1>8 DEF Containers, Scrapes
<1>12. BuiltAs(store, services)
  <2>1. PICK own : own = {Append(Cache, "exporter")} \union Seeder(Cache)
    OBVIOUS
  <2>2. own \subseteq {Append(Cache, "exporter"), Append(Cache, "init")} /\ Append(Cache, "exporter") \in own
    BY <2>1 DEF Seeder
  <2>3. Cache \notin own
    <3>1. "exporter" \in Word /\ "init" \in Word
      BY DigitsAre, SuffixesAre
    <3>2. Append(Cache, "exporter") # Cache /\ Append(Cache, "init") # Cache
      BY <1>4, <3>1, NameGrows DEF Called
    <3> QED
      BY <2>2, <3>2
  <2>4. /\ DOMAIN services = {Cache} \union own \union B
        /\ services[Cache] = Holding(Cache, "image")
        /\ \A c \in own : services[c] = Holding(Cache, "none")
        /\ \A n \in B : services[n] = Holding(n, "none")
    BY <1>1, <1>2, <1>4, <2>1, <2>2, <2>3 DEF Over, Data, Plain
  <2>5. OwnerFits(store, services, Cache)
    BY <1>5, <1>7, <1>11, <2>4 DEF OwnerFits, Holding
  <2>6. ASSUME NEW c \in own PROVE OwnerFits(store, services, c)
    BY <1>5, <1>7, <1>11, <2>2, <2>3, <2>4 DEF OwnerFits, Holding
  <2>7. ASSUME NEW n \in B PROVE OwnerFits(store, services, n)
    <3>1. services[n] = Holding(n, "none") /\ services[n].owner = n /\ services[n].flags = "none"
      BY <2>4, HoldingIs
    <3>2. n \in DOMAIN store /\ store[n].type # "redis" /\ n \in Containers(store[n], n)
      BY <1>5, <1>8, <1>b
    <3> QED
      BY <3>1, <3>2 DEF OwnerFits
  <2>8. \A n \in DOMAIN store : \A c \in Containers(store[n], n) : c \in DOMAIN services /\ services[c].owner = n
    <3>1. PICK e : e = Append(Cache, "exporter")
      OBVIOUS
    <3>2. {Cache, e} \subseteq DOMAIN services /\ services[Cache] = Holding(Cache, "image") /\ services[e] = Holding(Cache, "none")
      BY <2>2, <2>4, <3>1
    <3>3. services[Cache].owner = Cache /\ services[e].owner = Cache
      BY <3>2, HoldingIs
    <3>4. ASSUME NEW n \in B PROVE n \in DOMAIN services /\ services[n].owner = n
      BY <2>4, HoldingIs
    <3>5. ASSUME NEW n \in DOMAIN store, NEW c \in Containers(store[n], n) PROVE c \in DOMAIN services /\ services[c].owner = n
      <4>1. CASE n = Cache
        <5>1. c \in {Cache, e}
          BY <1>11, <3>1, <3>5, <4>1
        <5> QED
          BY <3>2, <3>3, <4>1, <5>1
      <4>2. CASE n \in B
        BY <1>b, <3>4, <3>5, <4>2
      <4> QED
        BY <1>5, <4>1, <4>2
    <3> QED
      BY <3>5
  <2> QED
    BY <2>4, <2>5, <2>6, <2>7, <2>8 DEF BuiltAs
<1>13. FoldersFit(store, scraped, folders)
  <2>1. scraped = [n \in DOMAIN store |-> Scrapes(store[n], n)]
    BY <1>1, <1>2, <1>4, <1>5, <1>11, <1>b DEF Over, One
  <2> QED
    BY <1>1, <1>2, <1>5, <1>7, <1>8, <2>1 DEF FoldersFit
<1> QED
  BY <1>1, <1>9, <1>10, <1>12, <1>13 DEF RedisInv

LEMMA RedisStutters == RedisInv /\ UNCHANGED redisVars => RedisInv'
BY DEF RedisInv, redisVars, redisFiles, Met, BuiltAs, OwnerFits, FoldersFit

LEMMA RedisStep == RedisInv /\ [RedisNext]_redisVars => RedisInv'
<1> SUFFICES ASSUME RedisInv, [RedisNext]_redisVars PROVE RedisInv'
  OBVIOUS
<1>1. CASE \E n \in DOMAIN store : DeleteComponent(n)
  BY <1>1, DeleteComponentStep
<1>2. CASE \E n \in RedisId : AddBackend(n)
  BY <1>2, AddBackendStep
<1>3. CASE \E n \in RedisId, keys \in {{}, RedisKey} : AddRedis(n, keys)
  BY <1>3, AddRedisStep
<1>4. CASE \E n \in Primary, target \in Targets : SetTopology(n, target)
  BY <1>4, SetTopologyStep
<1>5. CASE \E n \in Primary, p \in Persistences : SetPersistence(n, p)
  BY <1>5, SetPersistenceStep
<1>6. CASE \E n \in Primary : Show(n)
  BY <1>6, ShowStep
<1>7. CASE \E k \in RedisKey : AddKeyspace(k)
  BY <1>7, AddKeyspaceStep
<1>8. CASE \E k \in RedisKey : DropKeyspace(k)
  BY <1>8, DropKeyspaceStep
<1>9. CASE \E k, j \in RedisKey : RenameKeyspace(j, k)
  BY <1>9, RenameKeyspaceStep
<1>10. CASE \E k \in RedisKey, s \in Of("service"), role \in Role : GiveRole(k, role, s)
  BY <1>10, GiveRoleStep
<1>11. CASE \E k \in RedisKey, s \in Of("service"), role \in Role : TakeRole(k, role, s)
  BY <1>11, TakeRoleStep
<1>12. CASE \E k \in RedisKey, s \in Of("service"), role \in {"writers", "readers"}, accept \in BOOLEAN :
              HandleSuggestion(k, role, s, accept)
  BY <1>12, HandleSuggestionStep
<1>13. CASE ScanStarts
  BY <1>13, ScanStartsStep
<1>14. CASE ScanFails
  BY <1>14, ScanFailsStep
<1>15. CASE \E found \in SUBSET RedisKey, named \in SUBSET Of("service"), parts \in SUBSET {"writers", "readers"} :
              ScanSaves(found, named, parts)
  BY <1>15, ScanSavesStep
<1>16. CASE UNCHANGED redisVars
  BY <1>16, RedisStutters
<1>17. CASE RedisNext
  BY <1>1, <1>2, <1>3, <1>4, <1>5, <1>6, <1>7, <1>8, <1>9, <1>10, <1>11, <1>12, <1>13, <1>14, <1>15, <1>17, Zenon DEF RedisNext
<1> QED
  BY <1>16, <1>17

\* The parts of RedisHolds.
LEMMA RolesKept ==
  ASSUME StoreFits(store), "behind" \notin wrong => \A w \in wanted : Met(store, w)
  PROVE  RolesAreKept
<1>1. ASSUME NEW n \in DOMAIN store, NEW k \in DOMAIN store[n].keyspaces, NEW e, e = store[n].keyspaces[k]
      PROVE  /\ \A f \in DOMAIN e : e[f] \subseteq Of("service")
             /\ e.waits \subseteq e.writers
             /\ e.likelyWriters \intersect e.writers = {} /\ e.likelyReaders \intersect e.readers = {}
  <2>1. RolesFit(e, ServicesIn(store))
    BY <1>1 DEF StoreFits
  <2>2. Of("service") = ServicesIn(store)
    BY DEF Of, ServicesIn
  <2>3. PICK a, b, c, d, f : e = [writers |-> a, readers |-> b, waits |-> c, likelyWriters |-> d, likelyReaders |-> f]
    BY <2>1 DEF RolesFit, RoleLists
  <2> QED
    BY <2>1, <2>2, <2>3 DEF RolesFit
<1>2. ASSUME "behind" \notin wrong, NEW w \in wanted
      PROVE  w.key \in DOMAIN store[w.node].keyspaces /\ w.by \in store[w.node].keyspaces[w.key][w.role]
  BY <1>2 DEF Met
<1> QED
  BY <1>1, <1>2 DEF RolesAreKept

LEMMA ModesBuilt == StoreFits(store) /\ BuiltAs(store, services) => ModesAreBuilt
<1> SUFFICES ASSUME StoreFits(store), BuiltAs(store, services) PROVE ModesAreBuilt
  OBVIOUS
<1>1. ASSUME NEW n \in DOMAIN store PROVE Belongs(n) = Containers(store[n], n)
  <2>1. store[n].sentinel => store[n].members = 0
    BY DEF StoreFits, NodeFits
  <2>2. CASE store[n].type = "service"
    BY <2>2 DEF Belongs, Containers
  <2>3. CASE store[n].type # "service" /\ store[n].members > 0
    <3>1. ModeOf(n) = "cluster"
      BY <2>3 DEF ModeOf
    <3> QED
      BY <2>3, <3>1 DEF Belongs, Containers
  <2>4. CASE store[n].type # "service" /\ ~(store[n].members > 0) /\ store[n].sentinel
    <3>1. ModeOf(n) = "replicated"
      BY <2>4 DEF ModeOf
    <3> QED
      BY <2>4, <3>1 DEF Belongs, Containers
  <2>5. CASE store[n].type # "service" /\ ~(store[n].members > 0) /\ ~store[n].sentinel
    <3>1. ModeOf(n) = "standalone"
      BY <2>5 DEF ModeOf
    <3> QED
      BY <2>5, <3>1 DEF Belongs, Containers
  <2> QED
    BY <2>2, <2>3, <2>4, <2>5
<1>2. \A n \in DOMAIN store : \A c \in Belongs(n) : c \in DOMAIN services /\ services[c].owner = n
  BY <1>1 DEF BuiltAs
<1>3. ASSUME NEW c \in DOMAIN services, NEW n, n = services[c].owner
      PROVE  n \in DOMAIN store /\ c \in Belongs(n) \union (IF n \in Primary /\ ModeOf(n) # "cluster" THEN {Append(n, "init")} ELSE {})
  <2>1. n \in DOMAIN store /\ (c \in Containers(store[n], n) \/ (c = Append(n, "init") /\ SeededBy(store, n)))
    BY <1>3 DEF BuiltAs, OwnerFits
  <2>2. SeededBy(store, n) => n \in Primary /\ ModeOf(n) # "cluster"
    BY DEF SeededBy, IsPrimary, Primary, Of, ModeOf
  <2> QED
    BY <1>1, <2>1, <2>2
<1>4. ASSUME NEW n \in Redis, NEW c \in DOMAIN services, services[c].owner \in {n} \union ReplicasOf(n)
      PROVE  services[c].flags = IF c \in DataTargets(n) THEN store[n].persistence ELSE "none"
  <2>1. IsPrimary(store, n) /\ n # NoParent
    BY DEF Redis, Primary, Of, IsPrimary, StoreFits, Called, NoParent
  <2>2. PICK m : m = services[c].owner
    OBVIOUS
  <2>3. m \in DOMAIN store /\ store[m].type = "redis" /\ Master(store, m) = n
    BY <1>4, <2>1, <2>2 DEF ReplicasOf, Master, IsPrimary, StoreFits, ReplicaFits, NodeFits
  <2>4. services[c].flags = IF c \in Keepers(store[m], m) THEN store[n].persistence ELSE "none"
    BY <2>2, <2>3 DEF BuiltAs, OwnerFits
  <2>5. /\ c \in DataTargets(n) => Master(store, m) = n /\ c \in Keepers(store[m], m)
        /\ Master(store, m) = n /\ c \in Keepers(store[m], m) => c \in DataTargets(n)
    BY <2>1, <2>2, <2>3, TargetsAre
  <2> QED
    BY <2>3, <2>4, <2>5
<1> QED
  BY <1>2, <1>3, <1>4 DEF ModesAreBuilt

LEMMA JobsFit == FoldersFit(store, scraped, folders) => FoldersAndJobsFit
BY DEF FoldersFit, FoldersAndJobsFit, Scrapes, Keepers

LEMMA RedisFits == RedisInv => RedisHolds
BY RolesKept, ModesBuilt, JobsFit DEF RedisInv, RedisHolds

\* However the topology, the persistence, the keyspaces and the nodes are edited one after the other,
\* the manifest, the compose file, the scrape jobs and the folders tell of the same redis containers
\* and the roles given stay given (redisTopology.js, redisPersistence.js, redisKeyspaces.js, remove.js).
THEOREM RedisHoldsAlways == RedisSpec => []RedisHolds
BY RedisInitial, RedisStep, RedisFits, PTL DEF RedisSpec

-----------------------------------------------------------------------------
(* PostgresConfig. *)

MemberDef ==
  [shape : {"entry", "standby"}, after : SUBSET {Entry0}, command : BOOLEAN, built : BOOLEAN, hba : BOOLEAN]

\* What a node with standbys holds of its cluster.  The definition its entry had before is an entry's.
HaRecord ==
  [members : SUBSET (0..MaxOrdinal), primary : 0..MaxOrdinal, sync : SUBSET (1..MaxOrdinal), quorum : Nat \ {0},
   settings : BOOLEAN, entry : MemberDef]
HaFits(ha, standbys) ==
  /\ ha \in HaRecord
  /\ ha.members = {Entry0} \union DOMAIN standbys /\ ha.primary \in ha.members /\ ha.sync = SyncOf(standbys)
  /\ ha.entry.shape = "entry" /\ ha.entry.after = {}
QuorumFits(ha) == ha.sync # {} => ha.quorum \in 1..Cardinality(ha.sync)
ClusterFits(c) ==
  /\ c = [standbys |-> c.standbys, ha |-> c.ha] /\ DOMAIN c.standbys \subseteq 1..MaxOrdinal
  /\ IF c.ha = NoHa THEN DOMAIN c.standbys = {} ELSE HaFits(c.ha, c.standbys)

Members(c) == {Entry0} \union DOMAIN c.standbys

PgFilesFit ==
  /\ ClusterFits(cluster)
  /\ Replicated /\ "ordinals" \notin awry => QuorumFits(cluster.ha)
  /\ haJson = IF Replicated THEN HaConf(cluster.ha) ELSE NoConf
  /\ declared = [defs |-> declared.defs, watcher |-> IF Replicated THEN TRUE ELSE FALSE]
  /\ declared.defs \in [Members(cluster) -> MemberDef] /\ declared.defs[Entry0].after = {}

Applying == \E a \in awaiting : a.of = "apply"

\* The entry is of the shape that was rebuilt only in a cluster, and lets standbys in as soon as
\* an Apply is under way.
EntryFits ==
  LET own == declared.defs[Entry0]
  IN /\ own.shape = "standby" => Replicated
     /\ ~Replicated /\ own.hba => Applying
     /\ (Replicated \/ Applying) /\ own.shape = "entry" /\ "unmounted" \notin awry => own.hba

\* The settings of a capture survive in what the node remembers: a conversion rebuilds the entry from it.
SettingsKept ==
  captured /\ "unheard" \notin awry =>
    /\ \A m \in Members(cluster) : declared.defs[m].command \/ declared.defs[m].built
    /\ declared.defs[Entry0].shape = "entry" => declared.defs[Entry0].command
    /\ Replicated => cluster.ha.settings /\ cluster.ha.entry.command

\* The members that live are those of the files.  A primary that is up is the one that was written
\* last, which is one of them, and none that was has been discarded.
OneIsWritten == \A m \in answering : roles[m] = "primary" => newest = m
PgLiveFits ==
  /\ roles = [m \in Members(cluster) |-> roles[m]] /\ answering \subseteq Members(cluster)
  /\ OneIsWritten
  /\ awry \intersect {"dropped", "unseen", "renewed"} = {} =>
       "discarded" \notin awry /\ newest \in Members(cluster) /\ (~Replicated => roles[Entry0] = "primary")

\* Requests about a member loaded a cluster that has it; one that is rejoined was not written then.
RequestFits(a) ==
  /\ a.of \in {"apply", "convert", "failover", "rejoin"}
  /\ a.of = "apply" => a.target.quorum \in Nat \ {0}
  /\ a.of = "convert" => a.loaded.ha # NoHa
  /\ a.of = "rejoin" => a.at \in {"asked", "saved"}
  /\ a.of = "rejoin" /\ a.at = "saved" => a.last # a.target
  /\ a.of = "failover" \/ (a.of = "rejoin" /\ a.at = "asked") =>
       /\ a = [of |-> a.of, at |-> a.at, target |-> a.target, loaded |-> a.loaded]
       /\ a.loaded.ha # NoHa /\ a.target \in a.loaded.ha.members
RequestsFit == \A a \in awaiting : RequestFits(a)

PostgresInv ==
  "lost" \notin awry => PgFilesFit /\ EntryFits /\ SettingsKept /\ PgLiveFits /\ RequestsFit

-----------------------------------------------------------------------------
LEMMA HaIsSome ==
  ASSUME NEW ha, NEW standbys, HaFits(ha, standbys)
  PROVE  ha # NoHa
<1>1. Entry0 \in ha.members
  BY DEF HaFits
<1> QED
  BY <1>1 DEF NoHa

LEMMA PostgresInitial == PostgresInit => PostgresInv
<1> SUFFICES ASSUME PostgresInit PROVE PostgresInv
  OBVIOUS
<1>1. DOMAIN <<>> = {}
  BY EmptySeq
<1>2. cluster = [standbys |-> <<>>, ha |-> NoHa] /\ Members(cluster) = {Entry0} /\ ~Replicated
  BY <1>1 DEF PostgresInit, Members, Replicated
<1>3. EntryDef \in MemberDef /\ EntryDef.after = {} /\ EntryDef.shape = "entry" /\ ~EntryDef.hba
  BY DEF EntryDef, MemberDef
<1>4. declared = [defs |-> [m \in {Entry0} |-> EntryDef], watcher |-> FALSE] /\ declared.defs[Entry0] = EntryDef
  BY DEF PostgresInit
<1>5. PgFilesFit
  <2>1. ClusterFits(cluster)
    BY <1>1, <1>2 DEF ClusterFits
  <2>2. declared = [defs |-> declared.defs, watcher |-> IF Replicated THEN TRUE ELSE FALSE]
    BY <1>2, <1>4
  <2>3. declared.defs \in [Members(cluster) -> MemberDef] /\ declared.defs[Entry0].after = {}
    BY <1>2, <1>3, <1>4
  <2>4. haJson = NoConf
    BY DEF PostgresInit
  <2> QED
    BY <1>2, <2>1, <2>2, <2>3, <2>4 DEF PgFilesFit
<1>6. EntryFits
  BY <1>2, <1>3, <1>4 DEF PostgresInit, EntryFits, Applying
<1>7. SettingsKept /\ RequestsFit
  BY DEF PostgresInit, SettingsKept, RequestsFit
<1>8. PgLiveFits
  BY <1>2 DEF PostgresInit, PgLiveFits, OneIsWritten
<1> QED
  BY <1>5, <1>6, <1>7, <1>8 DEF PostgresInv

-----------------------------------------------------------------------------
\* What a step leaves alone stays as it was: what has gone wrong only excepts more.
LEMMA PgFilesStay ==
  ASSUME PgFilesFit, UNCHANGED pgFiles, awry \subseteq awry'
  PROVE  PgFilesFit'
BY DEF PgFilesFit, pgFiles, Replicated, Members, ClusterFits, HaFits, QuorumFits, HaConf, SyncOf

LEMMA EntryStays ==
  ASSUME EntryFits, UNCHANGED <<cluster, declared>>, Applying' <=> Applying, awry \subseteq awry'
  PROVE  EntryFits'
BY DEF EntryFits, Replicated

LEMMA SettingsStay ==
  ASSUME SettingsKept, UNCHANGED <<cluster, declared, captured>>, awry \subseteq awry'
  PROVE  SettingsKept'
BY DEF SettingsKept, Replicated, Members

LEMMA RequestsEnd ==
  ASSUME RequestsFit, NEW a, Ends(a)
  PROVE  RequestsFit' /\ (a.of # "apply" => (Applying' <=> Applying)) /\ (Applying' => Applying)
BY DEF RequestsFit, RequestFits, Ends, Applying

LEMMA RequestsGoOn ==
  ASSUME RequestsFit, NEW a, NEW b, Becomes(a, b), RequestFits(b), a.of # "apply", b.of # "apply"
  PROVE  RequestsFit' /\ (Applying' <=> Applying)
BY DEF RequestsFit, RequestFits, Becomes, Applying

LEMMA RequestBegins ==
  ASSUME RequestsFit, NEW a, Begins(a), RequestFits(a)
  PROVE  RequestsFit' /\ (Applying' <=> Applying \/ a.of = "apply")
BY DEF RequestsFit, RequestFits, Begins, Applying

LEMMA LiveStays ==
  ASSUME PgLiveFits, UNCHANGED <<cluster, roles, newest>>, answering' \subseteq answering, awry \subseteq awry',
         "discarded" \in awry' => "discarded" \in awry
  PROVE  PgLiveFits'
BY DEF PgLiveFits, OneIsWritten, Members, Replicated

\* Of the clusters a node has, those with standbys are the ones that are remembered.
LEMMA ClusterIs ==
  ASSUME PgFilesFit
  PROVE  /\ Replicated => HaFits(cluster.ha, cluster.standbys)
         /\ ~Replicated => cluster.ha = NoHa /\ DOMAIN cluster.standbys = {} /\ Members(cluster) = {Entry0}
         /\ DOMAIN cluster.standbys \subseteq 1..MaxOrdinal /\ Entry0 \notin DOMAIN cluster.standbys
         /\ Members(cluster) = DOMAIN declared.defs /\ Entry0 \in DOMAIN declared.defs
         /\ Replicated => cluster.ha.members = Members(cluster)
BY DEF PgFilesFit, ClusterFits, Replicated, Members, HaFits, Entry0

LEMMA ApplyStartsStep ==
  ASSUME PostgresInv, NEW t \in Offered, ApplyStarts(t), "lost" \notin awry'
  PROVE  PostgresInv'
<1> DEFINE a == [of |-> "apply", target |-> t, loaded |-> cluster]
<1>1. /\ PgFilesFit /\ EntryFits /\ SettingsKept /\ PgLiveFits /\ RequestsFit
      /\ Begins(a) /\ declared' = [declared EXCEPT !.defs[Entry0].hba = TRUE]
      /\ UNCHANGED <<cluster, haJson, roles, answering, newest, captured, awry>>
  BY DEF PostgresInv, ApplyStarts, pgLive
<1>2. t.quorum \in Nat \ {0}
  BY DEF Offered, Targets1
<1>3. RequestFits(a)
  BY <1>2 DEF RequestFits
<1> HIDE DEF a
<1>4. RequestsFit' /\ (Applying' <=> Applying \/ a.of = "apply") /\ a.of = "apply"
  <2>1. a.of = "apply"
    BY DEF a
  <2> QED
    BY <1>1, <1>3, <2>1, RequestBegins
<1>5. PICK D : D = declared.defs
  OBVIOUS
<1>6. D \in [Members(cluster) -> MemberDef] /\ D[Entry0] \in MemberDef /\ D[Entry0].after = {}
  BY <1>1, <1>5 DEF PgFilesFit, Members
<1>7. PICK own : own = [D[Entry0] EXCEPT !.hba = TRUE]
  OBVIOUS
<1>8. /\ own \in MemberDef /\ own.hba = TRUE /\ own.after = {} /\ own.shape = D[Entry0].shape
      /\ own.command = D[Entry0].command /\ own.built = D[Entry0].built
  BY <1>6, <1>7 DEF MemberDef
<1>9. declared = [defs |-> D, watcher |-> IF Replicated THEN TRUE ELSE FALSE]
  BY <1>1, <1>5 DEF PgFilesFit
<1>10. declared' = [defs |-> [D EXCEPT ![Entry0] = own], watcher |-> IF Replicated THEN TRUE ELSE FALSE]
  BY <1>1, <1>6, <1>7, <1>9
<1>11. PICK E : E = [D EXCEPT ![Entry0] = own]
  OBVIOUS
<1>12. /\ E \in [Members(cluster) -> MemberDef] /\ E[Entry0] = own
       /\ \A m \in Members(cluster) : m # Entry0 => E[m] = D[m]
  BY <1>6, <1>8, <1>11 DEF Members
<1>13. declared'.defs = E /\ declared' = [defs |-> E, watcher |-> IF Replicated THEN TRUE ELSE FALSE]
  BY <1>10, <1>11
<1>14. PgFilesFit'
  BY <1>1, <1>8, <1>12, <1>13 DEF PgFilesFit, Replicated, Members, ClusterFits, HaFits, QuorumFits, HaConf, SyncOf
<1>15. EntryFits'
  BY <1>1, <1>4, <1>5, <1>8, <1>12, <1>13 DEF EntryFits, Replicated
<1>16. SettingsKept'
  <2> SUFFICES ASSUME captured, "unheard" \notin awry
               PROVE  /\ \A m \in Members(cluster) : E[m].command \/ E[m].built
                      /\ own.shape = "entry" => own.command
                      /\ Replicated => cluster.ha.settings /\ cluster.ha.entry.command
    BY <1>1, <1>12, <1>13 DEF SettingsKept, Replicated, Members
  <2>1. /\ \A m \in Members(cluster) : D[m].command \/ D[m].built
        /\ D[Entry0].shape = "entry" => D[Entry0].command
        /\ Replicated => cluster.ha.settings /\ cluster.ha.entry.command
    BY <1>1, <1>5 DEF SettingsKept
  <2>2. ASSUME NEW m \in Members(cluster) PROVE E[m].command \/ E[m].built
    <3>1. CASE m = Entry0
      BY <1>8, <1>12, <2>1, <3>1
    <3>2. CASE m # Entry0
      BY <1>12, <2>1, <3>2
    <3> QED
      BY <3>1, <3>2
  <2> QED
    BY <1>8, <2>1, <2>2
<1>17. PgLiveFits'
  BY <1>1, LiveStays
<1> QED
  BY <1>4, <1>14, <1>15, <1>16, <1>17 DEF PostgresInv

\* The starts of the other requests change nothing but what is awaited.
LEMMA RequestStarts ==
  ASSUME PostgresInv, NEW a, Begins(a), "lost" \notin awry', a.of # "apply",
         RequestFits(a), UNCHANGED <<pgFiles, pgLive, captured, awry>>
  PROVE  PostgresInv'
<1>1. /\ PgFilesFit /\ EntryFits /\ SettingsKept /\ PgLiveFits /\ RequestsFit
      /\ UNCHANGED <<cluster, declared, haJson, roles, answering, newest, captured, awry>>
  BY DEF PostgresInv, pgFiles, pgLive
<1>2. RequestsFit' /\ (Applying' <=> Applying)
  BY <1>1, RequestBegins
<1> QED
  BY <1>1, <1>2, PgFilesStay, EntryStays, SettingsStay, LiveStays DEF PostgresInv, pgFiles

LEMMA ConvertStartsStep == ASSUME PostgresInv, ConvertStarts, "lost" \notin awry' PROVE PostgresInv'
<1> DEFINE a == [of |-> "convert", loaded |-> cluster, doc |-> declared]
<1>1. Begins(a) /\ Replicated /\ UNCHANGED <<pgFiles, pgLive, captured, awry>>
  BY DEF ConvertStarts
<1>2. RequestFits(a) /\ a.of # "apply"
  BY <1>1 DEF RequestFits, Replicated
<1> HIDE DEF a
<1> QED
  BY <1>1, <1>2, RequestStarts

LEMMA FailoverStartsStep == ASSUME PostgresInv, NEW m, FailoverStarts(m), "lost" \notin awry' PROVE PostgresInv'
<1> DEFINE a == [of |-> "failover", at |-> "asked", target |-> m, loaded |-> cluster]
<1>1. Begins(a) /\ Replicated /\ m \in cluster.ha.members /\ UNCHANGED <<pgFiles, pgLive, captured, awry>>
  BY DEF FailoverStarts
<1>2. RequestFits(a) /\ a.of # "apply"
  BY <1>1 DEF RequestFits, Replicated
<1> HIDE DEF a
<1> QED
  BY <1>1, <1>2, RequestStarts

LEMMA RejoinStartsStep == ASSUME PostgresInv, NEW m, RejoinStarts(m), "lost" \notin awry' PROVE PostgresInv'
<1> DEFINE a == [of |-> "rejoin", at |-> "asked", target |-> m, loaded |-> cluster]
<1>1. Begins(a) /\ Replicated /\ m \in cluster.ha.members /\ UNCHANGED <<pgFiles, pgLive, captured, awry>>
  BY DEF RejoinStarts
<1>2. RequestFits(a) /\ a.of # "apply"
  BY <1>1 DEF RequestFits, Replicated
<1> HIDE DEF a
<1> QED
  BY <1>1, <1>2, RequestStarts

-----------------------------------------------------------------------------
\* A step of a switchover that changes at most who is written, and not of a node that stands alone.
LEMMA FencesStep == ASSUME PostgresInv, NEW a \in awaiting, Fences(a), "lost" \notin awry' PROVE PostgresInv'
<1>1. /\ PgFilesFit /\ EntryFits /\ SettingsKept /\ PgLiveFits /\ RequestsFit
      /\ UNCHANGED <<cluster, declared, haJson, answering, newest, captured, awry>> /\ a.of = "failover"
      /\ IF a.target \in answering /\ roles[a.target] = "standby"
           THEN /\ Becomes(a, [a EXCEPT !.at = "fenced"])
                /\ roles' = [m \in DOMAIN roles |-> IF m \in Writable(a.loaded.ha.members) THEN "fenced" ELSE roles[m]]
           ELSE Ends(a) /\ UNCHANGED roles
  BY DEF PostgresInv, Fences, pgFiles
<1>2. PICK b : b = [a EXCEPT !.at = "fenced"]
  OBVIOUS
<1>3. RequestFits(a)
  BY <1>1 DEF RequestsFit
<1>4. RequestFits(b) /\ b.of # "apply"
  BY <1>1, <1>2, <1>3 DEF RequestFits
<1>5. RequestsFit' /\ (Applying' <=> Applying)
  BY <1>1, <1>2, <1>4, RequestsEnd, RequestsGoOn
<1>6. PgLiveFits'
  <2>1. DOMAIN roles = Members(cluster) /\ answering \subseteq Members(cluster)
    BY <1>1 DEF PgLiveFits
  <2>2. roles' = [m \in Members(cluster) |-> roles'[m]]
    BY <1>1, <2>1 DEF PgLiveFits
  <2>3. ~Replicated /\ roles[Entry0] = "primary" => UNCHANGED roles
    BY <1>1, <2>1, ClusterIs
  <2>4. OneIsWritten'
    BY <1>1, <2>1 DEF PgLiveFits, OneIsWritten
  <2> QED
    BY <1>1, <2>1, <2>2, <2>3, <2>4 DEF PgLiveFits, Members, Replicated
<1> QED
  BY <1>1, <1>5, <1>6, PgFilesStay, EntryStays, SettingsStay DEF PostgresInv, pgFiles

LEMMA PromotesStep == ASSUME PostgresInv, NEW a \in awaiting, Promotes(a), "lost" \notin awry' PROVE PostgresInv'
<1>1. /\ PgFilesFit /\ EntryFits /\ SettingsKept /\ PgLiveFits /\ RequestsFit
      /\ UNCHANGED <<cluster, declared, haJson, answering, captured, awry>> /\ a.of = "failover"
      /\ IF a.target \in answering /\ roles[a.target] = "standby"
           THEN /\ Becomes(a, [a EXCEPT !.at = "promoted"])
                /\ \E m \in {a.target} \union Writable(DOMAIN roles) :
                     /\ roles' = [Fencing(roles, {a.target} \union Writable(DOMAIN roles)) EXCEPT ![m] = "primary"]
                     /\ newest' = m
           ELSE Ends(a) /\ UNCHANGED <<roles, newest>>
  BY DEF PostgresInv, Promotes, pgFiles
<1>2. PICK b : b = [a EXCEPT !.at = "promoted"]
  OBVIOUS
<1>3. RequestFits(a)
  BY <1>1 DEF RequestsFit
<1>4. RequestFits(b) /\ b.of # "apply"
  BY <1>1, <1>2, <1>3 DEF RequestFits
<1>5. RequestsFit' /\ (Applying' <=> Applying)
  BY <1>1, <1>2, <1>4, RequestsEnd, RequestsGoOn
<1>6. PgLiveFits'
  <2>1. DOMAIN roles = Members(cluster) /\ answering \subseteq Members(cluster)
    BY <1>1 DEF PgLiveFits
  <2>2. CASE UNCHANGED <<roles, newest>>
    BY <1>1, <2>2, LiveStays
  <2>3. CASE ~UNCHANGED <<roles, newest>>
    <3>1. PICK both : both = {a.target} \union Writable(DOMAIN roles)
      OBVIOUS
    <3>2. /\ a.target \in answering /\ roles[a.target] = "standby"
          /\ \E m \in both : roles' = [Fencing(roles, both) EXCEPT ![m] = "primary"] /\ newest' = m
      BY <1>1, <2>3, <3>1
    <3>3. PICK m \in both : roles' = [Fencing(roles, both) EXCEPT ![m] = "primary"] /\ newest' = m
      BY <3>2
    <3>4. both \subseteq Members(cluster) /\ \A x \in answering : roles[x] = "primary" => x \in both
      BY <2>1, <3>1, <3>2 DEF Writable
    <3>5. /\ roles' = [x \in Members(cluster) |-> roles'[x]]
          /\ \A x \in Members(cluster) : roles'[x] = IF x = m THEN "primary" ELSE IF x \in both THEN "fenced" ELSE roles[x]
      BY <2>1, <3>3, <3>4 DEF Fencing
    <3>6. OneIsWritten'
      BY <1>1, <2>1, <3>3, <3>4, <3>5 DEF OneIsWritten
    <3>7. ~Replicated => roles[Entry0] # "primary"
      BY <1>1, <2>1, <3>2, ClusterIs
    <3> QED
      BY <1>1, <2>1, <3>3, <3>4, <3>5, <3>6, <3>7 DEF PgLiveFits, Members, Replicated
  <2> QED
    BY <2>2, <2>3
<1> QED
  BY <1>1, <1>5, <1>6, PgFilesStay, EntryStays, SettingsStay DEF PostgresInv, pgFiles

\* What a request saves is what the node had, as no update was lost, but for the primary's name.
LEMMA FailoverSavesStep == ASSUME PostgresInv, NEW a \in awaiting, FailoverSaves(a), "lost" \notin awry' PROVE PostgresInv'
<1>1. /\ PgFilesFit /\ EntryFits /\ SettingsKept /\ PgLiveFits /\ RequestsFit
      /\ UNCHANGED <<declared, roles, answering, newest, captured>> /\ a.of = "failover" /\ Ends(a)
      /\ a.loaded = cluster /\ awry' = awry
  BY DEF PostgresInv, FailoverSaves, pgLive, Stale
<1>2. PICK ha : ha = [cluster.ha EXCEPT !.primary = a.target]
  OBVIOUS
<1>3. cluster' = [cluster EXCEPT !.ha = ha] /\ haJson' = HaConf(ha)
  BY <1>1, <1>2 DEF FailoverSaves
<1>4. Replicated /\ a.target \in cluster.ha.members
  BY <1>1 DEF RequestsFit, RequestFits, Replicated
<1>5. /\ HaFits(cluster.ha, cluster.standbys) /\ cluster = [standbys |-> cluster.standbys, ha |-> cluster.ha]
      /\ DOMAIN cluster.standbys \subseteq 1..MaxOrdinal
  BY <1>1, <1>4 DEF PgFilesFit, ClusterFits, Replicated
<1>6. PICK h : h = cluster.ha
  OBVIOUS
<1>7. /\ ha \in HaRecord /\ ha.members = h.members /\ ha.sync = h.sync /\ ha.quorum = h.quorum /\ ha.primary = a.target
      /\ ha.settings = h.settings /\ ha.entry = h.entry
  BY <1>2, <1>4, <1>5, <1>6 DEF HaFits, HaRecord
<1>8. HaFits(ha, cluster.standbys) /\ ha # NoHa
  <2>1. HaFits(ha, cluster.standbys)
    BY <1>4, <1>5, <1>6, <1>7 DEF HaFits
  <2> QED
    BY <2>1, HaIsSome
<1>9. cluster' = [standbys |-> cluster.standbys, ha |-> ha] /\ cluster'.standbys = cluster.standbys /\ cluster'.ha = ha
  BY <1>3, <1>5
<1>10. Replicated' /\ Members(cluster') = Members(cluster) /\ Members(cluster)' = Members(cluster)
  BY <1>8, <1>9 DEF Replicated, Members
<1>11. PgFilesFit'
  <2>1. ClusterFits(cluster)'
    BY <1>5, <1>8, <1>9 DEF ClusterFits
  <2>2. "ordinals" \notin awry => QuorumFits(ha)
    BY <1>1, <1>4, <1>6, <1>7 DEF PgFilesFit, QuorumFits
  <2> QED
    BY <1>1, <1>3, <1>4, <1>9, <1>10, <2>1, <2>2 DEF PgFilesFit
<1>12. EntryFits' /\ RequestsFit'
  BY <1>1, <1>4, <1>10, RequestsEnd DEF EntryFits
<1>13. SettingsKept'
  BY <1>1, <1>4, <1>6, <1>7, <1>9, <1>10 DEF SettingsKept
<1>14. PgLiveFits'
  BY <1>1, <1>4, <1>10 DEF PgLiveFits, OneIsWritten
<1> QED
  BY <1>11, <1>12, <1>13, <1>14 DEF PostgresInv

LEMMA RejoinSavesStep == ASSUME PostgresInv, NEW a \in awaiting, RejoinSaves(a), "lost" \notin awry' PROVE PostgresInv'
<1>1. /\ PgFilesFit /\ EntryFits /\ SettingsKept /\ PgLiveFits /\ RequestsFit
      /\ UNCHANGED <<roles, answering, newest, captured>> /\ a.of = "rejoin"
  BY DEF PostgresInv, RejoinSaves, pgLive
<1>2. RequestFits(a)
  BY <1>1 DEF RequestsFit
<1>3. CASE Writable(a.loaded.ha.members \ {a.target}) = {}
  <2>1. Ends(a) /\ UNCHANGED <<cluster, declared, haJson, awry>>
    BY <1>3 DEF RejoinSaves, pgFiles
  <2>3. RequestsFit' /\ (Applying' <=> Applying)
    BY <1>1, <2>1, RequestsEnd
  <2> QED
    BY <1>1, <2>1, <2>3, PgFilesStay, EntryStays, SettingsStay, LiveStays DEF PostgresInv, pgFiles
<1>4. CASE Writable(a.loaded.ha.members \ {a.target}) # {}
  <2>1. /\ Becomes(a, [of |-> "rejoin", at |-> "saved", target |-> a.target, last |-> newest])
        /\ a.at = "asked" /\ a.loaded = cluster /\ awry' = awry /\ UNCHANGED <<cluster, haJson>>
    BY <1>4 DEF RejoinSaves, Stale
  <2>2. PICK def : def = StandbyDef({}, ClusterSettings(cluster.ha))
    OBVIOUS
  <2>3. declared' = [declared EXCEPT !.defs = [m \in DOMAIN @ \union {a.target} |-> IF m = a.target THEN def ELSE @[m]]]
    BY <1>4, <2>1, <2>2 DEF RejoinSaves
  <2>4. Replicated /\ a.target \in Members(cluster) /\ HaFits(cluster.ha, cluster.standbys)
    BY <1>1, <1>2, <2>1, ClusterIs DEF RequestFits, Replicated
  <2>19. newest # a.target
    BY <1>1, <1>4 DEF Writable, PgLiveFits, OneIsWritten
  <2>5. PICK D : D = declared.defs
    OBVIOUS
  <2>6. /\ D \in [Members(cluster) -> MemberDef] /\ D[Entry0].after = {} /\ D[Entry0] \in MemberDef
        /\ declared = [defs |-> D, watcher |-> IF Replicated THEN TRUE ELSE FALSE]
    BY <1>1, <2>5 DEF PgFilesFit, Members
  <2>7. PICK E : E = [m \in Members(cluster) |-> IF m = a.target THEN def ELSE D[m]]
    OBVIOUS
  <2>8. declared' = [defs |-> E, watcher |-> IF Replicated THEN TRUE ELSE FALSE] /\ declared'.defs = E
    <3>1. DOMAIN declared.defs = Members(cluster) /\ DOMAIN declared.defs \union {a.target} = Members(cluster)
      BY <2>4, <2>5, <2>6
    <3>2. E = [m \in DOMAIN declared.defs \union {a.target} |-> IF m = a.target THEN def ELSE declared.defs[m]]
      BY <2>5, <2>7, <3>1
    <3> QED
      BY <2>3, <2>6, <3>2
  <2>9. /\ def \in MemberDef /\ def.shape = "standby" /\ def.after = {}
        /\ def.built <=> D[Entry0].command \/ cluster.ha.settings
    <3>1. cluster.ha.settings \in BOOLEAN /\ D[Entry0].command \in BOOLEAN
      BY <2>4, <2>6 DEF HaFits, HaRecord, MemberDef
    <3>2. ClusterSettings(cluster.ha) \in BOOLEAN /\ (ClusterSettings(cluster.ha) <=> D[Entry0].command \/ cluster.ha.settings)
      BY <2>4, <2>5, <3>1 DEF ClusterSettings, Replicated
    <3> QED
      BY <2>2, <3>2 DEF StandbyDef, MemberDef
  <2>10. E \in [Members(cluster) -> MemberDef] /\ E[Entry0].after = {}
    BY <2>6, <2>7, <2>9 DEF Members
  <2>11. PgFilesFit'
    BY <1>1, <2>1, <2>8, <2>10 DEF PgFilesFit, Replicated, Members, ClusterFits, HaFits, QuorumFits, HaConf, SyncOf
  <2>12. PICK b : b = [of |-> "rejoin", at |-> "saved", target |-> a.target, last |-> newest]
    OBVIOUS
  <2>13. RequestFits(b) /\ b.of # "apply"
    BY <2>12, <2>19 DEF RequestFits
  <2>14. RequestsFit' /\ (Applying' <=> Applying)
    BY <1>1, <2>1, <2>12, <2>13, RequestsGoOn
  <2>15. E[Entry0] = IF Entry0 = a.target THEN def ELSE D[Entry0]
    BY <2>7 DEF Members
  <2>16. EntryFits'
    <3>1. E[Entry0].shape = "entry" => E[Entry0] = D[Entry0]
      BY <2>9, <2>15
    <3> QED
      BY <1>1, <2>1, <2>4, <2>5, <2>8, <2>14, <3>1 DEF EntryFits, Replicated
  <2>17. SettingsKept'
    <3> SUFFICES ASSUME captured, "unheard" \notin awry
                 PROVE  /\ \A m \in Members(cluster) : E[m].command \/ E[m].built
                        /\ E[Entry0].shape = "entry" => E[Entry0].command
                        /\ cluster.ha.settings /\ cluster.ha.entry.command
      BY <1>1, <2>1, <2>4, <2>8 DEF SettingsKept, Replicated, Members
    <3>1. /\ \A m \in Members(cluster) : D[m].command \/ D[m].built
          /\ D[Entry0].shape = "entry" => D[Entry0].command
          /\ cluster.ha.settings /\ cluster.ha.entry.command
      BY <1>1, <2>4, <2>5 DEF SettingsKept
    <3> QED
      BY <2>7, <2>9, <2>15, <3>1
  <2> QED
    BY <1>1, <2>1, <2>11, <2>14, <2>16, <2>17, LiveStays DEF PostgresInv
<1> QED
  BY <1>3, <1>4

\* Bringing members up leaves at most one of them written, and that is the newest.
LEMMA AllUpIs ==
  ASSUME NEW S, NEW R, NEW up, DOMAIN R = S, up \in AllUp(R),
         \A m \in S \intersect answering : R[m] = "primary" => newest = m
  PROVE  /\ up.roles = [m \in S |-> up.roles[m]]
         /\ up.newest = newest \/ up.newest \in S
         /\ \A m \in S : up.roles[m] = "primary" => up.newest = m
         /\ S = {Entry0} => up.roles[Entry0] = R[Entry0]
<1>1. PICK live, back : live = Written(R) /\ back = ComingBack(R)
  OBVIOUS
<1>2. /\ live = {m \in S \intersect answering : R[m] = "primary"}
      /\ back = {m \in S \ answering : R[m] = "primary"}
  BY <1>1 DEF Written, ComingBack
<1>3. up \in IF live # {} \/ back = {} THEN {[roles |-> Fencing(R, back), newest |-> newest]}
            ELSE {[roles |-> Fencing(R, back \ {m}), newest |-> m] : m \in back}
  BY <1>1 DEF AllUp
<1>4. \A M : /\ Fencing(R, M) = [m \in S |-> Fencing(R, M)[m]]
             /\ \A m \in S : Fencing(R, M)[m] = IF m \in M THEN "fenced" ELSE R[m]
  BY DEF Fencing
<1>5. CASE live # {} \/ back = {}
  <2>1. up.roles = Fencing(R, back) /\ up.newest = newest
    BY <1>3, <1>5
  <2>2. S = {Entry0} => back = {}
    BY <1>2, <1>5
  <2> QED
    BY <1>2, <1>4, <2>1, <2>2
<1>6. CASE ~(live # {} \/ back = {})
  <2>1. PICK x \in back : up = [roles |-> Fencing(R, back \ {x}), newest |-> x]
    BY <1>3, <1>6
  <2>2. up.roles = Fencing(R, back \ {x}) /\ up.newest = x
    BY <2>1
  <2>3. S = {Entry0} => back \ {x} = {}
    BY <1>2
  <2> QED
    BY <1>2, <1>4, <1>6, <2>2, <2>3
<1> QED
  BY <1>5, <1>6

LEMMA RejoinRenewsStep == ASSUME PostgresInv, NEW a \in awaiting, RejoinRenews(a), "lost" \notin awry' PROVE PostgresInv'
<1>1. /\ UNCHANGED <<cluster, declared, haJson, captured>> /\ a.of = "rejoin" /\ a.at = "saved" /\ Ends(a)
      /\ answering' = DOMAIN declared.defs
  BY DEF RejoinRenews, pgFiles
<1>2. PICK up \in AllUp(roles) :
        \/ /\ a.target \in DOMAIN declared.defs
           /\ roles' = [up.roles EXCEPT ![a.target] = Renewed(up.roles, a.target)]
           /\ newest' = IF roles'[a.target] = "primary" THEN a.target ELSE up.newest
           /\ awry' = awry \union (IF up.newest = a.target THEN {"discarded"} ELSE {})
                          \union IF up.newest = a.target /\ a.last # a.target THEN {"renewed"} ELSE {}
        \/ /\ a.target \notin DOMAIN declared.defs
           /\ roles' = up.roles /\ newest' = up.newest /\ UNCHANGED awry
  BY DEF RejoinRenews
<1>3. awry \subseteq awry'
  BY <1>2
<1>4. PgFilesFit /\ EntryFits /\ SettingsKept /\ PgLiveFits /\ RequestsFit
  BY <1>3 DEF PostgresInv
<1>5. RequestsFit' /\ (Applying' <=> Applying)
  BY <1>1, <1>4, RequestsEnd
<1>6. a.last # a.target
  BY <1>1, <1>4 DEF RequestsFit, RequestFits
<1>7. DOMAIN roles = Members(cluster) /\ DOMAIN declared.defs = Members(cluster) /\ answering' = Members(cluster)
  BY <1>1, <1>4, ClusterIs DEF PgLiveFits
<1>8. PICK U : U = up.roles
  OBVIOUS
<1>9. /\ U = [m \in Members(cluster) |-> U[m]] /\ (up.newest = newest \/ up.newest \in Members(cluster))
      /\ \A m \in Members(cluster) : U[m] = "primary" => up.newest = m
      /\ Members(cluster) = {Entry0} => U[Entry0] = roles[Entry0]
  <2>1. \A m \in Members(cluster) \intersect answering : roles[m] = "primary" => newest = m
    BY <1>4 DEF PgLiveFits, OneIsWritten
  <2> QED
    BY <1>7, <1>8, <2>1, AllUpIs
<1>10. CASE a.target \in Members(cluster)
  <2>1. /\ roles' = [U EXCEPT ![a.target] = Renewed(U, a.target)]
        /\ newest' = IF roles'[a.target] = "primary" THEN a.target ELSE up.newest
        /\ awry' = awry \union (IF up.newest = a.target THEN {"discarded"} ELSE {})
                       \union IF up.newest = a.target /\ a.last # a.target THEN {"renewed"} ELSE {}
    BY <1>2, <1>7, <1>8, <1>10
  <2>2. /\ roles' = [m \in Members(cluster) |-> roles'[m]] /\ roles'[a.target] = Renewed(U, a.target)
        /\ \A m \in Members(cluster) : m # a.target => roles'[m] = U[m]
    BY <1>9, <1>10, <2>1
  <2>3. Renewed(U, a.target) = "primary" => \A x \in Members(cluster) \ {a.target} : U[x] # "primary"
    BY <1>9 DEF Renewed
  <2>4. OneIsWritten'
    BY <1>7, <1>9, <2>1, <2>2, <2>3 DEF OneIsWritten
  <2>5. newest' = newest \/ newest' \in Members(cluster)
    BY <1>9, <1>10, <2>1
  <2>6. ~Replicated => roles'[Entry0] = "primary"
    <3> SUFFICES ASSUME ~Replicated PROVE roles'[Entry0] = "primary"
      OBVIOUS
    <3>1. Members(cluster) = {Entry0} /\ declared.defs[Entry0].shape # "standby" /\ a.target = Entry0
      BY <1>4, <1>10, ClusterIs DEF EntryFits
    <3>2. Renewed(U, Entry0) = "primary"
      BY <1>9, <3>1 DEF Renewed
    <3> QED
      BY <2>2, <3>1, <3>2
  <2>7. "renewed" \notin awry' => ("discarded" \in awry' => "discarded" \in awry)
    BY <1>6, <2>1
  <2> QED
    BY <1>1, <1>3, <1>4, <1>5, <1>7, <2>2, <2>4, <2>5, <2>6, <2>7, PgFilesStay, EntryStays, SettingsStay
       DEF PostgresInv, PgLiveFits, Members, Replicated, pgFiles
<1>11. CASE a.target \notin Members(cluster)
  <2>1. roles' = U /\ newest' = up.newest /\ UNCHANGED awry
    BY <1>2, <1>7, <1>8, <1>11
  <2>2. OneIsWritten'
    BY <1>7, <1>9, <2>1 DEF OneIsWritten
  <2>3. ~Replicated /\ roles[Entry0] = "primary" => roles'[Entry0] = "primary"
    BY <1>4, <1>9, <2>1, ClusterIs
  <2> QED
    BY <1>1, <1>4, <1>5, <1>7, <1>9, <2>1, <2>2, <2>3, PgFilesStay, EntryStays, SettingsStay
       DEF PostgresInv, PgLiveFits, Members, Replicated, pgFiles
<1> QED
  BY <1>10, <1>11

-----------------------------------------------------------------------------
LEMMA SyncIs ==
  ASSUME NEW st, DOMAIN st \subseteq 1..MaxOrdinal
  PROVE  /\ SyncOf(st) \subseteq DOMAIN st /\ IsFiniteSet(SyncOf(st)) /\ Cardinality(SyncOf(st)) \in Nat
         /\ SyncOf(st) # {} => Cardinality(SyncOf(st)) >= 1
<1>1. SyncOf(st) \subseteq DOMAIN st /\ SyncOf(st) \subseteq 1..MaxOrdinal
  BY DEF SyncOf
<1>2. IsFiniteSet(1..MaxOrdinal)
  BY OrdinalsCount, FS_Interval
<1>3. IsFiniteSet(SyncOf(st)) /\ Cardinality(SyncOf(st)) \in Nat
  BY <1>1, <1>2, FS_Subset, FS_CardinalityType
<1>4. SyncOf(st) # {} => Cardinality(SyncOf(st)) # 0
  BY <1>3, FS_EmptySet
<1> QED
  BY <1>1, <1>3, <1>4

\* An Apply saves the standbys it keeps and those it adds, in all three files and as they are started.
LEMMA ApplySavesStep == ASSUME PostgresInv, NEW a \in awaiting, ApplySaves(a), "lost" \notin awry' PROVE PostgresInv'
<1>1. PICK stay, come : stay = Staying(cluster, a.target.standbys) /\ come = Coming(cluster, a.target.standbys)
  OBVIOUS
<1>2. PICK st : st = [o \in stay \union come |-> IF o \in a.target.sync THEN "sync" ELSE "async"]
  OBVIOUS
<1>3. PICK M : M = {Entry0} \union DOMAIN st
  OBVIOUS
<1>4. PICK h : h = cluster.ha
  OBVIOUS
<1>5. PICK ha : ha = [members |-> M, primary |-> IF h # NoHa /\ h.primary \in M THEN h.primary ELSE Entry0,
                      sync |-> SyncOf(st), quorum |-> a.target.quorum, settings |-> ClusterSettings(h), entry |-> Snapshot(h)]
  OBVIOUS
<1>6. PICK gone : gone = DOMAIN cluster.standbys \ stay
  OBVIOUS
<1>7. PICK E : E = [m \in (DOMAIN declared.defs \ gone) \union come |->
                      IF m \in come THEN StandbyDef({Entry0}, ha.settings) ELSE declared.defs[m]]
  OBVIOUS
<1>8. /\ a.loaded = cluster /\ a.of = "apply" /\ Ends(a) /\ awry \subseteq awry' /\ UNCHANGED captured
      /\ come \subseteq 1..MaxOrdinal
  BY <1>1 DEF ApplySaves, Stale
<1>9. /\ cluster' = [standbys |-> st, ha |-> ha] /\ declared' = [defs |-> E, watcher |-> TRUE]
      /\ haJson' = HaConf(ha)
      /\ \E up \in AllUp([m \in M |-> IF m \in DOMAIN roles \ come THEN roles[m] ELSE "standby"]) :
           roles' = up.roles /\ newest' = up.newest
      /\ answering' = M
      /\ awry' = awry \union Drops(gone)
                 \union IF a.target.quorum > Cardinality(ha.sync) /\ ha.sync # {} THEN {"ordinals"} ELSE {}
  BY <1>1, <1>2, <1>3, <1>4, <1>5, <1>6, <1>7, <1>8 DEF ApplySaves, Stale, Ordinals
<1>10. PgFilesFit /\ EntryFits /\ SettingsKept /\ PgLiveFits /\ RequestsFit
  BY <1>8 DEF PostgresInv
<1>11. stay \subseteq DOMAIN cluster.standbys /\ stay \subseteq 1..MaxOrdinal /\ DOMAIN st = stay \union come
       /\ DOMAIN st \subseteq 1..MaxOrdinal /\ Entry0 \notin DOMAIN st /\ M \subseteq 0..MaxOrdinal
  <2>1. DOMAIN cluster.standbys \subseteq 1..MaxOrdinal
    BY <1>10, ClusterIs
  <2>2. stay \subseteq DOMAIN cluster.standbys
    BY <1>1 DEF Staying, Ordinals
  <2>3. DOMAIN st = stay \union come
    BY <1>2
  <2>4. DOMAIN st \subseteq 1..MaxOrdinal
    BY <1>8, <2>1, <2>2, <2>3
  <2>5. Entry0 \notin DOMAIN st /\ Entry0 \in 0..MaxOrdinal
    BY <2>4, OrdinalsCount DEF Entry0
  <2>6. M \subseteq 0..MaxOrdinal
    BY <1>3, <2>4, <2>5
  <2> QED
    BY <2>1, <2>2, <2>3, <2>4, <2>5, <2>6
<1>12. a.target.quorum \in Nat \ {0}
  BY <1>8, <1>10 DEF RequestsFit, RequestFits
<1>13. PICK D : D = declared.defs
  OBVIOUS
<1>14. PICK own : own = D[Entry0]
  OBVIOUS
<1>15. D \in [Members(cluster) -> MemberDef] /\ own \in MemberDef /\ own.after = {} /\ Entry0 \in Members(cluster)
  BY <1>10, <1>13, <1>14 DEF PgFilesFit, Members
<1>16. /\ Replicated => h \in HaRecord /\ h # NoHa /\ h.entry.shape = "entry" /\ h.entry.after = {}
       /\ ~Replicated => h = NoHa /\ own.shape = "entry"
  BY <1>4, <1>10, <1>13, <1>14, <1>15, ClusterIs DEF Replicated, HaFits, EntryFits, MemberDef
<1>17. PICK snap : snap = Snapshot(h)
  OBVIOUS
<1>18. /\ snap \in MemberDef /\ snap.shape = "entry" /\ snap.after = {}
       /\ Replicated => snap = h.entry
       /\ ~Replicated => snap = own
  <2>1. CASE Replicated
    <3>1. h.entry # NoDef
      BY <1>16, <2>1 DEF NoDef
    <3>2. snap = h.entry
      BY <1>16, <1>17, <2>1, <3>1 DEF Snapshot
    <3> QED
      BY <1>16, <2>1, <3>2 DEF HaRecord
  <2>2. CASE ~Replicated
    BY <1>13, <1>14, <1>15, <1>16, <1>17, <2>2 DEF Snapshot
  <2> QED
    BY <2>1, <2>2
<1>19. PICK kept \in BOOLEAN : kept = ClusterSettings(h) /\ (kept <=> own.command \/ (Replicated /\ h.settings))
  <2>1. own.command \in BOOLEAN /\ (Replicated => h.settings \in BOOLEAN)
    BY <1>15, <1>16 DEF MemberDef, HaRecord
  <2>2. ClusterSettings(h) \in BOOLEAN /\ (ClusterSettings(h) <=> own.command \/ (Replicated /\ h.settings))
    BY <1>4, <1>13, <1>14, <2>1 DEF ClusterSettings, Replicated
  <2> QED
    BY <2>2
<1>20. /\ ha.members = M /\ ha.sync = SyncOf(st) /\ ha.quorum = a.target.quorum /\ ha.settings = kept /\ ha.entry = snap
       /\ ha.primary \in M
       /\ ha = [members |-> M, primary |-> ha.primary, sync |-> SyncOf(st), quorum |-> a.target.quorum,
                settings |-> kept, entry |-> snap]
  BY <1>3, <1>5, <1>17, <1>19
<1>21. SyncOf(st) \subseteq DOMAIN st /\ Cardinality(SyncOf(st)) \in Nat /\ (SyncOf(st) # {} => Cardinality(SyncOf(st)) >= 1)
  BY <1>11, SyncIs
<1>22. HaFits(ha, st) /\ ha # NoHa
  <2>1. ha \in HaRecord
    BY <1>11, <1>12, <1>18, <1>20, <1>21 DEF HaRecord
  <2>2. HaFits(ha, st)
    BY <1>3, <1>18, <1>20, <2>1 DEF HaFits
  <2> QED
    BY <2>2, HaIsSome
<1>23. Replicated' /\ Members(cluster)' = M /\ cluster'.ha = ha /\ cluster'.standbys = st
  BY <1>3, <1>9, <1>22 DEF Replicated, Members
<1>24. PICK new : new = StandbyDef({Entry0}, kept)
  OBVIOUS
<1>25. new \in MemberDef /\ new.shape = "standby" /\ new.built = kept
  BY <1>19, <1>24 DEF StandbyDef, MemberDef
<1>26. DOMAIN E = M /\ Entry0 \in M /\ Entry0 \notin come /\ \A m \in M : E[m] = IF m \in come THEN new ELSE D[m]
  <2>1. (DOMAIN declared.defs \ gone) \union come = M
    <3>1. DOMAIN declared.defs = {Entry0} \union DOMAIN cluster.standbys /\ Entry0 \notin DOMAIN cluster.standbys
      BY <1>10, ClusterIs DEF Members
    <3> QED
      BY <1>3, <1>6, <1>11, <3>1
  <2> QED
    BY <1>3, <1>7, <1>11, <1>13, <1>20, <1>24, <2>1
<1>27. \A m \in M : m \notin come => m \in Members(cluster)
  BY <1>3, <1>11 DEF Members
<1>28. E \in [M -> MemberDef] /\ E[Entry0] = own
  <2>1. E = [m \in M |-> E[m]]
    BY <1>7, <1>26
  <2>2. \A m \in M : E[m] \in MemberDef
    BY <1>15, <1>25, <1>26, <1>27
  <2> QED
    BY <1>14, <1>26, <2>1, <2>2
<1>29. PgFilesFit'
  <2>1. ClusterFits(cluster)'
    BY <1>9, <1>11, <1>22, <1>23 DEF ClusterFits
  <2>2. "ordinals" \notin awry' => QuorumFits(ha)
    <3> SUFFICES ASSUME "ordinals" \notin awry', ha.sync # {} PROVE ha.quorum \in 1..Cardinality(ha.sync)
      BY DEF QuorumFits
    <3>1. ~(a.target.quorum > Cardinality(ha.sync))
      BY <1>9
    <3> QED
      BY <1>12, <1>20, <1>21, <3>1
  <2> QED
    BY <1>9, <1>15, <1>23, <1>28, <2>1, <2>2 DEF PgFilesFit
<1>30. EntryFits'
  <2>1. own.shape = "entry" /\ "unmounted" \notin awry => own.hba
    BY <1>8, <1>10, <1>13, <1>14 DEF EntryFits, Applying
  <2>2. declared'.defs[Entry0] = own
    BY <1>9, <1>28
  <2> QED
    BY <1>8, <1>23, <2>1, <2>2 DEF EntryFits
<1>31. SettingsKept'
  <2> SUFFICES ASSUME captured, "unheard" \notin awry
               PROVE  /\ \A m \in M : E[m].command \/ E[m].built
                      /\ own.shape = "entry" => own.command
                      /\ ha.settings /\ ha.entry.command
    BY <1>8, <1>9, <1>23, <1>28 DEF SettingsKept
  <2>1. /\ \A m \in Members(cluster) : D[m].command \/ D[m].built
        /\ own.shape = "entry" => own.command
        /\ Replicated => h.settings /\ h.entry.command
    BY <1>4, <1>10, <1>13, <1>14 DEF SettingsKept
  <2>2. kept /\ snap.command
    BY <1>16, <1>18, <1>19, <2>1
  <2>3. ASSUME NEW m \in M PROVE E[m].command \/ E[m].built
    <3>1. CASE m \in come
      BY <1>25, <1>26, <2>2, <3>1
    <3>2. CASE m \notin come
      BY <1>26, <1>27, <2>1, <3>2
    <3> QED
      BY <3>1, <3>2
  <2> QED
    BY <1>20, <2>1, <2>2, <2>3
<1>32. PgLiveFits'
  <2>1. PICK R : R = [m \in M |-> IF m \in DOMAIN roles \ come THEN roles[m] ELSE "standby"]
    OBVIOUS
  <2>2. R = [m \in M |-> R[m]] /\ \A m \in M \intersect answering : R[m] = "primary" => newest = m
    BY <1>10, <2>1 DEF PgLiveFits, OneIsWritten
  <2>3. PICK up \in AllUp(R) : roles' = up.roles /\ newest' = up.newest
    BY <1>9, <2>1
  <2>4. /\ roles' = [m \in M |-> roles'[m]] /\ (newest' = newest \/ newest' \in M)
        /\ \A m \in M : roles'[m] = "primary" => newest' = m
    BY <2>2, <2>3, AllUpIs
  <2>5. ASSUME newest \in Members(cluster), "dropped" \notin awry' PROVE newest \in M
    <3>1. newest \notin gone
      BY <1>9, <2>5 DEF Drops
    <3> QED
      BY <1>3, <1>6, <1>11, <2>5, <3>1 DEF Members
  <2>6. /\ "discarded" \in awry' => "discarded" \in awry
        /\ awry' \intersect {"dropped", "unseen", "renewed"} = {} => newest \in Members(cluster) /\ "dropped" \notin awry'
    BY <1>8, <1>9, <1>10 DEF PgLiveFits, Drops
  <2>7. OneIsWritten' /\ answering' \subseteq M
    BY <1>9, <2>4 DEF OneIsWritten
  <2> QED
    BY <1>8, <1>10, <1>23, <2>4, <2>5, <2>6, <2>7 DEF PgLiveFits
<1>33. RequestsFit'
  BY <1>8, <1>10, RequestsEnd
<1> QED
  BY <1>29, <1>30, <1>31, <1>32, <1>33 DEF PostgresInv


\* A conversion leaves the entry alone, of the shape it had before there were standbys.
LEMMA ConvertSavesStep == ASSUME PostgresInv, NEW a \in awaiting, ConvertSaves(a), "lost" \notin awry' PROVE PostgresInv'
<1>1. a.of = "convert" /\ Ends(a) /\ UNCHANGED captured /\ awry \subseteq awry'
  BY DEF ConvertSaves, pgFiles, pgLive
<1>2. PgFilesFit /\ EntryFits /\ SettingsKept /\ PgLiveFits /\ RequestsFit
  BY <1>1 DEF PostgresInv
<1>3. RequestsFit' /\ (Applying' <=> Applying)
  BY <1>1, <1>2, RequestsEnd
<1>4. PICK live : live = Writable(a.loaded.ha.members)
  OBVIOUS
<1>5. CASE live \ {Entry0} # {} /\ Entry0 \notin live
  <2>1. UNCHANGED <<cluster, declared, haJson, roles, answering, newest, awry>>
    BY <1>4, <1>5 DEF ConvertSaves, pgFiles, pgLive
  <2> QED
    BY <1>1, <1>2, <1>3, <2>1, PgFilesStay, EntryStays, SettingsStay, LiveStays DEF PostgresInv, pgFiles
<1>6. CASE ~(live \ {Entry0} # {} /\ Entry0 \notin live)
  <2>1. PICK own : own = a.doc.defs[Entry0]
    OBVIOUS
  <2>2. PICK h : h = a.loaded.ha
    OBVIOUS
  <2>3. PICK def : def = IF own.shape = "standby" /\ h.entry # NoDef THEN h.entry ELSE own
    OBVIOUS
  <2>4. PICK alone : alone = [def EXCEPT !.hba = FALSE]
    OBVIOUS
  <2>5. /\ cluster' = [standbys |-> <<>>, ha |-> NoHa]
        /\ declared' = [defs |-> [m \in {Entry0} |-> alone], watcher |-> FALSE]
        /\ haJson' = NoConf
        /\ roles' = [m \in {Entry0} |-> IF roles[m] = "fenced" THEN "primary" ELSE roles[m]]
        /\ answering' = {Entry0}
        /\ newest' = IF roles'[Entry0] = "primary" THEN Entry0 ELSE newest
        /\ awry' = awry \union Stale(a.loaded, cluster) \union Stale(a.doc, declared)
                   \union (IF newest \in h.members \ {Entry0} THEN {"discarded"} ELSE {})
                   \union (IF live = {} THEN {"unseen"} ELSE {})
                   \union IF Applying THEN {"unmounted"} ELSE {}
    BY <1>4, <1>6, <2>1, <2>2, <2>3, <2>4 DEF ConvertSaves, Applying
  <2>6. a.loaded = cluster /\ a.doc = declared
    BY <2>5 DEF Stale
  <2>7. Replicated /\ HaFits(h, cluster.standbys) /\ h = cluster.ha /\ h.members = Members(cluster)
    BY <1>1, <1>2, <2>2, <2>6, ClusterIs DEF RequestsFit, RequestFits, Replicated
  <2>8. own \in MemberDef /\ own = declared.defs[Entry0] /\ own.after = {}
    BY <1>2, <2>1, <2>6 DEF PgFilesFit, Members
  <2>9. h.entry \in MemberDef /\ h.entry.shape = "entry" /\ h.entry.after = {} /\ h.entry # NoDef
    BY <2>7 DEF HaFits, HaRecord, NoDef
  <2>10. def = (IF own.shape = "standby" THEN h.entry ELSE own) /\ def \in MemberDef /\ def.shape = "entry" /\ def.after = {}
    BY <2>3, <2>8, <2>9 DEF MemberDef
  <2>11. alone \in MemberDef /\ alone.shape = "entry" /\ alone.after = {} /\ alone.hba = FALSE /\ alone.command = def.command
    BY <2>4, <2>10 DEF MemberDef
  <2>12. ~Replicated' /\ cluster'.standbys = <<>> /\ cluster'.ha = NoHa /\ Members(cluster)' = {Entry0} /\ DOMAIN <<>> = {}
    <3>1. DOMAIN <<>> = {}
      BY EmptySeq
    <3> QED
      BY <2>5, <3>1 DEF Replicated, Members
  <2>13. declared'.defs = [m \in {Entry0} |-> alone] /\ declared'.defs[Entry0] = alone
    BY <2>5
  <2>14. PgFilesFit'
    <3>1. ClusterFits(cluster)'
      BY <2>5, <2>12 DEF ClusterFits
    <3> QED
      BY <2>5, <2>11, <2>12, <2>13, <3>1 DEF PgFilesFit
  <2>15. EntryFits'
    BY <1>3, <2>5, <2>11, <2>12, <2>13 DEF EntryFits
  <2>16. SettingsKept'
    <3> SUFFICES ASSUME captured, "unheard" \notin awry PROVE alone.command
      BY <1>1, <2>12, <2>13 DEF SettingsKept
    <3> QED
      BY <1>2, <2>7, <2>8, <2>9, <2>10, <2>11 DEF SettingsKept
  <2>17. PgLiveFits'
    <3>1. DOMAIN roles' = {Entry0} /\ roles' = [m \in {Entry0} |-> roles'[m]]
          /\ roles'[Entry0] = IF roles[Entry0] = "fenced" THEN "primary" ELSE roles[Entry0]
      BY <2>5
    <3>2. OneIsWritten'
      BY <2>5 DEF OneIsWritten
    <3> SUFFICES ASSUME awry' \intersect {"dropped", "unseen", "renewed"} = {}
                 PROVE  "discarded" \notin awry' /\ newest' = Entry0 /\ roles'[Entry0] = "primary"
      BY <1>1, <2>5, <2>12, <3>1, <3>2 DEF PgLiveFits
    <3>3. live # {} /\ "discarded" \notin awry
      BY <1>1, <1>2, <2>5 DEF PgLiveFits
    <3>4. Entry0 \in live /\ roles[Entry0] = "primary" /\ newest = Entry0
      BY <1>2, <1>4, <1>6, <3>3 DEF Writable, PgLiveFits, OneIsWritten
    <3> QED
      BY <2>5, <2>6, <3>1, <3>3, <3>4 DEF Stale
  <2> QED
    BY <1>3, <2>14, <2>15, <2>16, <2>17 DEF PostgresInv
<1> QED
  BY <1>5, <1>6

-----------------------------------------------------------------------------
LEMMA DeleteStandbyStep ==
  ASSUME PostgresInv, NEW o \in Ordinals(cluster), DeleteStandby(o), "lost" \notin awry'
  PROVE  PostgresInv'
<1> DEFINE rest == [p \in Ordinals(cluster) \ {o} |-> cluster.standbys[p]]
           few == IF SyncOf(rest) = {} THEN 1 ELSE Cardinality(SyncOf(rest))
           less == [cluster.ha EXCEPT !.members = {Entry0} \union DOMAIN rest, !.sync = SyncOf(rest),
                                      !.quorum = IF @ < few THEN @ ELSE few,
                                      !.primary = IF @ = o THEN Entry0 ELSE @]
<1>1. PICK st : st = rest
  OBVIOUS
<1>2. PICK sync : sync = SyncOf(st)
  OBVIOUS
<1>3. PICK most : most = IF sync = {} THEN 1 ELSE Cardinality(sync)
  OBVIOUS
<1>4. PICK h : h = cluster.ha
  OBVIOUS
<1>5. PICK M : M = {Entry0} \union DOMAIN st
  OBVIOUS
<1>6. PICK ha : ha = less
  OBVIOUS
<1>7. PICK D : D = declared.defs
  OBVIOUS
<1>8. PICK E : E = [m \in DOMAIN D \ {o} |-> [D[m] EXCEPT !.after = @ \ {o}]]
  OBVIOUS
<1>9. /\ cluster' = [standbys |-> st, ha |-> ha] /\ haJson' = HaConf(ha) /\ o \in DOMAIN cluster.standbys
      /\ declared' = [declared EXCEPT !.defs = E]
      /\ \E up \in AllUp([m \in DOMAIN roles \ {o} |-> roles[m]]) : roles' = up.roles /\ newest' = up.newest
      /\ answering' = DOMAIN D \ {o}
      /\ awry' = awry \union Drops({o}) /\ UNCHANGED <<captured, awaiting>>
  <2>1. cluster' = [standbys |-> st, ha |-> ha] /\ haJson' = HaConf(ha)
    BY <1>1, <1>6 DEF DeleteStandby
  <2>2. declared' = [declared EXCEPT !.defs = E]
    BY <1>7, <1>8 DEF DeleteStandby
  <2>3. /\ \E up \in AllUp([m \in DOMAIN roles \ {o} |-> roles[m]]) : roles' = up.roles /\ newest' = up.newest
        /\ answering' = DOMAIN D \ {o}
        /\ awry' = awry \union Drops({o}) /\ UNCHANGED <<captured, awaiting>>
    BY <1>7 DEF DeleteStandby
  <2>4. o \in DOMAIN cluster.standbys
    BY DEF Ordinals
  <2> QED
    BY <2>1, <2>2, <2>3, <2>4
<1>10. PgFilesFit /\ EntryFits /\ SettingsKept /\ PgLiveFits /\ RequestsFit /\ awry \subseteq awry'
  BY <1>9 DEF PostgresInv
<1>11. DOMAIN st = DOMAIN cluster.standbys \ {o} /\ few = most
  BY <1>1, <1>2, <1>3 DEF Ordinals
<1> HIDE DEF rest
<1>12. /\ HaFits(h, cluster.standbys) /\ Replicated /\ DOMAIN st \subseteq 1..MaxOrdinal
       /\ Entry0 \notin DOMAIN cluster.standbys /\ o # Entry0 /\ DOMAIN cluster.standbys \subseteq 1..MaxOrdinal
       /\ DOMAIN st = DOMAIN cluster.standbys \ {o} /\ M = Members(cluster) \ {o} /\ DOMAIN D = Members(cluster)
  BY <1>4, <1>5, <1>7, <1>9, <1>10, <1>11, ClusterIs DEF Members
<1>13. /\ sync \subseteq h.sync /\ sync \subseteq DOMAIN st /\ sync \subseteq 1..MaxOrdinal
       /\ Cardinality(sync) \in Nat /\ (sync # {} => Cardinality(sync) >= 1)
  <2>1. sync \subseteq h.sync
    BY <1>1, <1>2, <1>9, <1>12 DEF HaFits, SyncOf, rest, Ordinals
  <2> QED
    BY <1>2, <1>12, <2>1, SyncIs
<1>14. most \in Nat \ {0}
  BY <1>3, <1>13
<1>15. PICK q : q = IF h.quorum < most THEN h.quorum ELSE most
  OBVIOUS
<1>16. PICK p : p = IF h.primary = o THEN Entry0 ELSE h.primary
  OBVIOUS
<1>17. h \in HaRecord /\ h.members = Members(cluster) /\ h.primary \in h.members /\ h.quorum \in Nat \ {0}
       /\ h.entry.shape = "entry" /\ h.entry.after = {}
  BY <1>12 DEF HaFits, HaRecord, Members
<1>18. q \in Nat \ {0} /\ q <= most
  BY <1>14, <1>15, <1>17
<1>19. p \in M
  BY <1>12, <1>16, <1>17 DEF Members
<1>20. ha = [h EXCEPT !.members = M, !.sync = sync, !.quorum = q, !.primary = p]
  <2>1. ha = [h EXCEPT !.members = {Entry0} \union DOMAIN rest, !.sync = SyncOf(rest),
                       !.quorum = IF @ < few THEN @ ELSE few, !.primary = IF @ = o THEN Entry0 ELSE @]
    BY <1>4, <1>6
  <2> HIDE DEF few
  <2>2. {Entry0} \union DOMAIN rest = M /\ SyncOf(rest) = sync /\ few = most
    BY <1>1, <1>2, <1>5, <1>11
  <2> QED
    BY <1>15, <1>16, <1>17, <2>1, <2>2 DEF HaRecord
<1>21. M \subseteq 0..MaxOrdinal
  BY <1>12, <1>17 DEF HaRecord
<1>22. /\ ha \in HaRecord /\ ha.members = M /\ ha.sync = sync /\ ha.quorum = q /\ ha.primary = p
       /\ ha.settings = h.settings /\ ha.entry = h.entry
  BY <1>13, <1>17, <1>18, <1>19, <1>20, <1>21 DEF HaRecord
<1>23. HaFits(ha, st) /\ ha # NoHa
  <2>1. HaFits(ha, st)
    BY <1>2, <1>5, <1>17, <1>19, <1>22 DEF HaFits
  <2> QED
    BY <2>1, HaIsSome
<1>24. Replicated' /\ Members(cluster)' = M /\ cluster'.ha = ha /\ cluster'.standbys = st
  BY <1>5, <1>9, <1>23 DEF Replicated, Members
<1>25. D \in [Members(cluster) -> MemberDef] /\ D[Entry0].after = {} /\ Entry0 \in M
       /\ declared = [defs |-> D, watcher |-> TRUE]
  BY <1>5, <1>7, <1>10, <1>12 DEF PgFilesFit
<1>26. declared' = [defs |-> E, watcher |-> TRUE] /\ declared'.defs = E
  BY <1>9, <1>8, <1>25
<1>27. /\ E \in [M -> MemberDef] /\ E[Entry0].after = {} /\ E[Entry0].shape = D[Entry0].shape /\ E[Entry0].hba = D[Entry0].hba
       /\ \A m \in M : E[m].command = D[m].command /\ E[m].built = D[m].built
  <2>1. ASSUME NEW m \in M
        PROVE  /\ E[m] \in MemberDef /\ E[m].command = D[m].command /\ E[m].built = D[m].built /\ E[m].shape = D[m].shape
               /\ E[m].hba = D[m].hba /\ E[m].after \subseteq D[m].after
    <3>1. D[m] \in MemberDef /\ E[m] = [D[m] EXCEPT !.after = @ \ {o}]
      BY <1>12, <1>8, <1>25
    <3>2. D[m].after \ {o} \in SUBSET {Entry0}
      BY <3>1 DEF MemberDef
    <3> QED
      BY <3>1, <3>2 DEF MemberDef
  <2>2. E = [m \in M |-> E[m]]
    BY <1>12, <1>8
  <2> QED
    BY <1>25, <2>1, <2>2
<1>28. PgFilesFit'
  <2>1. ClusterFits(cluster)'
    BY <1>9, <1>12, <1>23, <1>24 DEF ClusterFits
  <2>2. "ordinals" \notin awry => QuorumFits(ha)
    <3> SUFFICES ASSUME "ordinals" \notin awry, sync # {} PROVE q \in 1..Cardinality(sync)
      BY <1>22 DEF QuorumFits
    <3> QED
      BY <1>3, <1>13, <1>18
  <2> QED
    BY <1>9, <1>10, <1>24, <1>26, <1>27, <2>1, <2>2 DEF PgFilesFit
<1>29. EntryFits'
  <2>1. (Applying' <=> Applying) /\ (D[Entry0].shape = "entry" /\ "unmounted" \notin awry => D[Entry0].hba)
    BY <1>7, <1>9, <1>10, <1>12 DEF EntryFits, Applying
  <2> QED
    BY <1>10, <1>24, <1>26, <1>27, <2>1 DEF EntryFits
<1>30. SettingsKept'
  <2> SUFFICES ASSUME captured, "unheard" \notin awry
               PROVE  /\ \A m \in M : E[m].command \/ E[m].built
                      /\ E[Entry0].shape = "entry" => E[Entry0].command
                      /\ ha.settings /\ ha.entry.command
    BY <1>9, <1>10, <1>24, <1>26 DEF SettingsKept
  <2>1. /\ \A m \in Members(cluster) : D[m].command \/ D[m].built
        /\ D[Entry0].shape = "entry" => D[Entry0].command
        /\ h.settings /\ h.entry.command
    BY <1>4, <1>7, <1>10, <1>12 DEF SettingsKept
  <2> QED
    BY <1>12, <1>22, <1>25, <1>27, <2>1
<1>31. PgLiveFits'
  <2>1. PICK R : R = [m \in DOMAIN roles \ {o} |-> roles[m]]
    OBVIOUS
  <2>2. DOMAIN roles \ {o} = M
    BY <1>10, <1>12 DEF PgLiveFits
  <2>3. R = [m \in M |-> R[m]] /\ \A m \in M \intersect answering : R[m] = "primary" => newest = m
    BY <1>10, <2>1, <2>2 DEF PgLiveFits, OneIsWritten
  <2>4. PICK up \in AllUp(R) : roles' = up.roles /\ newest' = up.newest
    BY <1>9, <2>1
  <2>5. /\ roles' = [m \in M |-> roles'[m]] /\ (newest' = newest \/ newest' \in M)
        /\ \A m \in M : roles'[m] = "primary" => newest' = m
    BY <2>3, <2>4, AllUpIs
  <2>6. ASSUME newest \in Members(cluster), "dropped" \notin awry' PROVE newest \in M
    BY <1>9, <1>12, <2>6 DEF Drops
  <2>7. /\ "discarded" \in awry' => "discarded" \in awry
        /\ awry' \intersect {"dropped", "unseen", "renewed"} = {} => newest \in Members(cluster) /\ "dropped" \notin awry'
    BY <1>9, <1>10 DEF PgLiveFits, Drops
  <2>8. OneIsWritten' /\ answering' \subseteq M
    BY <1>9, <1>12, <2>5 DEF OneIsWritten
  <2> QED
    BY <1>10, <1>24, <2>5, <2>6, <2>7, <2>8 DEF PgLiveFits
<1>32. RequestsFit'
  BY <1>9, <1>10 DEF RequestsFit, RequestFits
<1> QED
  BY <1>28, <1>29, <1>30, <1>31, <1>32 DEF PostgresInv


LEMMA CaptureStep == ASSUME PostgresInv, Capture, "lost" \notin awry' PROVE PostgresInv'
<1>1. /\ UNCHANGED <<cluster, haJson, roles, answering, newest, awaiting>> /\ ~captured
      /\ declared' = [declared EXCEPT !.defs[Entry0].command = TRUE]
      /\ awry' = awry \union IF Replicated THEN {"unheard"} ELSE {}
  BY DEF Capture, pgLive
<1>2. PgFilesFit /\ EntryFits /\ SettingsKept /\ PgLiveFits /\ RequestsFit /\ awry \subseteq awry'
  BY <1>1 DEF PostgresInv
<1>3. PICK D : D = declared.defs
  OBVIOUS
<1>4. D \in [Members(cluster) -> MemberDef] /\ D[Entry0] \in MemberDef /\ D[Entry0].after = {}
  BY <1>2, <1>3 DEF PgFilesFit, Members
<1>5. PICK own : own = [D[Entry0] EXCEPT !.command = TRUE]
  OBVIOUS
<1>6. own \in MemberDef /\ own.command = TRUE /\ own.after = {} /\ own.shape = D[Entry0].shape /\ own.hba = D[Entry0].hba
  BY <1>4, <1>5 DEF MemberDef
<1>7. PICK E : E = [D EXCEPT ![Entry0] = own]
  OBVIOUS
<1>8. declared = [defs |-> D, watcher |-> IF Replicated THEN TRUE ELSE FALSE]
  BY <1>2, <1>3 DEF PgFilesFit
<1>9. declared' = [defs |-> E, watcher |-> IF Replicated THEN TRUE ELSE FALSE] /\ declared'.defs = E
  BY <1>1, <1>4, <1>5, <1>7, <1>8
<1>10. E \in [Members(cluster) -> MemberDef] /\ E[Entry0] = own
  BY <1>4, <1>6, <1>7 DEF Members
<1>11. PgFilesFit'
  BY <1>1, <1>2, <1>6, <1>9, <1>10 DEF PgFilesFit, Replicated, Members, ClusterFits, HaFits, QuorumFits, HaConf, SyncOf
<1>12. EntryFits'
  BY <1>1, <1>2, <1>3, <1>6, <1>9, <1>10 DEF EntryFits, Replicated, Applying
<1>13. SettingsKept'
  <2>1. ~Replicated => Members(cluster) = {Entry0}
    BY <1>2, ClusterIs
  <2> QED
    BY <1>1, <1>6, <1>9, <1>10, <2>1 DEF SettingsKept, Replicated, Members
<1>14. PgLiveFits' /\ RequestsFit'
  BY <1>1, <1>2, LiveStays DEF RequestsFit, RequestFits
<1> QED
  BY <1>11, <1>12, <1>13, <1>14 DEF PostgresInv

\* What the members do by themselves, and the watcher to them: it knows of those in ha.json.
LEMMA MembersStep ==
  ASSUME PostgresInv, NEW m \in DOMAIN roles, Crashes(m) \/ Returns(m) \/ WatcherPromotes(m), "lost" \notin awry'
  PROVE  PostgresInv'
<1>1. UNCHANGED <<cluster, declared, haJson, captured, awaiting, awry>>
  BY DEF Crashes, Returns, WatcherPromotes, pgFiles
<1>2. PgFilesFit /\ EntryFits /\ SettingsKept /\ PgLiveFits /\ RequestsFit
  BY <1>1 DEF PostgresInv
<1>3. DOMAIN roles = Members(cluster) /\ answering \subseteq Members(cluster) /\ m \in Members(cluster)
  BY <1>2 DEF PgLiveFits
<1>4. answering' \subseteq Members(cluster) /\ roles' = [x \in Members(cluster) |-> roles'[x]]
  BY <1>2, <1>3 DEF Crashes, Returns, WatcherPromotes, PgLiveFits
<1>5. newest' = newest \/ newest' \in Members(cluster)
  BY <1>3 DEF Crashes, Returns, WatcherPromotes
<1>6. ASSUME ~Replicated, roles[Entry0] = "primary" PROVE roles'[Entry0] = "primary"
  <2>1. Members(cluster) = {Entry0} /\ haJson.members = {}
    BY <1>2, <1>6, ClusterIs DEF PgFilesFit, NoConf
  <2>2. CASE Crashes(m)
    BY <1>6, <2>2 DEF Crashes
  <2>3. CASE Returns(m)
    <3>1. Writable(DOMAIN roles) = {}
      BY <1>3, <2>1, <2>3 DEF Returns, Writable
    <3> QED
      BY <1>6, <2>3, <3>1 DEF Returns
  <2>4. CASE WatcherPromotes(m)
    BY <2>1, <2>4 DEF WatcherPromotes
  <2> QED
    BY <2>2, <2>3, <2>4
<1>9. OneIsWritten'
  <2>1. OneIsWritten
    BY <1>2 DEF PgLiveFits
  <2>2. CASE Crashes(m)
    BY <2>1, <2>2 DEF Crashes, OneIsWritten
  <2>3. CASE Returns(m)
    <3>1. /\ answering' = answering \union {m} /\ m \notin answering
          /\ roles' = IF roles[m] = "primary" /\ Writable(DOMAIN roles) # {} THEN [roles EXCEPT ![m] = "fenced"] ELSE roles
          /\ newest' = IF roles[m] = "primary" /\ Writable(DOMAIN roles) = {} THEN m ELSE newest
      BY <2>3 DEF Returns
    <3>2. Writable(DOMAIN roles) = {} => \A x \in answering : roles[x] # "primary"
      BY <1>3 DEF Writable
    <3> QED
      BY <1>3, <2>1, <3>1, <3>2 DEF OneIsWritten
  <2>4. CASE WatcherPromotes(m)
    <3>1. Replicated /\ haJson.members = Members(cluster)
      BY <1>2, <2>4, ClusterIs DEF WatcherPromotes, PgFilesFit, NoConf, HaConf
    <3>2. \A x \in answering : roles[x] # "primary"
      BY <1>3, <2>4, <3>1 DEF WatcherPromotes, Writable
    <3> QED
      BY <1>3, <2>4, <3>2 DEF WatcherPromotes, OneIsWritten
  <2> QED
    BY <2>2, <2>3, <2>4
<1>7. PgLiveFits'
  BY <1>1, <1>2, <1>4, <1>5, <1>6, <1>9 DEF PgLiveFits, Members, Replicated
<1>8. RequestsFit' /\ (Applying' <=> Applying)
  BY <1>1, <1>2 DEF RequestsFit, RequestFits, Applying
<1> QED
  BY <1>1, <1>2, <1>7, <1>8, PgFilesStay, EntryStays, SettingsStay DEF PostgresInv, pgFiles

LEMMA PostgresStep == PostgresInv /\ [PostgresNext]_pgVars => PostgresInv'
<1> SUFFICES ASSUME PostgresInv, [PostgresNext]_pgVars, "lost" \notin awry' PROVE PostgresInv'
  BY DEF PostgresInv
<1>1. CASE UNCHANGED pgVars
  <2>1. UNCHANGED <<cluster, declared, haJson, roles, answering, newest, captured, awaiting, awry>>
    BY <1>1 DEF pgVars, pgFiles, pgLive
  <2>2. PgFilesFit /\ EntryFits /\ SettingsKept /\ PgLiveFits /\ RequestsFit
    BY <2>1 DEF PostgresInv
  <2>3. RequestsFit' /\ (Applying' <=> Applying)
    BY <2>1, <2>2 DEF RequestsFit, RequestFits, Applying
  <2> QED
    BY <2>1, <2>2, <2>3, PgFilesStay, EntryStays, SettingsStay, LiveStays DEF PostgresInv, pgFiles
<1>2. CASE \E t \in Offered : ApplyStarts(t)
  BY <1>2, ApplyStartsStep
<1>3. CASE ConvertStarts
  BY <1>3, ConvertStartsStep
<1>4. CASE \E m \in DOMAIN roles : FailoverStarts(m) \/ RejoinStarts(m) \/ Crashes(m) \/ Returns(m) \/ WatcherPromotes(m)
  BY <1>4, FailoverStartsStep, RejoinStartsStep, MembersStep
<1>5. CASE \E a \in awaiting :
          ApplySaves(a) \/ ConvertSaves(a) \/ Fences(a) \/ Promotes(a) \/ FailoverSaves(a) \/ RejoinSaves(a) \/ RejoinRenews(a)
  BY <1>5, ApplySavesStep, ConvertSavesStep, FencesStep, PromotesStep, FailoverSavesStep, RejoinSavesStep, RejoinRenewsStep
<1>6. CASE \E o \in Ordinals(cluster) : DeleteStandby(o)
  BY <1>6, DeleteStandbyStep
<1>7. CASE Capture
  BY <1>7, CaptureStep
<1> QED
  BY <1>1, <1>2, <1>3, <1>4, <1>5, <1>6, <1>7, Zenon DEF PostgresNext

LEMMA PostgresFits == PostgresInv => PostgresHolds
<1> SUFFICES ASSUME PostgresInv, "lost" \notin awry
             PROVE  /\ FilesTellOfOneCluster /\ MembersAreAsBuilt
                    /\ awry \intersect {"dropped", "unseen", "renewed"} = {} => NewestIsKept
  BY DEF PostgresHolds
<1>1. PgFilesFit /\ EntryFits /\ SettingsKept /\ PgLiveFits
  BY DEF PostgresInv
<1>2. PICK D : D = declared.defs
  OBVIOUS
<1>3. /\ D \in [Members(cluster) -> MemberDef] /\ D[Entry0] \in MemberDef /\ D[Entry0].after = {}
      /\ declared = [defs |-> D, watcher |-> IF Replicated THEN TRUE ELSE FALSE]
  BY <1>1, <1>2 DEF PgFilesFit, Members
<1>4. FilesTellOfOneCluster
  <2>1. Replicated =>
          /\ cluster.ha.members = {Entry0} \union Ordinals(cluster)
          /\ cluster.ha.sync = SyncOf(cluster.standbys)
          /\ cluster.ha.primary \in cluster.ha.members
          /\ "ordinals" \notin awry /\ cluster.ha.sync # {} => cluster.ha.quorum \in 1..Cardinality(cluster.ha.sync)
          /\ haJson = HaConf(cluster.ha)
    BY <1>1, ClusterIs DEF HaFits, Ordinals, PgFilesFit, QuorumFits
  <2>2. ~Replicated => Ordinals(cluster) = {} /\ haJson = NoConf
    BY <1>1, ClusterIs DEF Ordinals, PgFilesFit
  <2>3. declared.watcher = Replicated
    <3>1. CASE Replicated
      <4>1. declared.watcher = TRUE /\ Replicated = TRUE
        BY <1>3, <3>1
      <4> QED
        BY <4>1
    <3>2. CASE ~Replicated
      <4>1. declared.watcher = FALSE /\ Replicated = FALSE
        BY <1>3, <3>2
      <4> QED
        BY <4>1
    <3> QED
      BY <3>1, <3>2
  <2>4. DOMAIN declared.defs = {Entry0} \union Ordinals(cluster)
    BY <1>2, <1>3 DEF Members, Ordinals
  <2>5. ASSUME NEW m \in DOMAIN declared.defs, NEW x \in DOMAIN declared.defs, x \in declared.defs[m].after
        PROVE  m \notin declared.defs[x].after
    <3>1. D[m] \in MemberDef /\ x \in D[m].after
      BY <1>2, <1>3, <2>5
    <3>2. x = Entry0
      BY <3>1 DEF MemberDef
    <3> QED
      BY <1>2, <1>3, <3>2
  <2> QED
    BY <2>1, <2>2, <2>3, <2>4, <2>5 DEF FilesTellOfOneCluster
<1>5. MembersAreAsBuilt
  <2>1. ~Replicated => D[Entry0].shape = "entry" /\ (D[Entry0].hba => \E a \in awaiting : a.of = "apply")
    BY <1>1, <1>2, <1>3 DEF EntryFits, Applying, MemberDef
  <2>2. Replicated /\ D[Entry0].shape = "entry" /\ "unmounted" \notin awry => D[Entry0].hba
    BY <1>1, <1>2 DEF EntryFits
  <2>3. captured /\ "unheard" \notin awry => \A m \in DOMAIN D : D[m].command \/ D[m].built
    BY <1>1, <1>2, <1>3 DEF SettingsKept
  <2> QED
    BY <1>2, <2>1, <2>2, <2>3 DEF MembersAreAsBuilt
<1>6. awry \intersect {"dropped", "unseen", "renewed"} = {} => NewestIsKept
  BY <1>1 DEF PgLiveFits, NewestIsKept, Members, Ordinals
<1> QED
  BY <1>4, <1>5, <1>6

\* However Apply, conversions, switchovers, rejoins and deletions overlap while members fail and are
\* promoted, the manifest, the compose file and ha.json tell of one cluster, and the member that was
\* written last is kept (postgresTopology.js).
THEOREM PostgresHoldsAlways == PostgresSpec => []PostgresHolds
BY PostgresInitial, PostgresStep, PostgresFits, PTL DEF PostgresSpec

-----------------------------------------------------------------------------
(* DbSeeds: the lists of entries, and the rows they make. *)

LEMMA MinIs ==
  ASSUME NEW S, S \subseteq Nat, S # {}
  PROVE  Min(S) \in S /\ \A n \in S : Min(S) <= n
<1>1. \E m \in S : \A n \in S : m <= n
  BY Minimum
<1> QED
  BY <1>1, Zenon DEF Min

\* Of positions in a list, one is the last.
LEMMA MaxIs ==
  ASSUME NEW top \in Nat, NEW S, S \subseteq 1..top, S # {}
  PROVE  Max(S) \in S /\ \A n \in S : n <= Max(S)
<1> DEFINE T == {top - n : n \in S}
<1>1. T \subseteq Nat /\ T # {}
  <2>1. ASSUME NEW n \in S PROVE top - n \in Nat
    <3>1. n \in 1..top
      OBVIOUS
    <3> QED
      BY <3>1
  <2> QED
    BY <2>1
<1>2. PICK t \in T : \A u \in T : t <= u
  BY <1>1, Minimum
<1>3. PICK m \in S : t = top - m
  BY <1>2
<1>4. ASSUME NEW n \in S PROVE m >= n
  <2>1. top - n \in T
    BY <1>4
  <2>2. top - m <= top - n /\ m \in Nat /\ n \in Nat
    BY <1>2, <1>3, <2>1
  <2> QED
    BY <2>2
<1>5. \E x \in S : \A y \in S : x >= y
  BY <1>3, <1>4
<1>6. Max(S) \in S /\ \A y \in S : Max(S) >= y
  BY <1>5, Zenon DEF Max
<1> QED
  BY <1>6

\* The position of a key that counts: it is the only one that is first, or last.
Lasts(list, k) == IF Upserts THEN Max(PlacesOf(list, k)) ELSE Min(PlacesOf(list, k))

LEMMA LastsIs ==
  ASSUME NEW list \in Seq(Row), NEW k, PlacesOf(list, k) # {}
  PROVE  /\ Lasts(list, k) \in 1..Len(list) /\ list[Lasts(list, k)].key = k
         /\ \A i \in PlacesOf(list, k) : IF Upserts THEN i <= Lasts(list, k) ELSE Lasts(list, k) <= i
<1>1. Len(list) \in Nat /\ DOMAIN list = 1..Len(list)
  BY LenProperties
<1>2. PlacesOf(list, k) \subseteq 1..Len(list) /\ PlacesOf(list, k) \subseteq Nat
  BY <1>1 DEF PlacesOf
<1>3. Lasts(list, k) \in PlacesOf(list, k)
      /\ \A i \in PlacesOf(list, k) : IF Upserts THEN i <= Lasts(list, k) ELSE Lasts(list, k) <= i
  <2>1. Min(PlacesOf(list, k)) \in PlacesOf(list, k) /\ \A i \in PlacesOf(list, k) : Min(PlacesOf(list, k)) <= i
    BY <1>2, MinIs
  <2>2. Max(PlacesOf(list, k)) \in PlacesOf(list, k) /\ \A i \in PlacesOf(list, k) : i <= Max(PlacesOf(list, k))
    BY <1>1, <1>2, MaxIs
  <2> QED
    BY <2>1, <2>2 DEF Lasts
<1> QED
  BY <1>1, <1>3 DEF PlacesOf

LEMMA LastsOnly ==
  ASSUME NEW list \in Seq(Row), NEW k, NEW p \in PlacesOf(list, k),
         \A i \in PlacesOf(list, k) : IF Upserts THEN i <= p ELSE p <= i
  PROVE  Lasts(list, k) = p
<1>1. Len(list) \in Nat /\ DOMAIN list = 1..Len(list)
  BY LenProperties
<1>2. PICK q : q = Lasts(list, k)
  OBVIOUS
<1>3. /\ q \in 1..Len(list) /\ q \in PlacesOf(list, k) /\ p \in 1..Len(list)
      /\ \A i \in PlacesOf(list, k) : IF Upserts THEN i <= q ELSE q <= i
  BY <1>1, <1>2, LastsIs DEF PlacesOf
<1>4. CASE Upserts
  <2>1. q <= p /\ p <= q
    BY <1>3, <1>4
  <2> QED
    BY <1>1, <1>2, <1>3, <2>1
<1>5. CASE ~Upserts
  <2>1. q <= p /\ p <= q
    BY <1>3, <1>5
  <2> QED
    BY <1>1, <1>2, <1>3, <2>1
<1> QED
  BY <1>4, <1>5

-----------------------------------------------------------------------------
(* An entry more. *)

LEMMA ListGrows ==
  ASSUME NEW list \in Seq(Row), NEW r \in Row
  PROVE  /\ Append(list, r) \in Seq(Row) /\ Len(list) \in Nat /\ DOMAIN list = 1..Len(list)
         /\ DOMAIN Append(list, r) = 1..Len(list) + 1 /\ Append(list, r)[Len(list) + 1] = r
         /\ \A i \in 1..Len(list) : Append(list, r)[i] = list[i]
         /\ \A i \in 1..Len(list) + 1 : i \in 1..Len(list) \/ i = Len(list) + 1
<1>1. PICK q : q = Append(list, r)
  OBVIOUS
<1>2. /\ q \in Seq(Row) /\ Len(q) = Len(list) + 1 /\ q[Len(list) + 1] = r /\ \A i \in 1..Len(list) : q[i] = list[i]
      /\ Len(list) \in Nat /\ DOMAIN list = 1..Len(list)
  BY <1>1, AppendProperties, LenProperties
<1>3. DOMAIN q = 1..Len(list) + 1
  BY <1>2, LenProperties
<1> QED
  BY <1>1, <1>2, <1>3

\* Where an entry is.
Held(list, x) == {i \in DOMAIN list : list[i] = x}

LEMMA TimesCounts ==
  ASSUME NEW list \in Seq(Row), NEW x
  PROVE  /\ IsFiniteSet(Held(list, x)) /\ Times(list, x) \in Nat
         /\ (\E i \in DOMAIN list : list[i] = x) => Times(list, x) >= 1
         /\ (\A i \in DOMAIN list : list[i] # x) => Times(list, x) = 0
<1>1. Len(list) \in Nat /\ DOMAIN list = 1..Len(list)
  BY LenProperties
<1>2. PICK S : S = Held(list, x)
  OBVIOUS
<1>3. IsFiniteSet(1..Len(list)) /\ S \subseteq 1..Len(list)
  BY <1>1, <1>2, FS_Interval DEF Held
<1>4. IsFiniteSet(S)
  BY <1>3, FS_Subset
<1>5. Cardinality(S) \in Nat /\ (Cardinality(S) = 0 <=> S = {}) /\ Times(list, x) = Cardinality(S)
  BY <1>2, <1>4, FS_CardinalityType, FS_EmptySet DEF Times, Held
<1> QED
  BY <1>2, <1>4, <1>5 DEF Held

LEMMA TimesMore ==
  ASSUME NEW list \in Seq(Row), NEW r \in Row, NEW x
  PROVE  Times(Append(list, r), x) = Times(list, x) + (IF x = r THEN 1 ELSE 0)
<1>1. PICK q, n : q = Append(list, r) /\ n = Len(list)
  OBVIOUS
<1>2. /\ n \in Nat /\ DOMAIN list = 1..n /\ DOMAIN q = 1..n + 1 /\ q[n + 1] = r
      /\ \A i \in 1..n : q[i] = list[i]
      /\ \A i \in 1..n + 1 : i \in 1..n \/ i = n + 1
  BY <1>1, ListGrows
<1>3. PICK S, T : S = Held(list, x) /\ T = Held(q, x)
  OBVIOUS
<1>4. n + 1 \notin S /\ IsFiniteSet(S) /\ Cardinality(S) \in Nat
  <2>1. n + 1 \notin 1..n
    BY <1>2
  <2>2. IsFiniteSet(S)
    BY <1>3, TimesCounts
  <2> QED
    BY <1>2, <1>3, <2>1, <2>2, FS_CardinalityType DEF Held
<1>5. T = IF x = r THEN S \union {n + 1} ELSE S
  <2>1. ASSUME NEW i \in T PROVE i \in S \/ (i = n + 1 /\ x = r)
    BY <1>2, <1>3 DEF Held
  <2>2. \A i \in S : i \in T
    <3>1. \A i \in 1..n : i \in 1..n + 1
      BY <1>2
    <3> QED
      BY <1>2, <1>3, <3>1 DEF Held
  <2>3. x = r => n + 1 \in T
    <3>1. n + 1 \in 1..n + 1
      BY <1>2
    <3> QED
      BY <1>2, <1>3, <3>1 DEF Held
  <2>4. n + 1 \in T => x = r
    BY <1>2, <1>3 DEF Held
  <2> QED
    BY <1>4, <2>1, <2>2, <2>3, <2>4
<1>6. Times(list, x) = Cardinality(S) /\ Times(q, x) = Cardinality(T)
  BY <1>3 DEF Times, Held
<1>7. Cardinality(S \union {n + 1}) = Cardinality(S) + 1
  BY <1>4, FS_AddElement
<1> QED
  BY <1>1, <1>4, <1>5, <1>6, <1>7

LEMMA CountMore ==
  ASSUME NEW list \in Seq(Row), NEW r \in Row
  PROVE  Count(Append(list, r)) = Plus1(Count(list), r)
<1>1. PICK q, n : q = Append(list, r) /\ n = Len(list)
  OBVIOUS
<1>2. /\ n \in Nat /\ DOMAIN list = 1..n /\ DOMAIN q = 1..n + 1 /\ q[n + 1] = r
      /\ \A i \in 1..n : q[i] = list[i]
      /\ \A i \in 1..n + 1 : i \in 1..n \/ i = n + 1
  BY <1>1, ListGrows
<1>3. PICK S, T : S = ToSet(list) /\ T = ToSet(q)
  OBVIOUS
<1>4. T = S \union {r}
  <2>1. ASSUME NEW x \in T PROVE x \in S \union {r}
    BY <1>2, <1>3 DEF ToSet
  <2>2. \A x \in S : x \in T
    <3>1. \A i \in 1..n : i \in 1..n + 1
      BY <1>2
    <3> QED
      BY <1>2, <1>3, <3>1 DEF ToSet
  <2>3. r \in T
    <3>1. n + 1 \in 1..n + 1
      BY <1>2
    <3> QED
      BY <1>2, <1>3, <3>1 DEF ToSet
  <2> QED
    BY <2>1, <2>2, <2>3
<1>5. ASSUME NEW x \in T
      PROVE  Times(q, x) = (IF x \in S THEN Times(list, x) ELSE 0) + (IF x = r THEN 1 ELSE 0)
  <2>1. Times(q, x) = Times(list, x) + (IF x = r THEN 1 ELSE 0)
    BY <1>1, TimesMore
  <2>2. x \notin S => Times(list, x) = 0
    BY <1>3, TimesCounts DEF ToSet
  <2> QED
    BY <2>1, <2>2
<1>6. Count(list) = [x \in S |-> Times(list, x)] /\ Count(q) = [x \in T |-> Times(q, x)]
  BY <1>3 DEF Count
<1>7. PICK bag : bag = Count(list)
  OBVIOUS
<1>8. Plus1(bag, r) = [x \in T |-> (IF x \in S THEN bag[x] ELSE 0) + (IF x = r THEN 1 ELSE 0)]
  BY <1>4, <1>6, <1>7 DEF Plus1
<1>9. \A x \in S : bag[x] = Times(list, x)
  BY <1>6, <1>7
<1> QED
  BY <1>1, <1>5, <1>6, <1>7, <1>8, <1>9

-----------------------------------------------------------------------------
(* An entry less. *)

\* Where an entry was before another was taken out.
Was(i, n) == IF n < i THEN n ELSE n + 1

Shrinks(list, i, q, n) ==
  /\ n \in Nat /\ DOMAIN list = 1..n /\ i \in 1..n
  /\ q \in Seq(Row) /\ Len(q) = n - 1 /\ DOMAIN q = 1..n - 1
  /\ \A p \in 1..n - 1 : Was(i, p) \in 1..n /\ Was(i, p) # i /\ q[p] = list[Was(i, p)]
  /\ \A p \in 1..n : p # i => \E o \in 1..n - 1 : Was(i, o) = p /\ q[o] = list[p]
  /\ \A o, p \in 1..n - 1 : (Was(i, o) = Was(i, p) => o = p) /\ (Was(i, o) <= Was(i, p) => o <= p)

LEMMA ListShrinks ==
  ASSUME NEW list \in Seq(Row), NEW i \in DOMAIN list
  PROVE  Shrinks(list, i, RemoveAt(list, i), Len(list))
<1> DEFINE q == RemoveAt(list, i)
           n == Len(list)
<1>1. n \in Nat /\ DOMAIN list = 1..n /\ i \in 1..n
  BY LenProperties
<1>2. /\ q \in Seq(Row) /\ Len(q) = n - 1
      /\ \A p \in 1..n - 1 : q[p] = IF p < i THEN list[p] ELSE list[p + 1]
  BY <1>1, RemoveAtProperties
<1> HIDE DEF q, n
<1>3. DOMAIN q = 1..n - 1
  BY <1>2, LenProperties
<1>4. ASSUME NEW p \in 1..n - 1 PROVE Was(i, p) \in 1..n /\ Was(i, p) # i /\ q[p] = list[Was(i, p)]
  BY <1>1, <1>2 DEF Was
<1>5. ASSUME NEW p \in 1..n, p # i PROVE \E o \in 1..n - 1 : Was(i, o) = p /\ q[o] = list[p]
  <2>1. CASE p < i
    <3>1. p \in 1..n - 1 /\ Was(i, p) = p
      BY <1>1, <2>1 DEF Was
    <3> QED
      BY <1>4, <3>1
  <2>2. CASE p > i
    <3>1. p - 1 \in 1..n - 1 /\ Was(i, p - 1) = p
      BY <1>1, <2>2 DEF Was
    <3> QED
      BY <1>4, <3>1
  <2> QED
    BY <1>1, <1>5, <2>1, <2>2
<1>6. ASSUME NEW o \in 1..n - 1, NEW p \in 1..n - 1
      PROVE  (Was(i, o) = Was(i, p) => o = p) /\ (Was(i, o) <= Was(i, p) => o <= p)
  BY <1>1 DEF Was
<1> QED
  BY <1>1, <1>2, <1>3, <1>4, <1>5, <1>6, Zenon DEF Shrinks, q, n

LEMMA TimesLess ==
  ASSUME NEW list \in Seq(Row), NEW i \in DOMAIN list, NEW x
  PROVE  Times(RemoveAt(list, i), x) = Times(list, x) - (IF x = list[i] THEN 1 ELSE 0)
<1>1. PICK q, n : q = RemoveAt(list, i) /\ n = Len(list)
  OBVIOUS
<1>2. Shrinks(list, i, q, n)
  BY <1>1, ListShrinks
<1>3. PICK S, T : S = Held(list, x) /\ T = Held(q, x)
  OBVIOUS
<1>4. IsFiniteSet(S) /\ IsFiniteSet(T) /\ Cardinality(S) \in Nat
  <2>1. IsFiniteSet(Held(list, x))
    BY TimesCounts
  <2>2. IsFiniteSet(Held(q, x))
    BY <1>2, TimesCounts DEF Shrinks
  <2> QED
    BY <1>3, <2>1, <2>2, FS_CardinalityType
<1>5. PICK f : f = [p \in T |-> Was(i, p)]
  OBVIOUS
<1>6. f \in Bijection(T, S \ {i})
  <2>1. f \in [T -> S \ {i}]
    BY <1>2, <1>3, <1>5 DEF Shrinks, Held
  <2>2. \A o, p \in T : f[o] = f[p] => o = p
    BY <1>2, <1>3, <1>5 DEF Shrinks, Held
  <2>3. ASSUME NEW s \in S \ {i} PROVE \E p \in T : f[p] = s
    <3>1. s \in 1..n /\ s # i /\ list[s] = x
      BY <1>2, <1>3 DEF Shrinks, Held
    <3>2. PICK p \in 1..n - 1 : Was(i, p) = s /\ q[p] = list[s]
      BY <1>2, <3>1 DEF Shrinks
    <3>3. p \in T
      BY <1>2, <1>3, <3>1, <3>2 DEF Shrinks, Held
    <3> QED
      BY <1>5, <3>2, <3>3
  <2> QED
    BY <2>1, <2>2, <2>3 DEF Bijection, Injection, Surjection, IsInjective
<1>7. Cardinality(S \ {i}) = Cardinality(T)
  BY <1>4, <1>6, FS_Bijection DEF ExistsBijection
<1>8. Cardinality(S \ {i}) = IF i \in S THEN Cardinality(S) - 1 ELSE Cardinality(S)
  BY <1>4, FS_RemoveElement
<1>9. i \in S <=> x = list[i]
  BY <1>2, <1>3 DEF Shrinks, Held
<1>10. Times(list, x) = Cardinality(S) /\ Times(q, x) = Cardinality(T)
  BY <1>3 DEF Times, Held
<1> QED
  BY <1>1, <1>4, <1>7, <1>8, <1>9, <1>10

LEMMA CountLess ==
  ASSUME NEW list \in Seq(Row), NEW i \in DOMAIN list
  PROVE  Count(RemoveAt(list, i)) = Minus1(Count(list), list[i])
<1>1. PICK q, n, r : q = RemoveAt(list, i) /\ n = Len(list) /\ r = list[i]
  OBVIOUS
<1>2. q \in Seq(Row)
  BY <1>1, ListShrinks DEF Shrinks
<1>3. PICK S, T : S = ToSet(list) /\ T = ToSet(q)
  OBVIOUS
<1>4. \A x : Times(q, x) = Times(list, x) - (IF x = r THEN 1 ELSE 0)
  BY <1>1, TimesLess
<1>5. \A x : Times(list, x) \in Nat /\ (x \in S <=> Times(list, x) >= 1)
  <2>1. ASSUME NEW x PROVE Times(list, x) \in Nat /\ (x \in S <=> Times(list, x) >= 1)
    <3>1. Times(list, x) \in Nat
          /\ ((\E p \in DOMAIN list : list[p] = x) => Times(list, x) >= 1)
          /\ ((\A p \in DOMAIN list : list[p] # x) => Times(list, x) = 0)
      BY TimesCounts
    <3>2. x \in S <=> \E p \in DOMAIN list : list[p] = x
      BY <1>3 DEF ToSet
    <3> QED
      BY <3>1, <3>2
  <2> QED
    BY <2>1
<1>6. \A x : x \in T <=> Times(q, x) >= 1
  <2>1. ASSUME NEW x PROVE x \in T <=> Times(q, x) >= 1
    <3>1. Times(q, x) \in Nat
          /\ ((\E p \in DOMAIN q : q[p] = x) => Times(q, x) >= 1)
          /\ ((\A p \in DOMAIN q : q[p] # x) => Times(q, x) = 0)
      BY <1>2, TimesCounts
    <3>2. x \in T <=> \E p \in DOMAIN q : q[p] = x
      BY <1>3 DEF ToSet
    <3> QED
      BY <3>1, <3>2
  <2> QED
    BY <2>1
<1>7. PICK bag : bag = [x \in S |-> Times(list, x)]
  OBVIOUS
<1>8. Count(list) = bag /\ Count(q) = [x \in T |-> Times(q, x)]
  BY <1>3, <1>7 DEF Count
<1>9. DOMAIN bag = S /\ \A x \in S : bag[x] = Times(list, x)
  BY <1>7
<1>10. {y \in DOMAIN bag : y # r \/ bag[y] > 1} = T
  <2>1. ASSUME NEW x PROVE (x \in S /\ (x # r \/ bag[x] > 1)) <=> x \in T
    <3>1. CASE x \in S
      <4>1. bag[x] = Times(list, x) /\ Times(list, x) \in Nat /\ Times(list, x) >= 1
        BY <1>5, <1>9, <3>1
      <4>2. Times(q, x) = Times(list, x) - (IF x = r THEN 1 ELSE 0)
        BY <1>4
      <4> QED
        BY <1>6, <3>1, <4>1, <4>2
    <3>2. CASE x \notin S
      <4>1. Times(list, x) \in Nat /\ ~(Times(list, x) >= 1)
        BY <1>5, <3>2
      <4>2. Times(q, x) = Times(list, x) - (IF x = r THEN 1 ELSE 0)
        BY <1>4
      <4> QED
        BY <1>6, <3>2, <4>1, <4>2
    <3> QED
      BY <3>1, <3>2
  <2> QED
    BY <1>9, <2>1
<1>11. \A x \in T : x \in S /\ Times(q, x) = IF x = r THEN bag[x] - 1 ELSE bag[x]
  <2>1. ASSUME NEW x \in T PROVE x \in S /\ Times(q, x) = IF x = r THEN bag[x] - 1 ELSE bag[x]
    <3>1. x \in S
      BY <1>9, <1>10
    <3>2. Times(list, x) \in Nat /\ bag[x] = Times(list, x)
      BY <1>5, <1>9, <3>1
    <3>3. Times(q, x) = Times(list, x) - (IF x = r THEN 1 ELSE 0)
      BY <1>4
    <3> QED
      BY <3>1, <3>2, <3>3
  <2> QED
    BY <2>1
<1>12. Minus1(bag, r) = [x \in T |-> IF x = r THEN bag[x] - 1 ELSE bag[x]]
  BY <1>10 DEF Minus1
<1> QED
  BY <1>1, <1>8, <1>11, <1>12

-----------------------------------------------------------------------------
(* The rows that a list makes, for each engine. *)

Keys(list) == {r.key : r \in ToSet(list)} \ {Keyless}
BlankRow(v) == [key |-> Keyless, value |-> v]
Late(e) == e \in {"cassandra", "dynamodb"}
Counting(e, list, k) == list[IF Late(e) THEN Max(PlacesOf(list, k)) ELSE Min(PlacesOf(list, k))].value
RowsOf(e, list) ==
  [keyed |-> [k \in Keys(list) |-> Counting(e, list, k)], blank |-> [v \in RowValue |-> Times(list, BlankRow(v))]]

LEMMA CountingIs ==
  ASSUME NEW list, NEW k
  PROVE  Counting(engine, list, k) = list[Lasts(list, k)].value /\ Lasting(list, k) = list[Lasts(list, k)].value
BY DEF Counting, Lasts, Lasting, Late, Upserts

LEMMA KeysAre ==
  ASSUME NEW list, NEW k
  PROVE  k \in Keys(list) <=> k # Keyless /\ PlacesOf(list, k) # {}
BY DEF Keys, PlacesOf, ToSet

LEMMA RowsOfAre ==
  ASSUME NEW e, NEW list \in Seq(Row)
  PROVE  /\ DOMAIN RowsOf(e, list).keyed = Keys(list)
         /\ \A k \in Keys(list) : RowsOf(e, list).keyed[k] = Counting(e, list, k)
         /\ \A v \in RowValue : RowsOf(e, list).blank[v] = Times(list, BlankRow(v))
         /\ \A v \in RowValue : Times(list, BlankRow(v)) \in Nat
         /\ RowsOf(e, list).blank = [v \in RowValue |-> Times(list, BlankRow(v))]
<1>1. \A v \in RowValue : Times(list, BlankRow(v)) \in Nat
  BY TimesCounts
<1> QED
  BY <1>1 DEF RowsOf

\* Into an empty database.
LEMMA ReplayedIs ==
  ASSUME NEW list \in Seq(Row)
  PROVE  Replayed(NoRows, list) = RowsOf(engine, list)
<1>1. \A k \in Keys(list) : Lasting(list, k) = Counting(engine, list, k)
  BY CountingIs
<1>2. \A v \in RowValue : Times(list, BlankRow(v)) \in Nat
  BY TimesCounts
<1>3. DOMAIN NoRows.keyed = {} /\ \A v \in RowValue : NoRows.blank[v] = 0
  BY DEF NoRows
<1>4. Replayed(NoRows, list) =
        [keyed |-> [k \in {} \union Keys(list) |->
                      IF k \in Keys(list) /\ (Upserts \/ k \notin {}) THEN Lasting(list, k) ELSE NoRows.keyed[k]],
         blank |-> [v \in RowValue |-> NoRows.blank[v] + Times(list, BlankRow(v))]]
  BY <1>3 DEF Replayed, Keys, BlankRow
<1>5. [k \in {} \union Keys(list) |->
         IF k \in Keys(list) /\ (Upserts \/ k \notin {}) THEN Lasting(list, k) ELSE NoRows.keyed[k]]
      = [k \in Keys(list) |-> Counting(engine, list, k)]
  <2>1. {} \union Keys(list) = Keys(list)
    OBVIOUS
  <2> QED
    BY <1>1, <2>1
<1>6. [v \in RowValue |-> NoRows.blank[v] + Times(list, BlankRow(v))] = [v \in RowValue |-> Times(list, BlankRow(v))]
  BY <1>2, <1>3
<1> QED
  BY <1>4, <1>5, <1>6 DEF RowsOf

LEMMA NothingMakesNone ==
  RowsOf(engine, <<>>) = NoRows /\ <<>> \in Seq(Row)
<1>1. <<>> \in Seq(Row) /\ ToSet(<<>>) = {}
  BY DEF ToSet
<1>2. Keys(<<>>) = {}
  BY <1>1 DEF Keys
<1>3. \A v \in RowValue : Times(<<>>, BlankRow(v)) = 0
  <2>1. PICK none : none = <<>>
    OBVIOUS
  <2>2. none \in Seq(Row) /\ DOMAIN none = {}
    BY <1>1, <2>1
  <2>3. ASSUME NEW v \in RowValue PROVE Times(none, BlankRow(v)) = 0
    BY <2>2, TimesCounts
  <2> QED
    BY <2>1, <2>3
<1>4. [k \in Keys(<<>>) |-> Counting(engine, <<>>, k)] = <<>>
  <2>1. [k \in Keys(<<>>) |-> Counting(engine, <<>>, k)] = [k \in 1..0 |-> 0]
    BY <1>2
  <2>2. <<>> = [k \in 1..0 |-> 0]
    OBVIOUS
  <2> QED
    BY <2>1, <2>2
<1>5. [v \in RowValue |-> Times(<<>>, BlankRow(v))] = [v \in RowValue |-> 0]
  BY <1>3
<1> QED
  BY <1>1, <1>4, <1>5 DEF RowsOf, NoRows

\* Once more, when none of the entries leaves its key to the database.
LEMMA ReplayedAgain ==
  ASSUME NEW list \in Seq(Row), \A r \in ToSet(list) : r.key # Keyless
  PROVE  Replayed(RowsOf(engine, list), list) = RowsOf(engine, list)
<1>1. PICK L : L = RowsOf(engine, list)
  OBVIOUS
<1>2. /\ DOMAIN L.keyed = Keys(list)
      /\ \A k \in Keys(list) : L.keyed[k] = Counting(engine, list, k)
      /\ \A v \in RowValue : L.blank[v] = Times(list, BlankRow(v))
  BY <1>1, RowsOfAre
<1>3. \A v \in RowValue : Times(list, BlankRow(v)) = 0
  <2>1. ASSUME NEW v \in RowValue PROVE Times(list, BlankRow(v)) = 0
    <3>1. \A i \in DOMAIN list : list[i] # BlankRow(v)
      BY DEF ToSet, BlankRow
    <3> QED
      BY <3>1, TimesCounts
  <2> QED
    BY <2>1
<1>4. Replayed(L, list) =
        [keyed |-> [k \in DOMAIN L.keyed \union Keys(list) |->
                      IF k \in Keys(list) /\ (Upserts \/ k \notin DOMAIN L.keyed) THEN Lasting(list, k) ELSE L.keyed[k]],
         blank |-> [v \in RowValue |-> L.blank[v] + Times(list, BlankRow(v))]]
  BY DEF Replayed, Keys, BlankRow
<1>5. [k \in DOMAIN L.keyed \union Keys(list) |->
         IF k \in Keys(list) /\ (Upserts \/ k \notin DOMAIN L.keyed) THEN Lasting(list, k) ELSE L.keyed[k]]
      = [k \in Keys(list) |-> Counting(engine, list, k)]
  <2>1. DOMAIN L.keyed \union Keys(list) = Keys(list)
    BY <1>2
  <2>2. \A k \in Keys(list) : Lasting(list, k) = Counting(engine, list, k)
    BY CountingIs
  <2> QED
    BY <1>2, <2>1, <2>2
<1>6. [v \in RowValue |-> L.blank[v] + Times(list, BlankRow(v))] = [v \in RowValue |-> Times(list, BlankRow(v))]
  BY <1>2, <1>3
<1> QED
  BY <1>1, <1>4, <1>5, <1>6 DEF RowsOf

\* What counts for a key when an entry comes last.
LEMMA CountingMore ==
  ASSUME NEW list \in Seq(Row), NEW r \in Row, NEW k
  PROVE  Counting(engine, Append(list, r), k) =
           IF k = r.key /\ (Upserts \/ PlacesOf(list, k) = {}) THEN r.value
           ELSE IF PlacesOf(list, k) # {} THEN Counting(engine, list, k) ELSE Counting(engine, Append(list, r), k)
<1>1. PICK q, n : q = Append(list, r) /\ n = Len(list)
  OBVIOUS
<1>2. /\ q \in Seq(Row) /\ n \in Nat /\ DOMAIN list = 1..n /\ DOMAIN q = 1..n + 1 /\ q[n + 1] = r
      /\ \A i \in 1..n : q[i] = list[i]
      /\ \A i \in 1..n + 1 : i \in 1..n \/ i = n + 1
      /\ \A i \in 1..n : i \in 1..n + 1 /\ i <= n + 1 /\ i # n + 1
      /\ n + 1 \in 1..n + 1
  BY <1>1, ListGrows
<1>3. \A i : i \in PlacesOf(q, k) <=> (i \in PlacesOf(list, k) \/ (i = n + 1 /\ k = r.key))
  BY <1>2 DEF PlacesOf
<1>4. \A i \in PlacesOf(list, k) : i \in 1..n /\ i <= n + 1
  BY <1>2 DEF PlacesOf
<1>5. ASSUME NEW p \in PlacesOf(q, k), \A i \in PlacesOf(q, k) : IF Upserts THEN i <= p ELSE p <= i
      PROVE  Counting(engine, q, k) = q[p].value
  <2>1. Lasts(q, k) = p
    BY <1>2, <1>5, LastsOnly
  <2> QED
    BY <2>1, CountingIs
<1>6. CASE k = r.key /\ (Upserts \/ PlacesOf(list, k) = {})
  <2>1. n + 1 \in PlacesOf(q, k)
    BY <1>3, <1>6
  <2>2. \A i \in PlacesOf(q, k) : IF Upserts THEN i <= n + 1 ELSE n + 1 <= i
    BY <1>2, <1>3, <1>4, <1>6
  <2>3. Counting(engine, q, k) = q[n + 1].value
    BY <1>5, <2>1, <2>2
  <2> QED
    BY <1>1, <1>2, <1>6, <2>3
<1>7. CASE ~(k = r.key /\ (Upserts \/ PlacesOf(list, k) = {})) /\ PlacesOf(list, k) # {}
  <2>1. PICK p : p = Lasts(list, k)
    OBVIOUS
  <2>2. p \in PlacesOf(list, k) /\ p \in 1..n
        /\ \A i \in PlacesOf(list, k) : IF Upserts THEN i <= p ELSE p <= i
    <3>1. /\ p \in 1..Len(list) /\ list[p].key = k
          /\ \A i \in PlacesOf(list, k) : IF Upserts THEN i <= p ELSE p <= i
      BY <1>7, <2>1, LastsIs
    <3> QED
      BY <1>1, <1>2, <3>1 DEF PlacesOf
  <2>3. p \in PlacesOf(q, k)
    BY <1>3, <2>2
  <2>4. \A i \in PlacesOf(q, k) : IF Upserts THEN i <= p ELSE p <= i
    BY <1>2, <1>3, <1>7, <2>2
  <2>5. Counting(engine, q, k) = q[p].value
    BY <1>5, <2>3, <2>4
  <2>6. Counting(engine, list, k) = list[p].value
    BY <2>1, CountingIs
  <2> QED
    BY <1>1, <1>2, <1>7, <2>2, <2>5, <2>6
<1> QED
  BY <1>1, <1>6, <1>7

\* The database follows: it inserts what comes to the list.
LEMMA InsertedIs ==
  ASSUME NEW list \in Seq(Row), NEW r \in Row
  PROVE  Insert(RowsOf(engine, list), r) = RowsOf(engine, Append(list, r))
<1>1. PICK q, L : q = Append(list, r) /\ L = RowsOf(engine, list)
  OBVIOUS
<1>2. q \in Seq(Row)
  BY <1>1, ListGrows
<1>3. /\ DOMAIN L.keyed = Keys(list)
      /\ \A k \in Keys(list) : L.keyed[k] = Counting(engine, list, k)
      /\ \A v \in RowValue : L.blank[v] = Times(list, BlankRow(v)) /\ Times(list, BlankRow(v)) \in Nat
      /\ L.blank = [v \in RowValue |-> Times(list, BlankRow(v))]
  BY <1>1, RowsOfAre
<1>4. L = [keyed |-> L.keyed, blank |-> L.blank] /\ L.keyed = [k \in Keys(list) |-> Counting(engine, list, k)]
  BY <1>1 DEF RowsOf
<1>5. \A x : Times(q, x) = Times(list, x) + (IF x = r THEN 1 ELSE 0)
  BY <1>1, TimesMore
<1>6. r.value \in RowValue /\ \A v : BlankRow(v) = r <=> (r.key = Keyless /\ v = r.value)
  <2>1. r = [key |-> r.key, value |-> r.value]
    BY DEF Row
  <2> QED
    BY <2>1 DEF Row, BlankRow
<1>7. \A k : k \in Keys(q) <=> k \in Keys(list) \/ (k = r.key /\ k # Keyless)
  <2>1. ToSet(q) = ToSet(list) \union {r}
    <3>1. /\ Len(list) \in Nat /\ DOMAIN list = 1..Len(list)
          /\ DOMAIN q = 1..Len(list) + 1 /\ q[Len(list) + 1] = r
          /\ \A i \in 1..Len(list) : q[i] = list[i]
          /\ \A i \in 1..Len(list) + 1 : i \in 1..Len(list) \/ i = Len(list) + 1
      BY <1>1, ListGrows
    <3>2. (\A i \in 1..Len(list) : i \in 1..Len(list) + 1) /\ Len(list) + 1 \in 1..Len(list) + 1
      BY <3>1
    <3> QED
      BY <3>1, <3>2 DEF ToSet
  <2> QED
    BY <2>1 DEF Keys
<1>8. \A k : Counting(engine, q, k) =
               IF k = r.key /\ (Upserts \/ PlacesOf(list, k) = {}) THEN r.value
               ELSE IF PlacesOf(list, k) # {} THEN Counting(engine, list, k) ELSE Counting(engine, q, k)
  BY <1>1, CountingMore
<1>9. CASE r.key = Keyless
  <2>1. Keys(q) = Keys(list)
    BY <1>7, <1>9
  <2>2. \A k \in Keys(list) : Counting(engine, q, k) = Counting(engine, list, k)
    BY <1>8, <1>9, KeysAre
  <2>3. [k \in Keys(q) |-> Counting(engine, q, k)] = L.keyed
    BY <1>4, <2>1, <2>2
  <2>4. [L.blank EXCEPT ![r.value] = L.blank[r.value] + 1] = [v \in RowValue |-> Times(q, BlankRow(v))]
    BY <1>3, <1>5, <1>6, <1>9
  <2>5. Insert(L, r) = [keyed |-> L.keyed, blank |-> [L.blank EXCEPT ![r.value] = L.blank[r.value] + 1]]
    BY <1>4, <1>9 DEF Insert
  <2> QED
    BY <1>1, <2>3, <2>4, <2>5 DEF RowsOf
<1>10. CASE r.key # Keyless
  <2>1. [v \in RowValue |-> Times(q, BlankRow(v))] = L.blank
    BY <1>3, <1>5, <1>6, <1>10
  <2>2. CASE r.key \in Keys(list) /\ ~Upserts
    <3>1. Keys(q) = Keys(list)
      <4>1. \A k : k \in Keys(q) <=> k \in Keys(list)
        BY <1>7, <2>2
      <4>2. PICK A, B : A = Keys(q) /\ B = Keys(list)
        OBVIOUS
      <4> QED
        BY <4>1, <4>2
    <3>2. \A k \in Keys(list) : Counting(engine, q, k) = Counting(engine, list, k)
      BY <1>8, <2>2, KeysAre
    <3>3. [k \in Keys(q) |-> Counting(engine, q, k)] = L.keyed
      BY <1>4, <3>1, <3>2
    <3>4. Insert(L, r) = L
      BY <1>3, <1>10, <2>2 DEF Insert
    <3> QED
      BY <1>1, <1>4, <2>1, <3>3, <3>4 DEF RowsOf
  <2>3. CASE ~(r.key \in Keys(list) /\ ~Upserts)
    <3>1. Keys(q) = Keys(list) \union {r.key}
      BY <1>7, <1>10
    <3>2. ASSUME NEW k \in Keys(q)
          PROVE  Counting(engine, q, k) = IF k = r.key THEN r.value ELSE L.keyed[k]
      <4>1. CASE k = r.key
        <5>1. Upserts \/ PlacesOf(list, k) = {}
          BY <1>10, <2>3, <4>1, KeysAre
        <5> QED
          BY <1>8, <4>1, <5>1
      <4>2. CASE k # r.key
        <5>1. k \in Keys(list) /\ PlacesOf(list, k) # {}
          BY <3>1, <4>2, KeysAre
        <5> QED
          BY <1>3, <1>8, <4>2, <5>1
      <4> QED
        BY <4>1, <4>2
    <3>3. [k \in DOMAIN L.keyed \union {r.key} |-> IF k = r.key THEN r.value ELSE L.keyed[k]]
          = [k \in Keys(q) |-> Counting(engine, q, k)]
      BY <1>3, <3>1, <3>2
    <3>4. Insert(L, r) = With(L, r)
      BY <1>3, <1>10, <2>3 DEF Insert
    <3>5. With(L, r) = [keyed |-> [k \in DOMAIN L.keyed \union {r.key} |-> IF k = r.key THEN r.value ELSE L.keyed[k]],
                        blank |-> L.blank]
      <4>1. PICK K, B : K = L.keyed /\ B = L.blank
        OBVIOUS
      <4>2. L = [keyed |-> K, blank |-> B]
        BY <1>4, <4>1
      <4>3. With(L, r) = [keyed |-> [k \in DOMAIN K \union {r.key} |-> IF k = r.key THEN r.value ELSE K[k]],
                          blank |-> B]
        BY <4>2 DEF With
      <4> QED
        BY <4>1, <4>3
    <3> QED
      BY <1>1, <2>1, <3>3, <3>4, <3>5 DEF RowsOf
  <2> QED
    BY <2>2, <2>3
<1> QED
  BY <1>9, <1>10

-----------------------------------------------------------------------------
(* Entries that are inserted again, one after the other. *)

First(list, n) == SubSeq(list, 1, n)

LEMMA FirstOnes ==
  ASSUME NEW list \in Seq(Row)
  PROVE  /\ First(list, 0) = <<>> /\ First(list, Len(list)) = list
         /\ \A n \in 0..Len(list) : First(list, n) \in Seq(Row)
         /\ \A n \in 0..Len(list) - 1 :
              list[n + 1] \in Row /\ list[n + 1] \in ToSet(list) /\ First(list, n + 1) = Append(First(list, n), list[n + 1])
<1>1. PICK z : z = Len(list)
  OBVIOUS
<1>2. z \in Nat /\ DOMAIN list = 1..z /\ \A i \in 1..z : list[i] \in Row
  BY <1>1
<1>3. First(list, 0) = <<>>
  BY <1>2 DEF First
<1>4. First(list, Len(list)) = list
  BY <1>1, <1>2 DEF First
<1>5. ASSUME NEW n \in 0..z
      PROVE  First(list, n) \in Seq(Row) /\ Len(First(list, n)) = n /\ \A i \in 1..n : First(list, n)[i] = list[i]
  <2>1. \A i \in 1..n : i \in 1..z
    BY <1>2, <1>5
  <2> QED
    BY <1>1, <1>2, <1>5, <2>1 DEF First
<1>6. ASSUME NEW n \in 0..z - 1
      PROVE  list[n + 1] \in Row /\ list[n + 1] \in ToSet(list) /\ First(list, n + 1) = Append(First(list, n), list[n + 1])
  <2>1. n \in Nat /\ n \in 0..z /\ n + 1 \in 0..z /\ n + 1 \in 1..z
    BY <1>2, <1>6
  <2>2. list[n + 1] \in Row /\ list[n + 1] \in ToSet(list)
    BY <1>2, <2>1 DEF ToSet
  <2>3. PICK p, q, r : p = First(list, n) /\ q = First(list, n + 1) /\ r = list[n + 1]
    OBVIOUS
  <2>4. /\ p \in Seq(Row) /\ Len(p) = n /\ \A i \in 1..n : p[i] = list[i]
        /\ q \in Seq(Row) /\ Len(q) = n + 1 /\ \A i \in 1..n + 1 : q[i] = list[i]
    BY <1>5, <2>1, <2>3
  <2>5. Append(p, r) \in Seq(Row) /\ Len(Append(p, r)) = n + 1
        /\ \A i \in 1..n + 1 : Append(p, r)[i] = IF i = n + 1 THEN r ELSE p[i]
    BY <2>1, <2>2, <2>3, <2>4
  <2>6. \A i \in 1..n + 1 : Append(p, r)[i] = q[i]
    BY <2>1, <2>3, <2>4, <2>5
  <2> QED
    BY <2>2, <2>3, <2>4, <2>5, <2>6
<1> QED
  BY <1>1, <1>3, <1>4, <1>5, <1>6

\* The rows of a list after its first n entries have been inserted again: rows that are overwritten
\* are back at what those entries say.
Between(e, list, n) ==
  [keyed |-> [k \in Keys(list) |-> IF Late(e) /\ k \in Keys(First(list, n)) THEN Counting(e, First(list, n), k)
                                   ELSE Counting(e, list, k)],
   blank |-> [v \in RowValue |-> Times(list, BlankRow(v))]]

LEMMA BetweenEnds ==
  ASSUME NEW list \in Seq(Row), NEW e
  PROVE  /\ Between(e, list, 0) = RowsOf(e, list) /\ Between(e, list, Len(list)) = RowsOf(e, list)
         /\ ~Late(e) => \A n : Between(e, list, n) = RowsOf(e, list)
<1>1. First(list, 0) = <<>> /\ First(list, Len(list)) = list
  BY FirstOnes
<1>2. Keys(<<>>) = {}
  BY DEF Keys, ToSet
<1>3. Between(e, list, 0) = RowsOf(e, list)
  BY <1>1, <1>2 DEF Between, RowsOf
<1>4. Between(e, list, Len(list)) = RowsOf(e, list)
  BY <1>1 DEF Between, RowsOf
<1>5. ~Late(e) => \A n : Between(e, list, n) = RowsOf(e, list)
  BY DEF Between, RowsOf
<1> QED
  BY <1>3, <1>4, <1>5

\* The next one leaves its key alone, or at its own value.
LEMMA BetweenGoesOn ==
  ASSUME NEW list \in Seq(Row), NEW n \in 0..Len(list) - 1, list[n + 1].key # Keyless
  PROVE  Insert(Between(engine, list, n), list[n + 1]) = Between(engine, list, n + 1)
<1>1. PICK p, q, r : p = First(list, n) /\ q = First(list, n + 1) /\ r = list[n + 1]
  OBVIOUS
<1>2. /\ p \in Seq(Row) /\ q \in Seq(Row) /\ r \in Row /\ r \in ToSet(list) /\ q = Append(p, r)
  <2>1. n \in 0..Len(list) /\ n + 1 \in 0..Len(list)
    OBVIOUS
  <2> QED
    BY <1>1, <2>1, FirstOnes
<1>3. r.key \in Keys(list) /\ r.key # Keyless
  BY <1>1, <1>2 DEF Keys
<1>4. \A k : k \in Keys(q) <=> k \in Keys(p) \/ k = r.key
  <2>1. ToSet(q) = ToSet(p) \union {r}
    <3>1. /\ Len(p) \in Nat /\ DOMAIN p = 1..Len(p)
          /\ DOMAIN q = 1..Len(p) + 1 /\ q[Len(p) + 1] = r
          /\ \A i \in 1..Len(p) : q[i] = p[i]
          /\ \A i \in 1..Len(p) + 1 : i \in 1..Len(p) \/ i = Len(p) + 1
      BY <1>2, ListGrows
    <3>2. (\A i \in 1..Len(p) : i \in 1..Len(p) + 1) /\ Len(p) + 1 \in 1..Len(p) + 1
      BY <3>1
    <3> QED
      BY <3>1, <3>2 DEF ToSet
  <2> QED
    BY <1>3, <2>1 DEF Keys
<1>5. PICK L, B : L = Between(engine, list, n) /\ B = [v \in RowValue |-> Times(list, BlankRow(v))]
  OBVIOUS
<1>6. PICK K : K = [k \in Keys(list) |-> IF Late(engine) /\ k \in Keys(p) THEN Counting(engine, p, k)
                                         ELSE Counting(engine, list, k)]
  OBVIOUS
<1>7. L = [keyed |-> K, blank |-> B] /\ DOMAIN K = Keys(list) /\ DOMAIN L.keyed = Keys(list)
  BY <1>1, <1>5, <1>6 DEF Between
<1>8. CASE ~Late(engine)
  <2>1. Between(engine, list, n) = RowsOf(engine, list) /\ Between(engine, list, n + 1) = RowsOf(engine, list)
    BY <1>8, BetweenEnds
  <2>2. Insert(L, r) = L
    BY <1>3, <1>7, <1>8 DEF Insert, Upserts, Late
  <2> QED
    BY <1>1, <1>5, <2>1, <2>2
<1>9. CASE Late(engine)
  <2>1. Upserts
    BY <1>9 DEF Upserts, Late
  <2>2. Insert(L, r) = With(L, r)
    BY <1>3, <2>1 DEF Insert
  <2>3. With(L, r) = [keyed |-> [k \in Keys(list) \union {r.key} |-> IF k = r.key THEN r.value ELSE K[k]], blank |-> B]
    BY <1>7 DEF With
  <2>4. ASSUME NEW k \in Keys(list)
        PROVE  (IF k = r.key THEN r.value ELSE K[k])
               = IF k \in Keys(q) THEN Counting(engine, q, k) ELSE Counting(engine, list, k)
    <3>1. Counting(engine, q, k) =
            IF k = r.key /\ (Upserts \/ PlacesOf(p, k) = {}) THEN r.value
            ELSE IF PlacesOf(p, k) # {} THEN Counting(engine, p, k) ELSE Counting(engine, q, k)
      BY <1>2, CountingMore
    <3>2. CASE k = r.key
      BY <1>4, <2>1, <3>1, <3>2
    <3>3. CASE k # r.key /\ k \in Keys(p)
      BY <1>4, <1>6, <1>9, <3>1, <3>3, KeysAre
    <3>4. CASE k # r.key /\ k \notin Keys(p)
      BY <1>4, <1>6, <3>4
    <3> QED
      BY <3>2, <3>3, <3>4
  <2>5. Keys(list) \union {r.key} = Keys(list)
    BY <1>3
  <2>6. Between(engine, list, n + 1)
        = [keyed |-> [k \in Keys(list) |-> IF k \in Keys(q) THEN Counting(engine, q, k) ELSE Counting(engine, list, k)],
           blank |-> B]
    BY <1>1, <1>5, <1>9 DEF Between
  <2> QED
    BY <1>1, <1>5, <2>2, <2>3, <2>4, <2>5, <2>6
<1> QED
  BY <1>8, <1>9

\* Only no entries make no rows.
LEMMA NoneMakeNone ==
  ASSUME NEW list \in Seq(Row), RowsOf(engine, list) = NoRows
  PROVE  list = <<>>
<1> SUFFICES ASSUME list # <<>> PROVE FALSE
  OBVIOUS
<1>1. 1 \in DOMAIN list /\ list[1] \in Row
  OBVIOUS
<1>2. PICK r : r = list[1]
  OBVIOUS
<1>3. r.value \in RowValue /\ r = [key |-> r.key, value |-> r.value]
  BY <1>1, <1>2 DEF Row
<1>4. CASE r.key # Keyless
  <2>1. r.key \in Keys(list)
    BY <1>1, <1>2, <1>4 DEF Keys, ToSet
  <2>2. DOMAIN NoRows.keyed = {}
    BY DEF NoRows
  <2> QED
    BY <2>1, <2>2, RowsOfAre
<1>5. CASE r.key = Keyless
  <2>1. BlankRow(r.value) = r
    BY <1>3, <1>5 DEF BlankRow
  <2>2. Times(list, r) >= 1 /\ Times(list, r) \in Nat
    BY <1>1, <1>2, TimesCounts
  <2>3. NoRows.blank[r.value] = 0
    BY <1>3 DEF NoRows
  <2>4. RowsOf(engine, list).blank[r.value] = Times(list, r)
    <3>1. RowsOf(engine, list).blank[r.value] = Times(list, BlankRow(r.value))
      BY <1>3, RowsOfAre
    <3> QED
      BY <2>1, <3>1
  <2> QED
    BY <2>2, <2>3, <2>4
<1> QED
  BY <1>4, <1>5

\* What counts for a key is not touched when another's entry goes.
LEMMA CountingLess ==
  ASSUME NEW list \in Seq(Row), NEW i \in DOMAIN list, NEW k, k # list[i].key
  PROVE  /\ PlacesOf(RemoveAt(list, i), k) = {} <=> PlacesOf(list, k) = {}
         /\ PlacesOf(list, k) # {} => Counting(engine, RemoveAt(list, i), k) = Counting(engine, list, k)
<1>1. PICK q, n : q = RemoveAt(list, i) /\ n = Len(list)
  OBVIOUS
<1>2. Shrinks(list, i, q, n)
  BY <1>1, ListShrinks
<1>3. \A o \in PlacesOf(q, k) : o \in 1..n - 1 /\ Was(i, o) \in PlacesOf(list, k)
  BY <1>2 DEF Shrinks, PlacesOf
<1>4. ASSUME NEW p \in PlacesOf(list, k) PROVE \E o \in PlacesOf(q, k) : Was(i, o) = p /\ q[o] = list[p]
  <2>1. p \in 1..n /\ p # i /\ list[p].key = k
    BY <1>2 DEF Shrinks, PlacesOf
  <2>2. PICK o \in 1..n - 1 : Was(i, o) = p /\ q[o] = list[p]
    BY <1>2, <2>1 DEF Shrinks
  <2>3. o \in PlacesOf(q, k)
    BY <1>2, <2>1, <2>2 DEF Shrinks, PlacesOf
  <2> QED
    BY <2>2, <2>3
<1>5. PlacesOf(q, k) = {} <=> PlacesOf(list, k) = {}
  BY <1>3, <1>4
<1>6. CASE PlacesOf(list, k) # {}
  <2>1. PICK p : p = Lasts(list, k)
    OBVIOUS
  <2>2. p \in PlacesOf(list, k) /\ \A j \in PlacesOf(list, k) : IF Upserts THEN j <= p ELSE p <= j
    <3>1. /\ p \in 1..Len(list) /\ list[p].key = k
          /\ \A j \in PlacesOf(list, k) : IF Upserts THEN j <= p ELSE p <= j
      BY <1>6, <2>1, LastsIs
    <3> QED
      BY <1>1, <1>2, <3>1 DEF PlacesOf, Shrinks
  <2>3. PICK o \in PlacesOf(q, k) : Was(i, o) = p /\ q[o] = list[p]
    BY <1>4, <2>2
  <2>4. ASSUME NEW j \in PlacesOf(q, k) PROVE IF Upserts THEN j <= o ELSE o <= j
    <3>1. j \in 1..n - 1 /\ o \in 1..n - 1 /\ Was(i, j) \in PlacesOf(list, k)
      BY <1>3
    <3>2. IF Upserts THEN Was(i, j) <= Was(i, o) ELSE Was(i, o) <= Was(i, j)
      BY <2>2, <2>3, <3>1
    <3> QED
      BY <1>2, <3>1, <3>2 DEF Shrinks
  <2>5. Lasts(q, k) = o
    BY <1>2, <2>4, LastsOnly DEF Shrinks
  <2>6. Counting(engine, q, k) = q[o].value /\ Counting(engine, list, k) = list[p].value
    BY <2>1, <2>5, CountingIs
  <2> QED
    BY <1>1, <1>5, <2>3, <2>6
<1> QED
  BY <1>1, <1>5, <1>6

LEMMA EntriesLess ==
  ASSUME NEW list \in Seq(Row), NEW i \in DOMAIN list
  PROVE  /\ RemoveAt(list, i) \in Seq(Row) /\ list[i] \in Row
         /\ ToSet(RemoveAt(list, i)) \subseteq ToSet(list) /\ ToSet(list) \subseteq Row
         /\ \A p \in DOMAIN list : p # i => list[p] \in ToSet(RemoveAt(list, i))
         /\ \A k : k # list[i].key => (k \in Keys(RemoveAt(list, i)) <=> k \in Keys(list))
         /\ list[i].key # Keyless => list[i].key \in Keys(list)
<1>1. PICK q, n : q = RemoveAt(list, i) /\ n = Len(list)
  OBVIOUS
<1>2. Shrinks(list, i, q, n)
  BY <1>1, ListShrinks
<1>3. \A p \in DOMAIN list : list[p] \in Row
  BY ElementOfSeq, LenProperties
<1>4. ToSet(q) \subseteq ToSet(list) /\ ToSet(list) \subseteq Row
  BY <1>2, <1>3 DEF ToSet, Shrinks
<1>5. \A p \in DOMAIN list : p # i => list[p] \in ToSet(q)
  <2>1. ASSUME NEW p \in DOMAIN list, p # i PROVE list[p] \in ToSet(q)
    <3>1. p \in 1..n
      BY <1>2 DEF Shrinks
    <3>2. PICK o \in 1..n - 1 : Was(i, o) = p /\ q[o] = list[p]
      BY <1>2, <2>1, <3>1 DEF Shrinks
    <3> QED
      BY <1>2, <3>2 DEF Shrinks, ToSet
  <2> QED
    BY <2>1
<1>6. ASSUME NEW k, k # list[i].key PROVE k \in Keys(q) <=> k \in Keys(list)
  <2>1. PlacesOf(q, k) = {} <=> PlacesOf(list, k) = {}
    BY <1>1, <1>6, CountingLess
  <2> QED
    BY <2>1, KeysAre
<1>7. list[i].key # Keyless => list[i].key \in Keys(list)
  BY DEF Keys, ToSet
<1> QED
  BY <1>1, <1>2, <1>3, <1>4, <1>5, <1>6, <1>7 DEF Shrinks

\* The one entry for a key is what is there under it.
LEMMA CountingOne ==
  ASSUME NEW list \in Seq(Row), NEW i \in DOMAIN list, \A x \in ToSet(RemoveAt(list, i)) : x.key # list[i].key
  PROVE  Counting(engine, list, list[i].key) = list[i].value
<1>1. i \in PlacesOf(list, list[i].key)
  BY DEF PlacesOf
<1>2. ASSUME NEW p \in PlacesOf(list, list[i].key) PROVE p = i
  <2>1. p \in DOMAIN list /\ list[p].key = list[i].key
    BY DEF PlacesOf
  <2>2. p # i => list[p] \in ToSet(RemoveAt(list, i))
    BY <2>1, EntriesLess
  <2> QED
    BY <2>1, <2>2
<1>3. i \in Nat
  BY LenProperties
<1>4. Lasts(list, list[i].key) = i
  BY <1>1, <1>2, <1>3, LastsOnly
<1> QED
  BY <1>4, CountingIs

\* A value that no entry with a key has is under no key.
LEMMA HeldUnderNone ==
  ASSUME NEW list \in Seq(Row), NEW v, \A x \in ToSet(list) : x.key # Keyless => x.value # v
  PROVE  Holding1(RowsOf(engine, list), v) = {}
<1>1. PICK L : L = RowsOf(engine, list)
  OBVIOUS
<1>2. DOMAIN L.keyed = Keys(list) /\ \A k \in Keys(list) : L.keyed[k] = Counting(engine, list, k)
  BY <1>1, RowsOfAre
<1>3. ASSUME NEW k \in Keys(list) PROVE L.keyed[k] # v
  <2>1. k # Keyless /\ PlacesOf(list, k) # {}
    BY KeysAre
  <2>2. PICK p : p = Lasts(list, k)
    OBVIOUS
  <2>3. p \in 1..Len(list) /\ list[p].key = k
    BY <2>1, <2>2, LastsIs
  <2>4. list[p] \in ToSet(list)
    BY <2>3, LenProperties DEF ToSet
  <2>5. Counting(engine, list, k) = list[p].value
    BY <2>2, CountingIs
  <2> QED
    BY <1>2, <2>1, <2>3, <2>4, <2>5
<1> QED
  BY <1>1, <1>2, <1>3 DEF Holding1

\* The database follows: what it deletes is the row of the entry that has gone, and no other.
LEMMA DeletedIs ==
  ASSUME NEW list \in Seq(Row), NEW i \in DOMAIN list, engine \in Engines, engine # "cassandra",
         ~Confused(list[i], RemoveAt(list, i)), engine = "dynamodb" => list[i].key # Keyless,
         NEW after \in Deleted(RowsOf(engine, list), list[i])
  PROVE  after = RowsOf(engine, RemoveAt(list, i))
<1>1. PICK q, r, L, K, B : /\ q = RemoveAt(list, i) /\ r = list[i] /\ L = RowsOf(engine, list)
                           /\ K = L.keyed /\ B = L.blank
  OBVIOUS
<1>2. engine \in {"postgres", "mongodb", "dynamodb"}
  BY EnginesSeeded
<1>3. /\ q \in Seq(Row) /\ r \in Row
      /\ ToSet(q) \subseteq ToSet(list) /\ ToSet(list) \subseteq Row
      /\ \A p \in DOMAIN list : p # i => list[p] \in ToSet(q)
      /\ \A k : k # r.key => (k \in Keys(q) <=> k \in Keys(list))
      /\ r.key # Keyless => r.key \in Keys(list)
  BY <1>1, EntriesLess
<1>4. \A k \in Keys(q) : k # r.key => Counting(engine, q, k) = Counting(engine, list, k)
  <2>1. ASSUME NEW k \in Keys(q), k # r.key PROVE Counting(engine, q, k) = Counting(engine, list, k)
    <3>1. PlacesOf(list, k) # {}
      BY <1>3, <2>1, KeysAre
    <3> QED
      BY <1>1, <2>1, <3>1, CountingLess
  <2> QED
    BY <2>1
<1>5. /\ DOMAIN K = Keys(list) /\ \A k \in Keys(list) : K[k] = Counting(engine, list, k)
      /\ \A v \in RowValue : B[v] = Times(list, BlankRow(v)) /\ Times(list, BlankRow(v)) \in Nat
      /\ B = [v \in RowValue |-> Times(list, BlankRow(v))]
  BY <1>1, RowsOfAre
<1>6. L = [keyed |-> K, blank |-> B] /\ K = [k \in Keys(list) |-> Counting(engine, list, k)]
  BY <1>1 DEF RowsOf
<1>7. \A x : Times(q, x) = Times(list, x) - (IF x = r THEN 1 ELSE 0)
  BY <1>1, TimesLess
<1>8. r.value \in RowValue /\ \A v : BlankRow(v) = r <=> (r.key = Keyless /\ v = r.value)
  <2>1. r = [key |-> r.key, value |-> r.value]
    BY <1>3 DEF Row
  <2> QED
    BY <1>3, <2>1 DEF Row, BlankRow
<1>9. CASE r.key # Keyless
  <2>1. \A x \in ToSet(q) : x.key # r.key
    BY <1>1, <1>9 DEF Confused
  <2>2. K[r.key] = r.value /\ r.key \in Keys(list)
    BY <1>1, <1>3, <1>5, <1>9, <2>1, CountingOne
  <2>3. {r.key} \intersect Holding1(L, r.value) = {r.key}
    BY <1>5, <1>6, <2>2 DEF Holding1
  <2>4. after = ByKey(L, {r.key})
    BY <1>1, <1>2, <1>9, <2>3 DEF Deleted
  <2>5. r.key \notin Keys(q)
    BY <2>1 DEF Keys
  <2>6. Keys(q) = Keys(list) \ {r.key}
    <3>1. \A k : k \in Keys(q) <=> k \in Keys(list) /\ k # r.key
      BY <1>3, <2>5
    <3>2. PICK A, C : A = Keys(q) /\ C = Keys(list)
      OBVIOUS
    <3> QED
      BY <3>1, <3>2
  <2>7. [k \in Keys(list) \ {r.key} |-> K[k]] = [k \in Keys(q) |-> Counting(engine, q, k)]
    BY <1>4, <1>5, <2>6
  <2>8. B = [v \in RowValue |-> Times(q, BlankRow(v))]
    BY <1>5, <1>7, <1>8, <1>9
  <2>9. ByKey(L, {r.key}) = [keyed |-> [k \in Keys(list) \ {r.key} |-> K[k]], blank |-> B]
    BY <1>5, <1>6 DEF ByKey
  <2> QED
    BY <1>1, <2>4, <2>7, <2>8, <2>9 DEF RowsOf
<1>10. CASE r.key = Keyless
  <2>1. Keyless \notin Keys(q) /\ Keyless \notin Keys(list)
    BY DEF Keys
  <2>2. Keys(q) = Keys(list)
    <3>1. \A k : k \in Keys(q) <=> k \in Keys(list)
      BY <1>3, <1>10, <2>1
    <3>2. PICK A, C : A = Keys(q) /\ C = Keys(list)
      OBVIOUS
    <3> QED
      BY <3>1, <3>2
  <2>3. K = [k \in Keys(q) |-> Counting(engine, q, k)]
    BY <1>4, <1>5, <1>6, <1>10, <2>1, <2>2
  <2>4. \A x \in ToSet(q) : ~(x.value = r.value /\ (engine = "mongodb" => x.key # Keyless))
    BY <1>1, <1>10 DEF Confused
  <2>5. Holding1(L, r.value) = {}
    <3>1. ASSUME NEW x \in ToSet(list), x.key # Keyless PROVE x.value # r.value
      <4>1. PICK p \in DOMAIN list : list[p] = x
        BY DEF ToSet
      <4>2. p # i
        BY <1>1, <1>10, <3>1, <4>1
      <4>3. x \in ToSet(q)
        BY <1>3, <4>1, <4>2
      <4> QED
        BY <2>4, <3>1, <4>3
    <3> QED
      BY <1>1, <3>1, HeldUnderNone
  <2>6. \A v \in RowValue : Times(q, BlankRow(v)) = IF v = r.value THEN B[v] - 1 ELSE B[v]
    BY <1>5, <1>7, <1>8, <1>10
  <2>7. CASE engine = "postgres"
    <3>1. Times(q, BlankRow(r.value)) = 0
      <4>1. \A p \in DOMAIN q : q[p] # BlankRow(r.value)
        BY <2>4, <2>7 DEF ToSet, BlankRow
      <4> QED
        BY <1>3, <4>1, TimesCounts
    <3>2. [B EXCEPT ![r.value] = 0] = [v \in RowValue |-> Times(q, BlankRow(v))]
      BY <1>5, <1>8, <2>6, <3>1
    <3>3. after = ByKey([L EXCEPT !.blank[r.value] = 0], {})
      BY <1>1, <1>10, <2>5, <2>7 DEF Deleted
    <3>4. [L EXCEPT !.blank[r.value] = 0] = [keyed |-> K, blank |-> [B EXCEPT ![r.value] = 0]]
      BY <1>6
    <3>5. ByKey([L EXCEPT !.blank[r.value] = 0], {}) = [keyed |-> K, blank |-> [B EXCEPT ![r.value] = 0]]
      <4>1. [k \in DOMAIN K \ {} |-> K[k]] = K
        BY <1>5, <1>6
      <4>2. PICK C, M : C = [B EXCEPT ![r.value] = 0] /\ M = [keyed |-> K, blank |-> C]
        OBVIOUS
      <4>3. ByKey(M, {}) = [keyed |-> [k \in DOMAIN K \ {} |-> K[k]], blank |-> C]
        BY <4>2 DEF ByKey
      <4> QED
        BY <3>4, <4>1, <4>2, <4>3
    <3> QED
      BY <1>1, <2>3, <3>2, <3>3, <3>5 DEF RowsOf
  <2>8. CASE engine = "mongodb"
    <3>1. B[r.value] > 0
      <4>1. Times(list, r) >= 1
        BY <1>1, TimesCounts
      <4>2. BlankRow(r.value) = r
        BY <1>8, <1>10
      <4> QED
        BY <1>5, <1>8, <4>1, <4>2
    <3>2. after = [L EXCEPT !.blank[r.value] = B[r.value] - 1]
      <4>1. L.blank[r.value] > 0 /\ L.blank[r.value] = B[r.value]
        BY <1>1, <3>1
      <4>2. Deleted(L, r) = {ByKey(L, {k}) : k \in Holding1(L, r.value)}
              \union IF L.blank[r.value] > 0 THEN {[L EXCEPT !.blank[r.value] = L.blank[r.value] - 1]}
                     ELSE IF Holding1(L, r.value) = {} THEN {L} ELSE {}
        BY <1>10, <2>8 DEF Deleted
      <4>3. {ByKey(L, {k}) : k \in Holding1(L, r.value)} = {}
        BY <2>5
      <4> QED
        BY <1>1, <4>1, <4>2, <4>3
    <3>3. [B EXCEPT ![r.value] = B[r.value] - 1] = [v \in RowValue |-> Times(q, BlankRow(v))]
      BY <1>5, <1>8, <2>6
    <3>4. [L EXCEPT !.blank[r.value] = B[r.value] - 1] = [keyed |-> K, blank |-> [B EXCEPT ![r.value] = B[r.value] - 1]]
      BY <1>6
    <3> QED
      BY <1>1, <2>3, <3>2, <3>3, <3>4 DEF RowsOf
  <2> QED
    BY <1>1, <1>2, <1>10, <2>7, <2>8
<1> QED
  BY <1>9, <1>10

-----------------------------------------------------------------------------
(* The registry, the artifact and the database, with what is under way. *)

Posted ==
  {Idle} \union [of : {"add"}, at : {"asked", "live", "broken"}, row : Row]
  \union [of : {"remove"}, at : {"recorded"}, row : Row, list : Seq(Row)]
  \union [of : {"remove"}, at : {"made"}, row : Row, list : Seq(Row), read : BOOLEAN]
  \union [of : {"apply"}, at : {"asked"}]
  \union [of : {"apply"}, at : {"made", "broken"}, list : Seq(Row), done : Nat, fresh : BOOLEAN]
\* The row of an add is in the database; an apply has begun to insert.
AddLive(p) == p.of = "add" /\ p.at \in {"live", "broken"}
Inserting(p) == p.of = "apply" /\ p.at # "asked"
RemoveRecorded(p) == p.of = "remove" /\ p.at = "recorded"
Losses == {"together", "confused", "kept", "unrecorded", "wiped", "doubled", "halfway", "outdated"}

\* Confused, for an engine.
ConfusedOf(e, r, list) ==
  \E x \in ToSet(list) :
    IF r.key # Keyless THEN x.key = r.key
    ELSE x.value = r.value /\ (e = "mongodb" => x.key # Keyless)

\* The entry r was taken out of a list whose rows are still in the database.
TakenOut(e, r, list, L) ==
  \E old \in Seq(Row) : \E i \in DOMAIN old :
    /\ list = RemoveAt(old, i) /\ r = old[i] /\ L = RowsOf(e, old)
    /\ ~ConfusedOf(e, r, list) /\ (Late(e) => r.key # Keyless)

PostsFit ==
  /\ engine \in Engines /\ seeds \in Seq(Row) /\ posted \in [SeedTab -> Posted]
  /\ \A t \in SeedTab : Inserting(posted[t]) =>
       posted[t].done <= Len(posted[t].list) /\ (engine = "postgres" => posted[t].done \in {0, Len(posted[t].list)})
KeysFit ==
  Late(engine) => /\ \A r \in ToSet(seeds) : r.key # Keyless
                  /\ \A t \in SeedTab : AddLive(posted[t]) => posted[t].row.key # Keyless
MeantFits == "mistaken" \notin marred => Count(seeds) = meant
MountFits == seeds # <<>> => mounted
ArtifactFits == "outdated" \notin marred => artifact = seeds \/ \E t \in SeedTab : RemoveRecorded(posted[t])
\* Whatever else has gone wrong, what inserts into an empty table leaves the rows of its entries.
AloneFits ==
  "together" \notin marred =>
    /\ \A s, t \in SeedTab : posted[s] # Idle /\ posted[t] # Idle => s = t
    /\ \A t \in SeedTab : Inserting(posted[t]) => posted[t].list = seeds
    /\ \A t \in SeedTab : Replays(posted[t]) /\ posted[t].fresh => rows = RowsOf(engine, First(seeds, posted[t].done))
LiveFits ==
  marred \intersect Losses = {} =>
    /\ \A t \in SeedTab : AddLive(posted[t]) => rows = RowsOf(engine, Append(seeds, posted[t].row))
    /\ \A t \in SeedTab : posted[t].of = "remove" => TakenOut(engine, posted[t].row, seeds, rows)
    /\ \A t \in SeedTab : Inserting(posted[t]) =>
         rows = Between(engine, seeds, posted[t].done) /\ (posted[t].fresh => seeds = <<>>)
    /\ (\A t \in SeedTab : ~AddLive(posted[t]) /\ posted[t].of # "remove" /\ ~Inserting(posted[t]))
         => rows = RowsOf(engine, seeds)
SeedsKept == PostsFit /\ KeysFit /\ MeantFits /\ MountFits /\ ArtifactFits /\ AloneFits /\ LiveFits
SeedsInv == SeedsKept /\ serving \in BOOLEAN

\* A tab that waits for nothing.
LEMMA IdleIs ==
  Idle \in Posted /\ Idle.of = "none" /\ ~AddLive(Idle) /\ ~Replays(Idle) /\ ~Inserting(Idle) /\ ~RemoveRecorded(Idle)
BY DEF Posted, Idle, AddLive, Replays, Inserting, RemoveRecorded

LEMMA SeedsInitial == SeedsInit => SeedsInv
<1> SUFFICES ASSUME SeedsInit PROVE SeedsInv
  OBVIOUS
<1>1. /\ engine \in Engines /\ seeds = <<>> /\ artifact = <<>> /\ rows = NoRows
      /\ posted = [t \in SeedTab |-> Idle] /\ meant = Count(<<>>) /\ marred = {}
  BY DEF SeedsInit
<1>2. Idle \in Posted /\ Idle.of = "none"
  BY IdleIs
<1>3. RowsOf(engine, <<>>) = NoRows /\ <<>> \in Seq(Row)
  BY NothingMakesNone
<1>5. \A t \in SeedTab : /\ posted[t] = Idle /\ ~AddLive(posted[t]) /\ posted[t].of # "remove"
                         /\ ~Replays(posted[t]) /\ ~Inserting(posted[t])
  BY <1>1, IdleIs
<1>4. PostsFit
  BY <1>1, <1>2, <1>3, <1>5 DEF PostsFit
<1>6. KeysFit
  <2>1. PICK none : none = seeds
    OBVIOUS
  <2>2. ToSet(none) = {}
    BY <1>1, <2>1 DEF ToSet
  <2> QED
    BY <1>5, <2>1, <2>2 DEF KeysFit
<1>7. MeantFits /\ MountFits /\ ArtifactFits
  BY <1>1 DEF MeantFits, MountFits, ArtifactFits
<1>8. AloneFits
  BY <1>5 DEF AloneFits
<1>9. LiveFits
  BY <1>1, <1>3, <1>5 DEF LiveFits
<1>10. serving \in BOOLEAN
  BY DEF SeedsInit
<1> QED
  BY <1>4, <1>6, <1>7, <1>8, <1>9, <1>10 DEF SeedsInv, SeedsKept

\* The invariant says what the property asks.
LEMMA SeedsFit == SeedsInv => SeedsHold
<1> SUFFICES ASSUME SeedsKept, Quiescent PROVE RegistryIsMeant /\ LiveIsSeeded
  BY DEF SeedsHold, SeedsInv
<1>1. \A t \in SeedTab : ~AddLive(posted[t]) /\ posted[t].of # "remove" /\ ~RemoveRecorded(posted[t]) /\ ~Inserting(posted[t])
  BY IdleIs DEF Quiescent
<1>2. seeds \in Seq(Row)
  BY DEF SeedsKept, PostsFit
<1>3. RegistryIsMeant
  BY <1>1 DEF SeedsKept, MeantFits, MountFits, ArtifactFits, RegistryIsMeant
<1>4. LiveIsSeeded
  <2>1. Replayed(NoRows, seeds) = RowsOf(engine, seeds)
    BY <1>2, ReplayedIs
  <2> QED
    BY <1>1, <2>1 DEF SeedsKept, LiveFits, LiveIsSeeded, Losses
<1> QED
  BY <1>3, <1>4

\* What only the tabs, the answers or the budget see.
LEMMA SeedsSame ==
  ASSUME SeedsKept, UNCHANGED <<engine, seeds, artifact, mounted, rows, posted, meant, marred>>
  PROVE  SeedsKept'
BY DEF SeedsKept, PostsFit, KeysFit, MeantFits, MountFits, ArtifactFits, AloneFits, LiveFits

\* A request that has changed nothing yet goes on, to insert perhaps, or ends.
LEMMA PostChanges ==
  ASSUME SeedsKept, UNCHANGED <<engine, seeds, mounted, rows, meant>>, artifact' = artifact \/ artifact' = seeds,
         NEW t \in SeedTab, NEW p \in Posted, posted' = [posted EXCEPT ![t] = p], marred \subseteq marred',
         ~AddLive(p), p.of # "remove", ~AddLive(posted[t]), posted[t].of # "remove", ~Inserting(posted[t]),
         posted[t] = Idle /\ p # Idle => Quiescent \/ "together" \in marred',
         Inserting(p) => p.list = seeds /\ p.done = 0 /\ (p.fresh => rows = NoRows),
         "mistaken" \in marred' => "mistaken" \in marred
  PROVE  SeedsKept'
<1>1. /\ posted \in [SeedTab -> Posted] /\ engine \in Engines /\ seeds \in Seq(Row)
      /\ posted'[t] = p /\ \A s \in SeedTab : s # t => posted'[s] = posted[s]
      /\ posted' \in [SeedTab -> Posted]
  BY DEF SeedsKept, PostsFit
<1>2. PostsFit'
  <2>1. Len(seeds) \in Nat
    BY <1>1
  <2> QED
    BY <1>1, <2>1 DEF SeedsKept, PostsFit
<1>3. KeysFit'
  BY <1>1 DEF SeedsKept, KeysFit
<1>4. MeantFits' /\ MountFits'
  BY DEF SeedsKept, MeantFits, MountFits
<1>5. ArtifactFits'
  BY <1>1 DEF SeedsKept, ArtifactFits, RemoveRecorded
<1>6. Replays(p) /\ p.fresh => rows = RowsOf(engine, First(seeds, p.done))
  BY <1>1, FirstOnes, NothingMakesNone DEF Replays, Inserting
<1>7. AloneFits'
  <2>1. CASE posted[t] = Idle /\ p # Idle
    BY <1>1, <1>6, <2>1, IdleIs DEF SeedsKept, AloneFits, Quiescent
  <2>2. CASE ~(posted[t] = Idle /\ p # Idle)
    BY <1>1, <1>6, <2>2 DEF SeedsKept, AloneFits
  <2> QED
    BY <2>1, <2>2
<1>8. LiveFits'
  <2>1. CASE ~Inserting(p)
    BY <1>1, <2>1 DEF SeedsKept, LiveFits
  <2>2. CASE Inserting(p)
    <3>1. ASSUME marred' \intersect Losses = {}
          PROVE  /\ rows = RowsOf(engine, seeds) /\ (p.fresh => seeds = <<>>)
                 /\ \A s \in SeedTab : s # t => posted'[s] = Idle
      <4>1. marred \intersect Losses = {} /\ "together" \notin marred /\ "together" \notin marred' /\ p # Idle
        BY <2>2, <3>1, IdleIs DEF Losses
      <4>2. \A s \in SeedTab : s # t => posted[s] = Idle
        BY <4>1 DEF SeedsKept, AloneFits, Quiescent
      <4>3. rows = RowsOf(engine, seeds)
        BY <4>1, <4>2, IdleIs DEF SeedsKept, LiveFits
      <4>4. p.fresh => seeds = <<>>
        BY <1>1, <2>2, <4>3, NoneMakeNone
      <4> QED
        BY <1>1, <4>2, <4>3, <4>4
    <3>2. p.done = 0 /\ Between(engine, seeds, 0) = RowsOf(engine, seeds)
      BY <1>1, <2>2, BetweenEnds
    <3> QED
      BY <1>1, <2>2, <3>1, <3>2, IdleIs DEF LiveFits
  <2> QED
    BY <2>1, <2>2
<1> QED
  BY <1>2, <1>3, <1>4, <1>5, <1>7, <1>8 DEF SeedsKept

LEMMA PostShapes ==
  ASSUME NEW p \in Posted
  PROVE  /\ p.of = "add" => p.row \in Row /\ p # Idle /\ \A a \in {"live", "broken"} :
                              /\ [p EXCEPT !.at = a] \in Posted /\ [p EXCEPT !.at = a].of = "add"
                              /\ [p EXCEPT !.at = a].at = a /\ [p EXCEPT !.at = a].row = p.row
         /\ p.of = "remove" => p # Idle /\ p.row \in Row /\ p.list \in Seq(Row) /\ (p.at = "made" => p.read \in BOOLEAN)
         /\ p.of = "apply" => p # Idle
         /\ Inserting(p) => p.list \in Seq(Row) /\ p.done \in Nat /\ p.fresh \in BOOLEAN /\ p.at \in {"made", "broken"}
         /\ Inserting(p) => /\ [p EXCEPT !.at = "broken"] \in Posted /\ [p EXCEPT !.at = "broken"].of = "apply"
                            /\ [p EXCEPT !.at = "broken"].at = "broken" /\ [p EXCEPT !.at = "broken"].list = p.list
                            /\ [p EXCEPT !.at = "broken"].done = p.done /\ [p EXCEPT !.at = "broken"].fresh = p.fresh
<1>1. CASE p = Idle
  BY <1>1, IdleIs
<1>2. CASE p \in [of : {"add"}, at : {"asked", "live", "broken"}, row : Row]
  <2>1. ASSUME NEW a \in {"live", "broken"}
        PROVE  /\ [p EXCEPT !.at = a] \in Posted /\ [p EXCEPT !.at = a].of = "add"
               /\ [p EXCEPT !.at = a].at = a /\ [p EXCEPT !.at = a].row = p.row
    <3>1. PICK q : q = [p EXCEPT !.at = a]
      OBVIOUS
    <3>2. q \in [of : {"add"}, at : {"asked", "live", "broken"}, row : Row] /\ q.of = "add" /\ q.at = a /\ q.row = p.row
      BY <1>2, <3>1
    <3> QED
      BY <3>1, <3>2 DEF Posted
  <2>2. p.of = "add" /\ p.row \in Row
    BY <1>2
  <2> QED
    BY <2>1, <2>2, IdleIs DEF Inserting
<1>3. CASE p \in [of : {"remove"}, at : {"recorded"}, row : Row, list : Seq(Row)]
  BY <1>3, IdleIs DEF Inserting
<1>4. CASE p \in [of : {"remove"}, at : {"made"}, row : Row, list : Seq(Row), read : BOOLEAN]
  BY <1>4, IdleIs DEF Inserting
<1>5. CASE p \in [of : {"apply"}, at : {"asked"}]
  BY <1>5, IdleIs DEF Inserting
<1>6. CASE p \in [of : {"apply"}, at : {"made", "broken"}, list : Seq(Row), done : Nat, fresh : BOOLEAN]
  <2> DEFINE A == [of : {"apply"}, at : {"made", "broken"}, list : Seq(Row), done : Nat, fresh : BOOLEAN]
  <2>1. A \subseteq Posted
    BY DEF Posted
  <2>2. /\ [p EXCEPT !.at = "broken"] \in A /\ [p EXCEPT !.at = "broken"].of = "apply"
        /\ [p EXCEPT !.at = "broken"].at = "broken" /\ [p EXCEPT !.at = "broken"].list = p.list
        /\ [p EXCEPT !.at = "broken"].done = p.done /\ [p EXCEPT !.at = "broken"].fresh = p.fresh
    BY <1>6
  <2>3. /\ p.of = "apply" /\ p.list \in Seq(Row) /\ p.done \in Nat /\ p.fresh \in BOOLEAN /\ p.at \in {"made", "broken"}
        /\ p # Idle
    BY <1>6, IdleIs
  <2> HIDE DEF A
  <2> QED
    BY <2>1, <2>2, <2>3
<1> QED
  BY <1>1, <1>2, <1>3, <1>4, <1>5, <1>6 DEF Posted

\* The entries that go in again, with another count of those that have.
LEMMA InsertingShapes ==
  ASSUME NEW p \in Posted, Inserting(p)
  PROVE  /\ \A n \in Nat : \E q \in Posted :
              /\ q = [p EXCEPT !.done = n] /\ q.of = "apply" /\ q.at = p.at /\ q.list = p.list
              /\ q.done = n /\ q.fresh = p.fresh
         /\ \A b \in BOOLEAN : \E q \in Posted :
              /\ q = [p EXCEPT !.fresh = b] /\ q.of = "apply" /\ q.at = p.at /\ q.list = p.list
              /\ q.done = p.done /\ q.fresh = b
<1> DEFINE A == [of : {"apply"}, at : {"made", "broken"}, list : Seq(Row), done : Nat, fresh : BOOLEAN]
<1>1. A \subseteq Posted /\ p \in A
  BY DEF Posted, Inserting, Idle
<1>2. ASSUME NEW n \in Nat
      PROVE  \E q \in Posted :
               /\ q = [p EXCEPT !.done = n] /\ q.of = "apply" /\ q.at = p.at /\ q.list = p.list
               /\ q.done = n /\ q.fresh = p.fresh
  <2>1. PICK q : q = [p EXCEPT !.done = n]
    OBVIOUS
  <2>2. q \in A /\ q.of = "apply" /\ q.at = p.at /\ q.list = p.list /\ q.done = n /\ q.fresh = p.fresh
    BY <1>1, <2>1
  <2> QED
    BY <1>1, <2>1, <2>2
<1>3. ASSUME NEW b \in BOOLEAN
      PROVE  \E q \in Posted :
               /\ q = [p EXCEPT !.fresh = b] /\ q.of = "apply" /\ q.at = p.at /\ q.list = p.list
               /\ q.done = p.done /\ q.fresh = b
  <2>1. PICK q : q = [p EXCEPT !.fresh = b]
    OBVIOUS
  <2>2. q \in A /\ q.of = "apply" /\ q.at = p.at /\ q.list = p.list /\ q.done = p.done /\ q.fresh = b
    BY <1>1, <2>1
  <2> QED
    BY <1>1, <2>1, <2>2
<1> QED
  BY <1>2, <1>3

LEMMA AddStartsKeeps ==
  ASSUME SeedsKept, UNCHANGED engine, NEW t \in SeedTab, NEW r \in Row, AddStarts(t, r)
  PROVE  SeedsKept'
<1>1. PICK p : p = [of |-> "add", at |-> "asked", row |-> r]
  OBVIOUS
<1>2. p \in Posted /\ ~AddLive(p) /\ p.of # "remove" /\ ~Inserting(p)
  BY <1>1 DEF Posted, AddLive, Inserting
<1>3. /\ posted[t] = Idle /\ posted' = [posted EXCEPT ![t] = p]
      /\ UNCHANGED <<engine, seeds, artifact, mounted, rows, meant>>
      /\ marred' = IF Quiescent THEN marred ELSE marred \union {"together"}
  BY <1>1 DEF AddStarts, Posts, seedFiles, seedLive
<1>4. Idle.of = "none" /\ ~AddLive(Idle) /\ ~Inserting(Idle)
  BY IdleIs
<1>5. Quiescent \/ "together" \in marred'
  BY <1>3
<1>6. marred \subseteq marred' /\ ("mistaken" \in marred' => "mistaken" \in marred)
  BY <1>3
<1> QED
  BY <1>2, <1>3, <1>4, <1>5, <1>6, PostChanges

LEMMA ApplyPostsKeeps ==
  ASSUME SeedsKept, UNCHANGED engine, NEW t \in SeedTab, ApplyPosts(t)
  PROVE  SeedsKept'
<1>1. PICK p : p = [of |-> "apply", at |-> "asked"]
  OBVIOUS
<1>2. p \in Posted /\ ~AddLive(p) /\ p.of # "remove" /\ ~Inserting(p)
  BY <1>1 DEF Posted, AddLive, Inserting
<1>3. /\ posted[t] = Idle /\ posted' = [posted EXCEPT ![t] = p]
      /\ UNCHANGED <<engine, seeds, artifact, mounted, rows, meant>>
      /\ marred' = IF Quiescent THEN marred ELSE marred \union {"together"}
  BY <1>1 DEF ApplyPosts, Posts, seedFiles, seedLive
<1>4. Idle.of = "none" /\ ~AddLive(Idle) /\ ~Inserting(Idle)
  BY IdleIs
<1>5. Quiescent \/ "together" \in marred'
  BY <1>3
<1>6. marred \subseteq marred' /\ ("mistaken" \in marred' => "mistaken" \in marred)
  BY <1>3
<1> QED
  BY <1>2, <1>3, <1>4, <1>5, <1>6, PostChanges

\* A request ends with an error before it has changed anything.
LEMMA FailedKeeps ==
  ASSUME SeedsKept, UNCHANGED engine, NEW t \in SeedTab, ~AddLive(posted[t]), posted[t].of # "remove",
         ~Inserting(posted[t]), Failed(t)
  PROVE  SeedsKept'
<1>1. Idle \in Posted /\ Idle.of = "none" /\ ~AddLive(Idle) /\ ~Inserting(Idle)
  BY IdleIs
<1>2. /\ posted' = [posted EXCEPT ![t] = Idle]
      /\ UNCHANGED <<engine, seeds, artifact, mounted, rows, meant, marred>>
  BY DEF Failed, Goes, seedFiles, seedLive
<1> QED
  BY <1>1, <1>2, PostChanges

LEMMA ApplyRegeneratesKeeps ==
  ASSUME SeedsKept, UNCHANGED engine, NEW t \in SeedTab, ApplyRegenerates(t)
  PROVE  SeedsKept'
<1>1. posted[t].of = "apply" /\ ~AddLive(posted[t]) /\ posted[t].of # "remove" /\ posted[t] # Idle /\ ~Inserting(posted[t])
  BY DEF ApplyRegenerates, AddLive, Idle, Inserting
<1>2. CASE serving
  <2>1. PICK p : p = [of |-> "apply", at |-> "made", list |-> seeds, done |-> 0, fresh |-> rows = NoRows]
    OBVIOUS
  <2>2. p \in Posted /\ ~AddLive(p) /\ p.of # "remove" /\ p.list = seeds /\ p.done = 0 /\ (p.fresh => rows = NoRows)
    BY <2>1 DEF SeedsKept, PostsFit, Posted, AddLive
  <2>3. /\ posted' = [posted EXCEPT ![t] = p] /\ artifact' = seeds
        /\ UNCHANGED <<engine, seeds, mounted, rows, meant, marred>>
    BY <1>2, <2>1 DEF ApplyRegenerates, Goes, seedLive
  <2> QED
    BY <1>1, <2>2, <2>3, PostChanges
<1>3. CASE ~serving
  <2>1. Failed(t)
    BY <1>3 DEF ApplyRegenerates
  <2> QED
    BY <1>1, <2>1, FailedKeeps
<1> QED
  BY <1>2, <1>3

\* What is inserted again: into an empty table it makes the rows of the entries, into another, if
\* none of them leaves its key to the database, it leaves what there was, or puts it back.
LEMMA InsertsMake ==
  ASSUME NEW list \in Seq(Row), NEW n \in 0..Len(list) - 1, NEW m, NEW L, NEW after,
         \/ engine = "postgres" /\ n = 0 /\ after = Replayed(L, list) /\ m = Len(list)
         \/ after = Insert(L, list[n + 1]) /\ m = n + 1
  PROVE  /\ m \in 0..Len(list)
         /\ L = RowsOf(engine, First(list, n)) => after = RowsOf(engine, First(list, m))
         /\ L = Between(engine, list, n) /\ (\A i \in n + 1..m : list[i].key # Keyless) => after = Between(engine, list, m)
<1>1. /\ First(list, 0) = <<>> /\ First(list, Len(list)) = list /\ First(list, n) \in Seq(Row) /\ Len(list) \in Nat
      /\ list[n + 1] \in Row /\ First(list, n + 1) = Append(First(list, n), list[n + 1])
  <2>1. n \in 0..Len(list)
    OBVIOUS
  <2> QED
    BY <2>1, FirstOnes
<1>2. CASE engine = "postgres" /\ n = 0 /\ after = Replayed(L, list) /\ m = Len(list)
  <2>1. L = RowsOf(engine, First(list, n)) => after = RowsOf(engine, First(list, m))
    BY <1>1, <1>2, NothingMakesNone, ReplayedIs
  <2>2. ASSUME L = Between(engine, list, n), \A i \in n + 1..m : list[i].key # Keyless
        PROVE  after = Between(engine, list, m)
    <3>1. \A r \in ToSet(list) : r.key # Keyless
      BY <1>1, <1>2, <2>2 DEF ToSet
    <3>2. L = RowsOf(engine, list) /\ Between(engine, list, m) = RowsOf(engine, list)
      BY <1>2, <2>2, BetweenEnds
    <3> QED
      BY <1>2, <3>1, <3>2, ReplayedAgain
  <2> QED
    BY <1>1, <1>2, <2>1, <2>2
<1>3. CASE after = Insert(L, list[n + 1]) /\ m = n + 1
  <2>1. L = RowsOf(engine, First(list, n)) => after = RowsOf(engine, First(list, m))
    BY <1>1, <1>3, InsertedIs
  <2>2. ASSUME L = Between(engine, list, n), \A i \in n + 1..m : list[i].key # Keyless
        PROVE  after = Between(engine, list, m)
    <3>1. list[n + 1].key # Keyless
      BY <1>3, <2>2
    <3> QED
      BY <1>3, <2>2, <3>1, BetweenGoesOn
  <2>3. m \in 0..Len(list)
    BY <1>1, <1>3
  <2> QED
    BY <2>1, <2>2, <2>3
<1> QED
  BY <1>2, <1>3

LEMMA ApplyInsertsKeeps ==
  ASSUME SeedsKept, UNCHANGED engine, NEW t \in SeedTab, ApplyInserts(t)
  PROVE  SeedsKept'
<1>1. PICK p : p = posted[t]
  OBVIOUS
<1>2. /\ Replays(p) /\ p.done < Len(p.list) /\ UNCHANGED <<engine, seeds, artifact, mounted, meant>>
      /\ \/ engine = "postgres" /\ rows' = Replayed(rows, p.list) /\ RunsTo(t, Len(p.list))
         \/ engine # "postgres" /\ rows' = Insert(rows, p.list[p.done + 1]) /\ RunsTo(t, p.done + 1)
  BY <1>1 DEF ApplyInserts, seedFiles
<1>3. posted \in [SeedTab -> Posted] /\ engine \in Engines /\ seeds \in Seq(Row) /\ p \in Posted
  BY <1>1 DEF SeedsKept, PostsFit
<1>4. Inserting(p) /\ p.of = "apply" /\ p.at = "made" /\ p # Idle /\ ~AddLive(p) /\ p.of # "remove" /\ ~RemoveRecorded(p)
  BY <1>2, IdleIs DEF Replays, Inserting, AddLive, RemoveRecorded
<1>5. /\ p.list \in Seq(Row) /\ p.done \in Nat /\ Len(p.list) \in Nat /\ p.done \in 0..Len(p.list) - 1
      /\ engine = "postgres" => p.done = 0
  <2>1. p.list \in Seq(Row) /\ p.done \in Nat
    BY <1>3, <1>4, PostShapes
  <2>2. engine = "postgres" => p.done \in {0, Len(p.list)}
    BY <1>1, <1>4 DEF SeedsKept, PostsFit
  <2> QED
    BY <1>2, <2>1, <2>2
<1>6. PICK m \in {Len(p.list), p.done + 1} :
        /\ RunsTo(t, m)
        /\ \/ engine = "postgres" /\ p.done = 0 /\ rows' = Replayed(rows, p.list) /\ m = Len(p.list)
           \/ rows' = Insert(rows, p.list[p.done + 1]) /\ m = p.done + 1
        /\ engine = "postgres" => m = Len(p.list)
  BY <1>2, <1>5
<1>7. PICK q : q = [p EXCEPT !.done = m]
  OBVIOUS
<1>8. posted' = [posted EXCEPT ![t] = q] /\ marred \subseteq marred'
      /\ marred' = marred \union IF ~p.fresh /\ \E i \in p.done + 1..m : p.list[i].key = Keyless THEN {"doubled"} ELSE {}
  BY <1>1, <1>6, <1>7 DEF RunsTo, Goes
<1>9. /\ m \in 0..Len(p.list)
      /\ rows = RowsOf(engine, First(p.list, p.done)) => rows' = RowsOf(engine, First(p.list, m))
      /\ rows = Between(engine, p.list, p.done) /\ (\A i \in p.done + 1..m : p.list[i].key # Keyless)
           => rows' = Between(engine, p.list, m)
  <2>1. PICK list, n, after : list = p.list /\ n = p.done /\ after = rows'
    OBVIOUS
  <2>2. /\ list \in Seq(Row) /\ n \in 0..Len(list) - 1
        /\ \/ engine = "postgres" /\ n = 0 /\ after = Replayed(rows, list) /\ m = Len(list)
           \/ after = Insert(rows, list[n + 1]) /\ m = n + 1
    BY <1>5, <1>6, <2>1
  <2>3. /\ m \in 0..Len(list)
        /\ rows = RowsOf(engine, First(list, n)) => after = RowsOf(engine, First(list, m))
        /\ rows = Between(engine, list, n) /\ (\A i \in n + 1..m : list[i].key # Keyless)
             => after = Between(engine, list, m)
    BY <2>2, InsertsMake
  <2> QED
    BY <2>1, <2>3
<1>10. /\ m \in Nat /\ q \in Posted /\ q.of = "apply" /\ q.at = "made" /\ q.list = p.list /\ q.done = m /\ q.fresh = p.fresh
       /\ q # Idle /\ ~AddLive(q) /\ ~RemoveRecorded(q) /\ Inserting(q) /\ Replays(q)
  <2>1. m \in Nat
    BY <1>5, <1>9
  <2>2. q \in Posted /\ q.of = "apply" /\ q.at = "made" /\ q.list = p.list /\ q.done = m /\ q.fresh = p.fresh
    <3>1. PICK o \in Posted : /\ o = [p EXCEPT !.done = m] /\ o.of = "apply" /\ o.at = p.at /\ o.list = p.list
                              /\ o.done = m /\ o.fresh = p.fresh
      BY <1>3, <1>4, <2>1, InsertingShapes
    <3> QED
      BY <1>4, <1>7, <3>1
  <2> QED
    BY <2>1, <2>2, IdleIs DEF AddLive, RemoveRecorded, Inserting, Replays
<1>11. /\ posted'[t] = q /\ \A s \in SeedTab : s # t => posted'[s] = posted[s]
       /\ posted' \in [SeedTab -> Posted]
  BY <1>3, <1>8, <1>10
<1>12. ("together" \in marred' <=> "together" \in marred) /\ ("mistaken" \in marred' <=> "mistaken" \in marred)
       /\ ("outdated" \in marred' <=> "outdated" \in marred)
  BY <1>8
<1>13. PostsFit'
  BY <1>2, <1>3, <1>5, <1>6, <1>9, <1>10, <1>11 DEF SeedsKept, PostsFit
<1>14. KeysFit'
  BY <1>2, <1>10, <1>11 DEF SeedsKept, KeysFit
<1>15. MeantFits' /\ MountFits'
  BY <1>2, <1>12 DEF SeedsKept, MeantFits, MountFits
<1>16. ArtifactFits'
  BY <1>1, <1>2, <1>4, <1>11, <1>12 DEF SeedsKept, ArtifactFits
<1>17. ASSUME "together" \notin marred
       PROVE  /\ p.list = seeds /\ \A s \in SeedTab : s # t => posted[s] = Idle /\ posted'[s] = Idle
              /\ p.fresh => rows' = RowsOf(engine, First(seeds, m))
  <2>1. /\ p.list = seeds /\ \A s \in SeedTab : s # t => posted[s] = Idle
        /\ p.fresh => rows = RowsOf(engine, First(seeds, p.done))
    BY <1>1, <1>2, <1>4, <1>17 DEF SeedsKept, AloneFits
  <2> QED
    BY <1>9, <1>11, <2>1
<1>18. AloneFits'
  BY <1>2, <1>10, <1>11, <1>12, <1>17, IdleIs DEF SeedsKept, AloneFits
<1>19. ASSUME marred' \intersect Losses = {} PROVE rows' = Between(engine, seeds, m) /\ ~p.fresh
  <2>1. marred \intersect Losses = {} /\ "together" \notin marred /\ "doubled" \notin marred'
    BY <1>8, <1>19 DEF Losses
  <2>2. rows = Between(engine, seeds, p.done) /\ (p.fresh => seeds = <<>>) /\ p.list = seeds
    BY <1>1, <1>4, <1>17, <2>1 DEF SeedsKept, LiveFits
  <2>3. ~p.fresh
    BY <1>2, <1>5, <2>2
  <2>4. \A i \in p.done + 1..m : p.list[i].key # Keyless
    BY <1>8, <2>1, <2>3
  <2> QED
    BY <1>9, <2>2, <2>3, <2>4
<1>20. LiveFits'
  <2>1. marred' \intersect Losses = {} => "together" \notin marred
    BY <1>12 DEF Losses
  <2> QED
    BY <1>2, <1>10, <1>11, <1>17, <1>19, <2>1, IdleIs DEF LiveFits
<1> QED
  BY <1>13, <1>14, <1>15, <1>16, <1>18, <1>20 DEF SeedsKept

\* A request is at its end: the rows are those of the entries, if the history tells of no loss.
LEMMA PostEnds ==
  ASSUME SeedsKept, NEW t \in SeedTab, posted[t] # Idle, ~RemoveRecorded(posted[t]), posted' = [posted EXCEPT ![t] = Idle],
         UNCHANGED <<engine, seeds, artifact, meant>>, mounted' = mounted \/ mounted',
         "together" \in marred => "together" \in marred',
         "mistaken" \in marred' <=> "mistaken" \in marred, "outdated" \in marred' <=> "outdated" \in marred,
         marred' \intersect Losses = {} => rows' = RowsOf(engine, seeds)
  PROVE  SeedsKept'
<1>1. /\ posted \in [SeedTab -> Posted] /\ engine \in Engines /\ seeds \in Seq(Row)
      /\ posted'[t] = Idle /\ \A s \in SeedTab : s # t => posted'[s] = posted[s]
      /\ posted' \in [SeedTab -> Posted]
  BY IdleIs DEF SeedsKept, PostsFit
<1>2. PostsFit'
  BY <1>1, IdleIs DEF SeedsKept, PostsFit
<1>3. KeysFit'
  BY <1>1, IdleIs DEF SeedsKept, KeysFit
<1>4. MeantFits' /\ MountFits' /\ ArtifactFits'
  BY <1>1 DEF SeedsKept, MeantFits, MountFits, ArtifactFits
<1>5. "together" \notin marred' => \A s \in SeedTab : posted'[s] = Idle
  BY <1>1 DEF SeedsKept, AloneFits
<1>6. AloneFits'
  BY <1>5, IdleIs DEF AloneFits
<1>7. LiveFits'
  <2>1. marred' \intersect Losses = {} => "together" \notin marred'
    BY DEF Losses
  <2> QED
    BY <1>5, <2>1, IdleIs DEF LiveFits
<1> QED
  BY <1>2, <1>3, <1>4, <1>6, <1>7 DEF SeedsKept

LEMMA ApplyEndsKeeps ==
  ASSUME SeedsKept, UNCHANGED engine, NEW t \in SeedTab, ApplyEnds(t)
  PROVE  SeedsKept'
<1>1. PICK p : p = posted[t]
  OBVIOUS
<1>2. /\ Replays(p) /\ p.done = Len(p.list) /\ UNCHANGED <<engine, seeds, artifact, rows, meant>> /\ mounted' = TRUE
      /\ posted' = [posted EXCEPT ![t] = Idle] /\ marred' = IF p.fresh THEN marred \ {"wiped"} ELSE marred
  BY <1>1 DEF ApplyEnds, Answered, Goes, seedLive
<1>3. Inserting(p) /\ p # Idle /\ ~RemoveRecorded(p) /\ seeds \in Seq(Row)
  BY <1>2, IdleIs DEF Replays, Inserting, RemoveRecorded, SeedsKept, PostsFit
<1>4. /\ "together" \in marred' <=> "together" \in marred
      /\ "mistaken" \in marred' <=> "mistaken" \in marred
      /\ "outdated" \in marred' <=> "outdated" \in marred
  BY <1>2
<1>5. ASSUME marred' \intersect Losses = {} PROVE rows = RowsOf(engine, seeds)
  <2>1. "together" \notin marred
    BY <1>4, <1>5 DEF Losses
  <2>2. p.list = seeds /\ (p.fresh => rows = RowsOf(engine, First(seeds, p.done)))
    BY <1>1, <1>2, <1>3, <2>1 DEF SeedsKept, AloneFits
  <2>3. CASE p.fresh
    BY <1>2, <1>3, <2>2, <2>3, FirstOnes
  <2>4. CASE ~p.fresh
    <3>1. rows = Between(engine, seeds, p.done)
      BY <1>1, <1>2, <1>3, <1>5, <2>4 DEF SeedsKept, LiveFits
    <3> QED
      BY <1>2, <1>3, <2>2, <3>1, BetweenEnds
  <2> QED
    BY <2>3, <2>4
<1> QED
  BY <1>1, <1>2, <1>3, <1>4, <1>5, PostEnds

\* A request that gets no further leaves the rows of the entries, or its mark.
LEMMA LosesOrNot ==
  ASSUME SeedsKept, NEW t \in SeedTab, marred \intersect Losses = {}, Loses(posted[t]) = {}, posted[t] # Idle
  PROVE  rows = RowsOf(engine, seeds)
<1>1. PICK p : p = posted[t]
  OBVIOUS
<1>2. p \in Posted /\ seeds \in Seq(Row) /\ (Inserting(p) => p.done <= Len(p.list))
  BY <1>1 DEF SeedsKept, PostsFit
<1>3. ~AddLive(p) /\ p.of # "remove"
  BY <1>1 DEF Loses, AddLive
<1>4. "together" \notin marred
  BY DEF Losses
<1>5. CASE Inserting(p)
  <2>1. rows = Between(engine, seeds, p.done) /\ p.list = seeds
    BY <1>1, <1>4, <1>5 DEF SeedsKept, LiveFits, AloneFits
  <2>2. p.done \in Nat /\ p.at \in {"made", "broken"} /\ p.of = "apply" /\ Len(p.list) \in Nat
    <3>1. p.list \in Seq(Row) /\ p.done \in Nat /\ p.at \in {"made", "broken"}
      BY <1>2, <1>5, PostShapes
    <3> QED
      BY <1>5, <3>1 DEF Inserting
  <2>3. ~Late(engine) \/ p.done = 0 \/ p.done = Len(seeds)
    <3>1. ~(Upserts /\ p.done \in 1..Len(p.list) - 1)
      BY <1>1, <2>2 DEF Loses
    <3> QED
      BY <1>2, <1>5, <2>1, <2>2, <3>1 DEF Upserts, Late
  <2> QED
    BY <1>2, <2>1, <2>3, BetweenEnds
<1>6. CASE ~Inserting(p)
  <2>1. \A s \in SeedTab : s # t => posted[s] = Idle
    BY <1>4 DEF SeedsKept, AloneFits
  <2> QED
    BY <1>1, <1>3, <1>6, <2>1, IdleIs DEF SeedsKept, LiveFits
<1> QED
  BY <1>5, <1>6

\* The marks are those that except the live rows.
LEMMA LosesAre ==
  ASSUME NEW p
  PROVE  Loses(p) \subseteq Losses /\ "mistaken" \notin Loses(p) /\ (RemoveRecorded(p) <=> "outdated" \in Loses(p))
BY DEF Loses, Losses, RemoveRecorded

LEMMA BreaksOffKeeps ==
  ASSUME SeedsKept, UNCHANGED engine, NEW t \in SeedTab, BreaksOff(t)
  PROVE  SeedsKept'
<1>1. /\ posted[t] # Idle /\ posted[t].at = "broken" /\ posted' = [posted EXCEPT ![t] = Idle]
      /\ marred' = marred \union Loses(posted[t])
      /\ UNCHANGED <<engine, seeds, artifact, mounted, rows, meant>>
  BY DEF BreaksOff, Goes, seedFiles, seedLive
<1>2. ~RemoveRecorded(posted[t])
  BY <1>1 DEF RemoveRecorded
<1>3. /\ "together" \in marred => "together" \in marred'
      /\ "mistaken" \in marred' <=> "mistaken" \in marred
      /\ "outdated" \in marred' <=> "outdated" \in marred
  BY <1>1, <1>2, LosesAre
<1>4. ASSUME marred' \intersect Losses = {} PROVE rows = RowsOf(engine, seeds)
  <2>1. marred \intersect Losses = {} /\ Loses(posted[t]) = {}
    BY <1>1, <1>4, LosesAre
  <2> QED
    BY <1>1, <2>1, LosesOrNot
<1> QED
  BY <1>1, <1>2, <1>3, <1>4, PostEnds

LEMMA AddAppliesKeeps ==
  ASSUME SeedsKept, UNCHANGED engine, NEW t \in SeedTab, AddApplies(t)
  PROVE  SeedsKept'
<1>1. posted[t].of = "add" /\ posted[t].at = "asked" /\ ~AddLive(posted[t]) /\ posted[t].of # "remove" /\ ~Inserting(posted[t])
  BY DEF AddApplies, AddLive, Inserting
<1>2. CASE ~(serving /\ ~(Upserts /\ posted[t].row.key = Keyless))
  <2>1. Failed(t)
    BY <1>2, Zenon DEF AddApplies
  <2> QED
    BY <1>1, <2>1, FailedKeeps
<1>3. CASE serving /\ ~(Upserts /\ posted[t].row.key = Keyless)
  <2>1. PICK p : p = [posted[t] EXCEPT !.at = "live"]
    OBVIOUS
  <2>2. /\ rows' = Insert(rows, posted[t].row) /\ posted' = [posted EXCEPT ![t] = p]
        /\ UNCHANGED <<engine, seeds, artifact, mounted, meant, marred>>
    BY <1>3, <2>1 DEF AddApplies, Goes, seedFiles
  <2>3. posted[t] \in Posted /\ posted \in [SeedTab -> Posted] /\ engine \in Engines /\ seeds \in Seq(Row)
    BY DEF SeedsKept, PostsFit
  <2>4. posted[t].row \in Row /\ posted[t] # Idle /\ p \in Posted /\ AddLive(p) /\ p.row = posted[t].row
    BY <1>1, <2>1, <2>3, PostShapes DEF AddLive
  <2>5. p.of # "remove" /\ ~Replays(p) /\ ~Inserting(p) /\ p # Idle
    BY <2>4, IdleIs DEF AddLive, Replays, Inserting
  <2>6. /\ posted'[t] = p /\ \A s \in SeedTab : s # t => posted'[s] = posted[s]
        /\ posted' \in [SeedTab -> Posted]
    BY <2>2, <2>3, <2>4
  <2>7. PostsFit'
    BY <2>2, <2>3, <2>5, <2>6 DEF SeedsKept, PostsFit
  <2>8. KeysFit'
    BY <1>3, <2>2, <2>4, <2>6 DEF SeedsKept, KeysFit, Late, Upserts
  <2>9. MeantFits' /\ MountFits'
    BY <2>2 DEF SeedsKept, MeantFits, MountFits
  <2>10. ArtifactFits'
    BY <1>1, <2>2, <2>6 DEF SeedsKept, ArtifactFits, RemoveRecorded
  <2>11. AloneFits'
    <3>1. "together" \notin marred => \A s \in SeedTab : s # t => posted'[s] = Idle
      BY <2>4, <2>6 DEF SeedsKept, AloneFits
    <3> QED
      BY <2>2, <2>5, <2>6, <3>1, IdleIs DEF AloneFits
  <2>12. ASSUME marred \intersect Losses = {}
         PROVE  /\ rows' = RowsOf(engine, Append(seeds, p.row))
                /\ \A s \in SeedTab : s # t => posted'[s] = Idle
    <3>1. "together" \notin marred
      BY <2>12 DEF Losses
    <3>2. \A s \in SeedTab : s # t => posted[s] = Idle
      BY <2>4, <3>1 DEF SeedsKept, AloneFits
    <3>3. \A s \in SeedTab : ~AddLive(posted[s]) /\ posted[s].of # "remove" /\ ~Inserting(posted[s])
      BY <1>1, <3>2, IdleIs
    <3>4. rows = RowsOf(engine, seeds)
      BY <2>12, <3>3 DEF SeedsKept, LiveFits
    <3>5. Insert(RowsOf(engine, seeds), p.row) = RowsOf(engine, Append(seeds, p.row))
      BY <2>3, <2>4, InsertedIs
    <3> QED
      BY <2>2, <2>4, <2>6, <3>2, <3>4, <3>5
  <2>13. LiveFits'
    BY <2>2, <2>4, <2>5, <2>6, <2>12, IdleIs DEF LiveFits
  <2> QED
    BY <2>7, <2>8, <2>9, <2>10, <2>11, <2>13 DEF SeedsKept
<1> QED
  BY <1>2, <1>3

LEMMA AddRecordsKeeps ==
  ASSUME SeedsKept, UNCHANGED engine, NEW t \in SeedTab, AddRecords(t)
  PROVE  SeedsKept'
<1>1. posted[t].of = "add" /\ posted[t].at = "live" /\ AddLive(posted[t])
  BY DEF AddRecords, AddLive
<1>2. PICK r, list : r = posted[t].row /\ list = Append(seeds, r)
  OBVIOUS
<1>3. /\ seeds' = list /\ artifact' = list /\ mounted' = TRUE /\ meant' = Plus1(meant, r)
      /\ posted' = [posted EXCEPT ![t] = Idle]
      /\ UNCHANGED <<engine, rows, marred>>
  BY <1>2 DEF AddRecords, Answered, Goes, seedLive
<1>4. posted[t] \in Posted /\ posted \in [SeedTab -> Posted] /\ engine \in Engines /\ seeds \in Seq(Row)
  BY DEF SeedsKept, PostsFit
<1>5. r \in Row /\ posted[t] # Idle
  BY <1>1, <1>2, <1>4, PostShapes
<1>6. list \in Seq(Row) /\ \A x \in ToSet(list) : x = r \/ x \in ToSet(seeds)
  <2>1. /\ list \in Seq(Row) /\ DOMAIN seeds = 1..Len(seeds)
        /\ DOMAIN list = 1..Len(seeds) + 1 /\ list[Len(seeds) + 1] = r
        /\ \A i \in 1..Len(seeds) : list[i] = seeds[i]
        /\ \A i \in 1..Len(seeds) + 1 : i \in 1..Len(seeds) \/ i = Len(seeds) + 1
    BY <1>2, <1>4, <1>5, ListGrows
  <2> QED
    BY <2>1 DEF ToSet
<1>7. Idle \in Posted /\ Idle.of = "none" /\ ~AddLive(Idle) /\ ~Replays(Idle) /\ ~Inserting(Idle)
  BY IdleIs
<1>8. /\ posted'[t] = Idle /\ \A s \in SeedTab : s # t => posted'[s] = posted[s]
      /\ posted' \in [SeedTab -> Posted]
  BY <1>3, <1>4, <1>7
<1>9. PostsFit'
  BY <1>3, <1>4, <1>6, <1>7, <1>8 DEF SeedsKept, PostsFit
<1>10. KeysFit'
  BY <1>1, <1>2, <1>3, <1>6, <1>7, <1>8 DEF SeedsKept, KeysFit
<1>11. MeantFits'
  <2>1. Count(Append(seeds, r)) = Plus1(Count(seeds), r)
    BY <1>4, <1>5, CountMore
  <2> QED
    BY <1>2, <1>3, <2>1 DEF SeedsKept, MeantFits
<1>12. MountFits' /\ ArtifactFits'
  BY <1>3 DEF MountFits, ArtifactFits
<1>13. ASSUME "together" \notin marred PROVE \A s \in SeedTab : posted'[s] = Idle
  BY <1>5, <1>8, <1>13 DEF SeedsKept, AloneFits
<1>14. AloneFits'
  BY <1>3, <1>7, <1>13 DEF AloneFits
<1>15. LiveFits'
  <2>1. ASSUME marred \intersect Losses = {}
        PROVE  rows = RowsOf(engine, list) /\ \A s \in SeedTab : posted'[s] = Idle
    <3>1. "together" \notin marred
      BY <2>1 DEF Losses
    <3> QED
      BY <1>1, <1>2, <1>13, <2>1, <3>1 DEF SeedsKept, LiveFits
  <2> QED
    BY <1>3, <1>7, <2>1 DEF LiveFits
<1> QED
  BY <1>9, <1>10, <1>11, <1>12, <1>14, <1>15 DEF SeedsKept

LEMMA RemoveStartsKeeps ==
  ASSUME SeedsKept, UNCHANGED engine, NEW t \in SeedTab, NEW i, RemoveStarts(t, i)
  PROVE  SeedsKept'
<1>1. PICK r, list : r = seeds[i] /\ list = RemoveAt(seeds, i)
  OBVIOUS
<1>2. PICK p : p = [of |-> "remove", at |-> "recorded", row |-> r, list |-> list]
  OBVIOUS
<1>3. /\ i \in DOMAIN seeds /\ posted[t] = Idle /\ posted' = [posted EXCEPT ![t] = p] /\ seeds' = list
      /\ meant' = (IF listed[t][i] = r THEN Minus1(meant, r) ELSE meant)
      /\ marred' = marred \union (IF Quiescent THEN {} ELSE {"together"})
                   \union (IF listed[t][i] = r THEN {} ELSE {"mistaken"})
                   \union (IF Confused(r, list) THEN {"confused"} ELSE {})
      /\ UNCHANGED <<engine, artifact, mounted, rows>>
  BY <1>1, <1>2 DEF RemoveStarts, seedLive
<1>4. posted \in [SeedTab -> Posted] /\ engine \in Engines /\ seeds \in Seq(Row)
  BY DEF SeedsKept, PostsFit
<1>5. list \in Seq(Row) /\ r \in Row /\ ToSet(list) \subseteq ToSet(seeds) /\ r \in ToSet(seeds)
  BY <1>1, <1>3, <1>4, EntriesLess DEF ToSet
<1>6. p \in Posted /\ p.of = "remove" /\ p.row = r /\ ~AddLive(p) /\ ~Replays(p) /\ ~Inserting(p) /\ RemoveRecorded(p) /\ p # Idle
  <2>1. p \in [of : {"remove"}, at : {"recorded"}, row : Row, list : Seq(Row)] /\ p.of = "remove"
        /\ p.at = "recorded" /\ p.row = r
    BY <1>2, <1>5
  <2> QED
    BY <2>1, IdleIs DEF Posted, AddLive, Replays, Inserting, RemoveRecorded
<1>7. /\ posted'[t] = p /\ \A s \in SeedTab : s # t => posted'[s] = posted[s]
      /\ posted' \in [SeedTab -> Posted]
  BY <1>3, <1>4, <1>6
<1>8. PostsFit'
  BY <1>3, <1>4, <1>5, <1>6, <1>7 DEF SeedsKept, PostsFit
<1>9. KeysFit'
  BY <1>3, <1>5, <1>6, <1>7 DEF SeedsKept, KeysFit
<1>10. MeantFits'
  <2>1. Count(RemoveAt(seeds, i)) = Minus1(Count(seeds), seeds[i])
    BY <1>3, <1>4, CountLess
  <2>2. "mistaken" \notin marred' => "mistaken" \notin marred /\ listed[t][i] = r
    BY <1>3
  <2> QED
    BY <1>1, <1>3, <2>1, <2>2 DEF SeedsKept, MeantFits
<1>11. MountFits'
  <2>1. seeds # <<>>
    <3>1. PICK none : none = <<>>
      OBVIOUS
    <3>2. DOMAIN none = {}
      BY <3>1
    <3> QED
      BY <1>3, <3>1, <3>2
  <2> QED
    BY <1>3, <2>1 DEF SeedsKept, MountFits
<1>12. ArtifactFits'
  BY <1>6, <1>7 DEF ArtifactFits
<1>13. ASSUME "together" \notin marred' PROVE "together" \notin marred /\ \A s \in SeedTab : posted[s] = Idle
  BY <1>3, <1>13 DEF Quiescent
<1>14. Idle.of # "remove" /\ ~AddLive(Idle) /\ ~Replays(Idle) /\ ~Inserting(Idle)
  BY IdleIs
<1>15. AloneFits'
  BY <1>6, <1>7, <1>13, <1>14 DEF AloneFits
<1>16. ASSUME marred' \intersect Losses = {} PROVE TakenOut(engine, r, list, rows) /\ \A s \in SeedTab : posted[s] = Idle
  <2>1. "together" \notin marred' /\ "confused" \notin marred' /\ marred \intersect Losses = {}
    BY <1>3, <1>16 DEF Losses
  <2>2. \A s \in SeedTab : posted[s] = Idle
    BY <1>13, <2>1
  <2>3. rows = RowsOf(engine, seeds)
    BY <1>14, <2>1, <2>2 DEF SeedsKept, LiveFits
  <2>4. ~ConfusedOf(engine, r, list)
    <3>1. ~Confused(r, list)
      BY <1>3, <2>1
    <3> QED
      BY <3>1 DEF Confused, ConfusedOf
  <2>5. Late(engine) => r.key # Keyless
    BY <1>5 DEF SeedsKept, KeysFit
  <2> QED
    BY <1>1, <1>3, <1>4, <2>2, <2>3, <2>4, <2>5 DEF TakenOut
<1>17. LiveFits'
  <2>1. ASSUME marred' \intersect Losses = {}, NEW s \in SeedTab
        PROVE  ~AddLive(posted'[s]) /\ ~Inserting(posted'[s]) /\ (posted'[s].of = "remove" => s = t)
    BY <1>6, <1>7, <1>14, <1>16, <2>1
  <2> QED
    BY <1>3, <1>6, <1>7, <1>16, <2>1 DEF LiveFits
<1> QED
  BY <1>8, <1>9, <1>10, <1>11, <1>12, <1>15, <1>17 DEF SeedsKept

LEMMA RemoveRegeneratesKeeps ==
  ASSUME SeedsKept, serving \in BOOLEAN, UNCHANGED engine, NEW t \in SeedTab, RemoveRegenerates(t)
  PROVE  SeedsKept'
<1>1. PICK p : p = [of |-> "remove", at |-> "made", row |-> posted[t].row, list |-> posted[t].list, read |-> serving]
  OBVIOUS
<1>2. /\ posted[t].of = "remove" /\ artifact' = seeds /\ posted' = [posted EXCEPT ![t] = p]
      /\ UNCHANGED <<engine, seeds, mounted, rows, meant, marred>>
  BY <1>1 DEF RemoveRegenerates, Goes, seedLive
<1>3. posted[t] \in Posted /\ posted \in [SeedTab -> Posted] /\ engine \in Engines /\ seeds \in Seq(Row)
  BY DEF SeedsKept, PostsFit
<1>4. /\ p \in Posted /\ p.of = "remove" /\ p.row = posted[t].row /\ p # Idle /\ posted[t] # Idle
      /\ ~AddLive(p) /\ ~Replays(p) /\ ~Inserting(p)
  <2>1. posted[t].row \in Row /\ posted[t].list \in Seq(Row) /\ posted[t] # Idle
    BY <1>2, <1>3, PostShapes
  <2>2. p \in [of : {"remove"}, at : {"made"}, row : Row, list : Seq(Row), read : BOOLEAN]
        /\ p.of = "remove" /\ p.row = posted[t].row
    BY <1>1, <2>1
  <2> QED
    BY <2>1, <2>2, IdleIs DEF Posted, AddLive, Replays, Inserting
<1>5. ~AddLive(posted[t]) /\ ~Replays(posted[t]) /\ ~Inserting(posted[t])
  BY <1>2 DEF AddLive, Replays, Inserting
<1>6. /\ posted'[t] = p /\ \A s \in SeedTab : s # t => posted'[s] = posted[s]
      /\ posted' \in [SeedTab -> Posted]
  BY <1>2, <1>3, <1>4
<1>7. PostsFit'
  BY <1>2, <1>3, <1>4, <1>6 DEF SeedsKept, PostsFit
<1>8. KeysFit'
  BY <1>2, <1>4, <1>6 DEF SeedsKept, KeysFit
<1>9. MeantFits' /\ MountFits' /\ ArtifactFits'
  BY <1>2 DEF SeedsKept, MeantFits, MountFits, ArtifactFits
<1>10. AloneFits'
  BY <1>2, <1>4, <1>5, <1>6 DEF SeedsKept, AloneFits
<1>11. LiveFits'
  BY <1>2, <1>4, <1>5, <1>6 DEF SeedsKept, LiveFits
<1> QED
  BY <1>7, <1>8, <1>9, <1>10, <1>11 DEF SeedsKept

LEMMA RemoveDeletesKeeps ==
  ASSUME SeedsKept, UNCHANGED engine, NEW t \in SeedTab, RemoveDeletes(t)
  PROVE  SeedsKept'
<1>1. PICK p, surely : p = posted[t] /\ surely = (serving /\ engine # "cassandra" /\ (p.read \/ engine = "postgres"))
  OBVIOUS
<1>2. /\ p.of = "remove" /\ p.at = "made" /\ posted' = [posted EXCEPT ![t] = Idle]
      /\ serving => rows' \in RemovedFrom(rows, p)
      /\ marred' = IF surely THEN marred ELSE marred \union {"kept"}
      /\ UNCHANGED <<engine, seeds, artifact, mounted, meant>>
  BY <1>1 DEF RemoveDeletes, Answered, Goes, seedFiles
<1>3. engine \in Engines /\ p # Idle /\ ~RemoveRecorded(p)
  BY <1>2, IdleIs DEF SeedsKept, PostsFit, RemoveRecorded
<1>4. /\ "together" \in marred => "together" \in marred'
      /\ "mistaken" \in marred' <=> "mistaken" \in marred
      /\ "outdated" \in marred' <=> "outdated" \in marred
  BY <1>2
<1>5. ASSUME marred' \intersect Losses = {} PROVE rows' = RowsOf(engine, seeds)
  <2>1. surely /\ marred \intersect Losses = {}
    BY <1>2, <1>5 DEF Losses
  <2>2. serving /\ engine # "cassandra" /\ (p.read \/ engine = "postgres")
    BY <1>1, <2>1
  <2>3. PICK r : r = p.row
    OBVIOUS
  <2>4. rows' \in Deleted(rows, r)
    BY <1>2, <2>2, <2>3 DEF RemovedFrom
  <2>5. TakenOut(engine, r, seeds, rows)
    BY <1>1, <1>2, <2>1, <2>3 DEF SeedsKept, LiveFits
  <2>6. PICK old \in Seq(Row) : \E i \in DOMAIN old :
          /\ seeds = RemoveAt(old, i) /\ r = old[i] /\ rows = RowsOf(engine, old)
          /\ ~ConfusedOf(engine, r, seeds) /\ (Late(engine) => r.key # Keyless)
    BY <2>5 DEF TakenOut
  <2>7. PICK i \in DOMAIN old :
          /\ seeds = RemoveAt(old, i) /\ r = old[i] /\ rows = RowsOf(engine, old)
          /\ ~ConfusedOf(engine, r, seeds) /\ (Late(engine) => r.key # Keyless)
    BY <2>6
  <2>8. ~Confused(old[i], RemoveAt(old, i))
    BY <2>7 DEF Confused, ConfusedOf
  <2>9. engine = "dynamodb" => old[i].key # Keyless
    BY <2>7 DEF Late
  <2>10. rows' \in Deleted(RowsOf(engine, old), old[i])
    BY <2>4, <2>7
  <2>11. rows' = RowsOf(engine, RemoveAt(old, i))
    BY <1>3, <2>2, <2>8, <2>9, <2>10, DeletedIs
  <2> QED
    BY <2>7, <2>11
<1> QED
  BY <1>1, <1>2, <1>3, <1>4, <1>5, PostEnds

\* A client that is stopped leaves its request as it was, but for going on.
LEMMA SeveredIs ==
  ASSUME SeedsKept
  PROVE  /\ Severed \in [SeedTab -> Posted]
         /\ \A s \in SeedTab :
              /\ Severed[s].of = posted[s].of /\ (Severed[s] = Idle <=> posted[s] = Idle)
              /\ AddLive(Severed[s]) <=> AddLive(posted[s])
              /\ Inserting(Severed[s]) <=> Inserting(posted[s])
              /\ ~Replays(Severed[s])
              /\ AddLive(posted[s]) => Severed[s].row = posted[s].row
              /\ Inserting(posted[s]) => /\ Severed[s].list = posted[s].list /\ Severed[s].done = posted[s].done
                                         /\ Severed[s].fresh = posted[s].fresh
              /\ posted[s].of = "remove" => Severed[s] = posted[s]
<1>1. ASSUME NEW s \in SeedTab
      PROVE  /\ Severed[s] \in Posted
             /\ Severed[s].of = posted[s].of /\ (Severed[s] = Idle <=> posted[s] = Idle)
             /\ AddLive(Severed[s]) <=> AddLive(posted[s])
             /\ Inserting(Severed[s]) <=> Inserting(posted[s])
             /\ ~Replays(Severed[s])
             /\ AddLive(posted[s]) => Severed[s].row = posted[s].row
             /\ Inserting(posted[s]) => /\ Severed[s].list = posted[s].list /\ Severed[s].done = posted[s].done
                                        /\ Severed[s].fresh = posted[s].fresh
             /\ posted[s].of = "remove" => Severed[s] = posted[s]
  <2>1. PICK p, q : p = posted[s] /\ q = Severed[s]
    OBVIOUS
  <2>2. p \in Posted
    BY <2>1 DEF SeedsKept, PostsFit
  <2>3. q = IF ClientRuns(p) THEN [p EXCEPT !.at = "broken"] ELSE p
    BY <2>1 DEF Severed
  <2>4. CASE p.of = "add" /\ p.at = "live"
    <3>1. q \in Posted /\ q.of = "add" /\ q.at = "broken" /\ q.row = p.row /\ p # Idle
      BY <2>2, <2>3, <2>4, PostShapes DEF ClientRuns
    <3> QED
      BY <2>1, <2>4, <3>1, IdleIs DEF AddLive, Inserting, Replays
  <2>5. CASE Replays(p)
    <3>1. Inserting(p) /\ p.of = "apply" /\ p # Idle
      BY <2>5, IdleIs DEF Replays, Inserting
    <3>2. /\ q \in Posted /\ q.of = "apply" /\ q.at = "broken"
          /\ q.list = p.list /\ q.done = p.done /\ q.fresh = p.fresh
      BY <2>2, <2>3, <2>5, <3>1, PostShapes DEF ClientRuns
    <3> QED
      BY <2>1, <3>1, <3>2, IdleIs DEF AddLive, Inserting, Replays
  <2>6. CASE ~(p.of = "add" /\ p.at = "live") /\ ~Replays(p)
    BY <2>1, <2>2, <2>3, <2>6 DEF ClientRuns
  <2> QED
    BY <2>4, <2>5, <2>6
<1>2. Severed = [s \in SeedTab |-> Severed[s]]
  BY DEF Severed
<1> QED
  BY <1>1, <1>2

\* The clients are stopped: what they were at stays in the rows, or is there no more.
LEMMA SeveredKeeps ==
  ASSUME SeedsKept, posted' = Severed, UNCHANGED <<engine, seeds, artifact, mounted, meant>>,
         "together" \in marred => "together" \in marred',
         "mistaken" \in marred' <=> "mistaken" \in marred, "outdated" \in marred' <=> "outdated" \in marred,
         marred' \intersect Losses = {} =>
           \/ marred \intersect Losses = {} /\ rows' = rows
           \/ Quiescent /\ rows' = RowsOf(engine, seeds)
  PROVE  SeedsKept'
<1>1. /\ posted' \in [SeedTab -> Posted]
      /\ \A s \in SeedTab :
           /\ posted'[s].of = posted[s].of /\ (posted'[s] = Idle <=> posted[s] = Idle)
           /\ AddLive(posted'[s]) <=> AddLive(posted[s])
           /\ Inserting(posted'[s]) <=> Inserting(posted[s])
           /\ ~Replays(posted'[s])
           /\ AddLive(posted[s]) => posted'[s].row = posted[s].row
           /\ Inserting(posted[s]) => /\ posted'[s].list = posted[s].list /\ posted'[s].done = posted[s].done
                                      /\ posted'[s].fresh = posted[s].fresh
           /\ posted[s].of = "remove" => posted'[s] = posted[s]
  BY SeveredIs
<1>2. PostsFit'
  BY <1>1 DEF SeedsKept, PostsFit
<1>3. KeysFit'
  BY <1>1 DEF SeedsKept, KeysFit
<1>4. MeantFits' /\ MountFits'
  BY DEF SeedsKept, MeantFits, MountFits
<1>5. ArtifactFits'
  BY <1>1 DEF SeedsKept, ArtifactFits, RemoveRecorded
<1>6. AloneFits'
  BY <1>1 DEF SeedsKept, AloneFits
<1>7. LiveFits'
  <2>1. CASE marred \intersect Losses = {} /\ rows' = rows
    BY <1>1, <2>1 DEF SeedsKept, LiveFits
  <2>2. CASE Quiescent /\ rows' = RowsOf(engine, seeds)
    <3>1. \A s \in SeedTab : posted'[s] = Idle
      BY <1>1, <2>2 DEF Quiescent
    <3> QED
      BY <2>2, <3>1, IdleIs DEF LiveFits
  <2>3. CASE marred' \intersect Losses # {}
    BY <2>3 DEF LiveFits
  <2> QED
    BY <2>1, <2>2, <2>3
<1> QED
  BY <1>2, <1>3, <1>4, <1>5, <1>6, <1>7 DEF SeedsKept

LEMMA GoesDownKeeps ==
  ASSUME SeedsKept, UNCHANGED engine, GoesDown
  PROVE  SeedsKept'
<1>1. posted' = Severed /\ UNCHANGED <<engine, seeds, artifact, mounted, rows, meant, marred>>
  BY DEF GoesDown, seedFiles
<1> QED
  BY <1>1, SeveredKeeps

LEMMA TablesWipedKeeps ==
  ASSUME SeedsKept, UNCHANGED engine, TablesWiped
  PROVE  SeedsKept'
<1>1. /\ marred' = marred \union {"wiped"} /\ rows' = NoRows
      /\ UNCHANGED <<engine, seeds, artifact, mounted, meant>>
      /\ posted' = [t \in SeedTab |-> IF Replays(posted[t]) THEN [posted[t] EXCEPT !.fresh = (posted[t].done = 0)]
                                      ELSE posted[t]]
  BY DEF TablesWiped, seedFiles
<1>2. engine \in Engines /\ seeds \in Seq(Row)
  BY DEF SeedsKept, PostsFit
<1>3. ASSUME NEW s \in SeedTab
      PROVE  /\ posted'[s] \in Posted /\ (~Replays(posted[s]) => posted'[s] = posted[s])
             /\ (posted'[s] = Idle <=> posted[s] = Idle) /\ (AddLive(posted'[s]) <=> AddLive(posted[s]))
             /\ AddLive(posted[s]) => posted'[s].row = posted[s].row
             /\ Inserting(posted'[s]) <=> Inserting(posted[s])
             /\ Inserting(posted[s]) => posted'[s].list = posted[s].list /\ posted'[s].done = posted[s].done
             /\ Replays(posted'[s]) /\ posted'[s].fresh => posted'[s].done = 0
             /\ RemoveRecorded(posted'[s]) <=> RemoveRecorded(posted[s])
  <2>1. PICK p, q : p = posted[s] /\ q = posted'[s]
    OBVIOUS
  <2>2. p \in Posted
    BY <2>1 DEF SeedsKept, PostsFit
  <2>3. q = IF Replays(p) THEN [p EXCEPT !.fresh = (p.done = 0)] ELSE p
    BY <1>1, <2>1
  <2>4. CASE Replays(p)
    <3>1. Inserting(p) /\ p.of = "apply" /\ p.at = "made" /\ p # Idle
      BY <2>4, IdleIs DEF Replays, Inserting
    <3>2. PICK b \in BOOLEAN : b = (p.done = 0)
      OBVIOUS
    <3>3. /\ q \in Posted /\ q.of = "apply" /\ q.at = p.at /\ q.list = p.list
          /\ q.done = p.done /\ q.fresh = b
      <4>1. PICK o \in Posted : /\ o = [p EXCEPT !.fresh = b] /\ o.of = "apply" /\ o.at = p.at /\ o.list = p.list
                                /\ o.done = p.done /\ o.fresh = b
        BY <2>2, <3>1, InsertingShapes
      <4>2. q = [p EXCEPT !.fresh = b]
        BY <2>3, <2>4, <3>2
      <4> QED
        BY <4>1, <4>2
    <3> QED
      BY <2>1, <2>4, <3>1, <3>2, <3>3, IdleIs DEF AddLive, Inserting, Replays, RemoveRecorded
  <2>5. CASE ~Replays(p)
    BY <2>1, <2>2, <2>3, <2>5
  <2> QED
    BY <2>4, <2>5
<1>4. PostsFit'
  <2>1. posted' \in [SeedTab -> Posted]
    <3>1. posted' = [t \in SeedTab |-> posted'[t]]
      BY <1>1
    <3> QED
      BY <1>3, <3>1
  <2> QED
    BY <1>1, <1>2, <1>3, <2>1 DEF SeedsKept, PostsFit
<1>5. KeysFit'
  BY <1>1, <1>3 DEF SeedsKept, KeysFit
<1>6. MeantFits' /\ MountFits'
  BY <1>1 DEF SeedsKept, MeantFits, MountFits
<1>7. ArtifactFits'
  BY <1>1, <1>3 DEF SeedsKept, ArtifactFits
<1>8. AloneFits'
  <2>1. NoRows = RowsOf(engine, First(seeds, 0))
    BY <1>2, FirstOnes, NothingMakesNone
  <2> QED
    BY <1>1, <1>3, <2>1 DEF SeedsKept, AloneFits
<1>9. LiveFits'
  BY <1>1 DEF LiveFits, Losses
<1> QED
  BY <1>4, <1>5, <1>6, <1>7, <1>8, <1>9 DEF SeedsKept

LEMMA RebuiltAnewKeeps ==
  ASSUME SeedsKept, UNCHANGED engine, RebuiltAnew
  PROVE  SeedsKept'
<1>1. /\ rows' = IF mounted THEN Replayed(NoRows, artifact) ELSE NoRows
      /\ marred' = IF Quiescent THEN marred \ {"wiped", "doubled", "halfway", "kept", "confused", "unrecorded"}
                   ELSE marred \union {"together"}
      /\ posted' = Severed /\ UNCHANGED <<engine, seeds, artifact, mounted, meant>>
  BY DEF RebuiltAnew, seedFiles
<1>2. /\ "together" \in marred => "together" \in marred'
      /\ "mistaken" \in marred' <=> "mistaken" \in marred
      /\ "outdated" \in marred' <=> "outdated" \in marred
  BY <1>1
<1>3. ASSUME marred' \intersect Losses = {} PROVE Quiescent /\ rows' = RowsOf(engine, seeds)
  <2>1. Quiescent /\ "outdated" \notin marred
    BY <1>1, <1>3 DEF Losses
  <2>2. artifact = seeds /\ seeds \in Seq(Row)
    BY <2>1, IdleIs DEF SeedsKept, ArtifactFits, PostsFit, Quiescent
  <2>3. CASE mounted
    BY <1>1, <2>1, <2>2, <2>3, ReplayedIs
  <2>4. CASE ~mounted
    <3>1. seeds = <<>>
      BY <2>4 DEF SeedsKept, MountFits
    <3> QED
      BY <1>1, <2>1, <2>4, <3>1, NothingMakesNone
  <2> QED
    BY <2>3, <2>4
<1> QED
  BY <1>1, <1>2, <1>3, SeveredKeeps

LEMMA SeedsStoppedKeeps ==
  ASSUME SeedsKept, UNCHANGED engine, SeedsStopped
  PROVE  SeedsKept'
<1>1. /\ posted' = [t \in SeedTab |-> Idle] /\ ~Quiescent
      /\ marred' = marred \union UNION {Loses(posted[t]) : t \in SeedTab}
      /\ UNCHANGED <<engine, seeds, artifact, mounted, rows, meant>>
  BY DEF SeedsStopped, seedFiles, seedLive
<1>2. /\ marred \subseteq marred' /\ ("mistaken" \in marred' => "mistaken" \in marred)
      /\ \A x \in SeedTab : Loses(posted[x]) \subseteq marred'
      /\ \A x \in SeedTab : RemoveRecorded(posted[x]) => "outdated" \in marred'
  BY <1>1, LosesAre
<1>3. \A s \in SeedTab : posted'[s] = Idle
  BY <1>1
<1>4. PostsFit'
  BY <1>1, <1>3, IdleIs DEF SeedsKept, PostsFit
<1>5. KeysFit'
  BY <1>1, <1>3, IdleIs DEF SeedsKept, KeysFit
<1>6. MeantFits' /\ MountFits' /\ ArtifactFits'
  BY <1>1, <1>2 DEF SeedsKept, MeantFits, MountFits, ArtifactFits
<1>7. AloneFits'
  BY <1>3, IdleIs DEF AloneFits
<1>8. LiveFits'
  <2>1. ASSUME marred' \intersect Losses = {} PROVE rows = RowsOf(engine, seeds)
    <3>1. PICK t \in SeedTab : posted[t] # Idle
      BY <1>1 DEF Quiescent
    <3>2. marred \intersect Losses = {} /\ Loses(posted[t]) = {}
      BY <1>2, <2>1, LosesAre
    <3> QED
      BY <3>1, <3>2, LosesOrNot
  <2> QED
    BY <1>1, <1>3, <2>1, IdleIs DEF LiveFits
<1> QED
  BY <1>4, <1>5, <1>6, <1>7, <1>8 DEF SeedsKept

LEMMA ServingStays == serving \in BOOLEAN /\ [SeedsNext]_seedVars => serving' \in BOOLEAN
BY DEF SeedsNext, seedVars, seedLive, Lists, ApplyPosts, ApplyRegenerates, ApplyInserts, ApplyEnds, BreaksOff,
       AddApplies, AddRecords, RemoveRegenerates, RemoveDeletes, AddStarts, RemoveStarts, Failed,
       GoesDown, ComesUp, TablesWiped, RebuiltAnew, SeedsStopped

LEMMA SeedsStep == SeedsInv /\ [SeedsNext]_seedVars => SeedsInv'
<1> SUFFICES ASSUME SeedsKept, serving \in BOOLEAN, [SeedsNext]_seedVars PROVE SeedsKept'
  BY ServingStays DEF SeedsInv
<1>1. CASE UNCHANGED seedVars
  <2>1. UNCHANGED <<engine, seeds, artifact, mounted, rows, posted, meant, marred>>
    BY <1>1 DEF seedVars, seedFiles, seedLive
  <2> QED
    BY <2>1, SeedsSame
<1>2. CASE SeedsNext
  <2> SUFFICES ASSUME UNCHANGED engine PROVE SeedsKept'
    BY <1>2 DEF SeedsNext
  <2>1. ASSUME NEW t \in SeedTab, Lists(t) PROVE SeedsKept'
    <3>1. UNCHANGED <<engine, seeds, artifact, mounted, rows, posted, meant, marred>>
      BY <2>1 DEF Lists, seedFiles, seedLive
    <3> QED
      BY <3>1, SeedsSame
  <2>2. ASSUME NEW t \in SeedTab, ApplyPosts(t) PROVE SeedsKept'
    BY <2>2, ApplyPostsKeeps
  <2>3. ASSUME NEW t \in SeedTab, ApplyRegenerates(t) PROVE SeedsKept'
    BY <2>3, ApplyRegeneratesKeeps
  <2>4. ASSUME NEW t \in SeedTab, ApplyInserts(t) PROVE SeedsKept'
    BY <2>4, ApplyInsertsKeeps
  <2>5. ASSUME NEW t \in SeedTab, AddApplies(t) PROVE SeedsKept'
    BY <2>5, AddAppliesKeeps
  <2>6. ASSUME NEW t \in SeedTab, AddRecords(t) PROVE SeedsKept'
    BY <2>6, AddRecordsKeeps
  <2>7. ASSUME NEW t \in SeedTab, RemoveRegenerates(t) PROVE SeedsKept'
    BY <2>7, RemoveRegeneratesKeeps
  <2>8. ASSUME NEW t \in SeedTab, RemoveDeletes(t) PROVE SeedsKept'
    BY <2>8, RemoveDeletesKeeps
  <2>9. ASSUME NEW t \in SeedTab, NEW r \in Row, AddStarts(t, r) PROVE SeedsKept'
    BY <2>9, AddStartsKeeps
  <2>10. ASSUME NEW t \in SeedTab, NEW i \in DOMAIN listed[t], RemoveStarts(t, i) PROVE SeedsKept'
    BY <2>10, RemoveStartsKeeps
  <2>11. CASE ComesUp
    <3>1. UNCHANGED <<engine, seeds, artifact, mounted, rows, posted, meant, marred>>
      BY <2>11 DEF ComesUp, seedFiles
    <3> QED
      BY <3>1, SeedsSame
  <2>12. CASE TablesWiped
    BY <2>12, TablesWipedKeeps
  <2>13. CASE RebuiltAnew
    BY <2>13, RebuiltAnewKeeps
  <2>14. CASE SeedsStopped
    BY <2>14, SeedsStoppedKeeps
  <2>15. CASE GoesDown
    BY <2>15, GoesDownKeeps
  <2>16. ASSUME NEW t \in SeedTab, ApplyEnds(t) PROVE SeedsKept'
    BY <2>16, ApplyEndsKeeps
  <2>17. ASSUME NEW t \in SeedTab, BreaksOff(t) PROVE SeedsKept'
    BY <2>17, BreaksOffKeeps
  <2> QED
    BY <1>2, <2>1, <2>2, <2>3, <2>4, <2>5, <2>6, <2>7, <2>8, <2>9, <2>10, <2>11, <2>12, <2>13, <2>14, <2>15, <2>16, <2>17,
       Zenon DEF SeedsNext
<1> QED
  BY <1>1, <1>2

\* Whenever no request is under way, seeds.json has the entries that were added and not removed,
\* the artifact has just these, and so has the live database, but for what is excepted.
THEOREM SeedsHoldAlways == SeedsSpec => []SeedsHold
<1>1. SeedsInit => SeedsInv
  BY SeedsInitial
<1>2. SeedsInv /\ [SeedsNext]_seedVars => SeedsInv'
  BY SeedsStep
<1>3. SeedsInv => SeedsHold
  BY SeedsFit
<1> QED
  BY <1>1, <1>2, <1>3, PTL DEF SeedsSpec
=============================================================================
