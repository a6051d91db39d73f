------------------------ MODULE WebsocketRelay_proofs ------------------------
(***************************************************************************)
(* Proofs about WebsocketRelay, for any number of servers, clients,         *)
(* connections, frames and faults.                                          *)
(***************************************************************************)
EXTENDS WebsocketRelay, SequenceTheorems, FiniteSetTheorems, WellFoundedInduction, TLAPS

Conn == [client : Clients, server : Servers, st : {"open", "lost", "closing", "closed"},
         born : Nat, got : Seq(Nat)]
Cmd == [cmd : {"set", "del"}, client : Clients] \union [cmd : {"routeGet", "hookGet"}, msg : Nat]
Frame == [via : Servers, to : Clients]

\* The local map of a server names sockets of that server and client only.
MapTyped ==
  \A s \in Servers, c \in Clients :
    localMap[s][c] # 0 => localMap[s][c] \in SocketsOf(c) /\ conns[localMap[s][c]].server = s

Types ==
  /\ conns \in Seq(Conn) /\ msgs \in Seq(Frame)
  /\ localMap \in [Servers -> [Clients -> Nat]] /\ MapTyped
  /\ presence \in [Clients -> Servers \union {None}]
  /\ issued \in [Servers -> Seq(Cmd)]
  /\ bus \in [Servers -> Seq(Nat)]
  /\ moved \subseteq Clients /\ faults \in 0..MaxFaults
  /\ unanswered \subseteq Sockets

Sent(m) == m \in 1..Len(msgs)

\* The commands of a server, the entries of a channel and what a socket was sent, by place.
At(s, i, command) == i \in DOMAIN issued[s] /\ issued[s][i] = command
IsSet(s, i, c) == At(s, i, SetKey(c))
IsDel(s, i, c) == At(s, i, DelKey(c))
IsRoute(s, i, m) == At(s, i, RouteGet(m))
IsHook(s, i, m) == At(s, i, HookGet(m))
OnBus(t, i, m) == i \in DOMAIN bus[t] /\ bus[t][i] = m
Got(k, i, m) == k \in Sockets /\ i \in DOMAIN conns[k].got /\ conns[k].got[i] = m

\* Whatever is queued, carried or stored is a frame that was sent, and no closed socket is
\* waited for.
Bounds ==
  /\ \A k \in Sockets : conns[k].born <= Len(msgs)
  /\ \A s \in Servers, i \in Nat : \A m : IsRoute(s, i, m) \/ IsHook(s, i, m) \/ OnBus(s, i, m) => Sent(m)
  /\ \A k \in Nat, i \in Nat : \A m : Got(k, i, m) => Sent(m)
  /\ notified \subseteq 1..Len(msgs) /\ clean \subseteq 1..Len(msgs)
  /\ \A k \in unanswered : Alive(k)

-----------------------------------------------------------------------------
(* What steps do to the sequences of the state, place by place. *)

LEMMA ConnFields ==
  ASSUME Types
  PROVE  /\ Len(conns) \in Nat /\ DOMAIN conns = Sockets /\ Sockets = 1..Len(conns)
         /\ \A k \in Sockets :
              /\ conns[k] \in Conn /\ conns[k].client \in Clients /\ conns[k].server \in Servers
              /\ conns[k].st \in {"open", "lost", "closing", "closed"}
              /\ conns[k].born \in Nat /\ conns[k].got \in Seq(Nat)
              /\ Len(conns[k].got) \in Nat /\ DOMAIN conns[k].got = 1..Len(conns[k].got)
<1>1. Len(conns) \in Nat /\ DOMAIN conns = 1..Len(conns) /\ \A k \in 1..Len(conns) : conns[k] \in Conn
  BY LenProperties, ElementOfSeq DEF Types
<1>2. \A k \in 1..Len(conns) :
        /\ conns[k].client \in Clients /\ conns[k].server \in Servers
        /\ conns[k].st \in {"open", "lost", "closing", "closed"}
        /\ conns[k].born \in Nat /\ conns[k].got \in Seq(Nat)
  BY <1>1 DEF Conn
<1> QED
  BY <1>1, <1>2, LenProperties DEF Sockets

LEMMA Lengths ==
  ASSUME Types
  PROVE  /\ Len(msgs) \in Nat /\ DOMAIN msgs = 1..Len(msgs)
         /\ \A m \in 1..Len(msgs) : msgs[m].via \in Servers /\ msgs[m].to \in Clients
         /\ \A s \in Servers :
              /\ Len(issued[s]) \in Nat /\ DOMAIN issued[s] = 1..Len(issued[s]) /\ issued[s] \in Seq(Cmd)
              /\ \A i \in 1..Len(issued[s]) : issued[s][i] \in Cmd
              /\ Len(bus[s]) \in Nat /\ DOMAIN bus[s] = 1..Len(bus[s]) /\ bus[s] \in Seq(Nat)
              /\ \A i \in 1..Len(bus[s]) : bus[s][i] \in Nat
<1>1. Len(msgs) \in Nat /\ DOMAIN msgs = 1..Len(msgs) /\ \A m \in 1..Len(msgs) : msgs[m] \in Frame
  BY LenProperties, ElementOfSeq DEF Types
<1>2. ASSUME NEW s \in Servers
      PROVE  /\ Len(issued[s]) \in Nat /\ DOMAIN issued[s] = 1..Len(issued[s]) /\ issued[s] \in Seq(Cmd)
             /\ \A i \in 1..Len(issued[s]) : issued[s][i] \in Cmd
             /\ Len(bus[s]) \in Nat /\ DOMAIN bus[s] = 1..Len(bus[s]) /\ bus[s] \in Seq(Nat)
             /\ \A i \in 1..Len(bus[s]) : bus[s][i] \in Nat
  <2>1. issued[s] \in Seq(Cmd) /\ bus[s] \in Seq(Nat)
    BY DEF Types
  <2> QED
    BY <2>1, LenProperties, ElementOfSeq
<1> QED
  BY <1>1, <1>2 DEF Frame

\* The four commands are told apart, and by what they are about.
LEMMA CommandsDiffer ==
  /\ \A c, d : (SetKey(c) = SetKey(d) <=> c = d) /\ (DelKey(c) = DelKey(d) <=> c = d) /\ SetKey(c) # DelKey(d)
  /\ \A m, n : (RouteGet(m) = RouteGet(n) <=> m = n) /\ (HookGet(m) = HookGet(n) <=> m = n) /\ RouteGet(m) # HookGet(n)
  /\ \A c, m : SetKey(c) # RouteGet(m) /\ SetKey(c) # HookGet(m) /\ DelKey(c) # RouteGet(m) /\ DelKey(c) # HookGet(m)
<1>1. \A c : SetKey(c).cmd = "set" /\ SetKey(c).client = c /\ DelKey(c).cmd = "del" /\ DelKey(c).client = c
  BY DEF SetKey, DelKey
<1>2. \A m : RouteGet(m).cmd = "routeGet" /\ RouteGet(m).msg = m /\ HookGet(m).cmd = "hookGet" /\ HookGet(m).msg = m
  BY DEF RouteGet, HookGet
<1>3. \A c, d : (SetKey(c) = SetKey(d) <=> c = d) /\ (DelKey(c) = DelKey(d) <=> c = d) /\ SetKey(c) # DelKey(d)
  BY <1>1
<1>4. \A m, n : (RouteGet(m) = RouteGet(n) <=> m = n) /\ (HookGet(m) = HookGet(n) <=> m = n) /\ RouteGet(m) # HookGet(n)
  BY <1>2
<1>5. \A c, m : SetKey(c) # RouteGet(m) /\ SetKey(c) # HookGet(m) /\ DelKey(c) # RouteGet(m) /\ DelKey(c) # HookGet(m)
  BY <1>1, <1>2
<1> QED
  BY <1>3, <1>4, <1>5

LEMMA CommandShapes ==
  /\ \A c \in Clients : SetKey(c) \in Cmd /\ DelKey(c) \in Cmd
  /\ \A m \in Nat : RouteGet(m) \in Cmd /\ HookGet(m) \in Cmd
  /\ \A x \in Cmd :
       \/ x.cmd = "set" /\ x.client \in Clients /\ x = SetKey(x.client)
       \/ x.cmd = "del" /\ x.client \in Clients /\ x = DelKey(x.client)
       \/ x.cmd = "routeGet" /\ x.msg \in Nat /\ x = RouteGet(x.msg)
       \/ x.cmd = "hookGet" /\ x.msg \in Nat /\ x = HookGet(x.msg)
  BY DEF SetKey, DelKey, RouteGet, HookGet, Cmd

LEMMA Places ==
  ASSUME Types, NEW s \in Servers, NEW i
  PROVE  /\ \A x : At(s, i, x) => i \in 1..Len(issued[s]) /\ i \in Nat /\ x \in Cmd
         /\ \A m : OnBus(s, i, m) => i \in 1..Len(bus[s]) /\ i \in Nat /\ m \in Nat
         /\ \A k, m : Got(k, i, m) => /\ k \in Sockets /\ k \in Nat /\ i \in 1..Len(conns[k].got) /\ i \in Nat /\ m \in Nat
  BY ConnFields, Lengths, ElementOfSeq DEF At, OnBus, Got

LEMMA IssuedGrows ==
  ASSUME Types, NEW s \in Servers, NEW x \in Cmd, issued' = [issued EXCEPT ![s] = Append(@, x)]
  PROVE  /\ issued' \in [Servers -> Seq(Cmd)]
         /\ \A t \in Servers, i \in Nat : \A y :
              At(t, i, y)' <=> At(t, i, y) \/ (t = s /\ i = Len(issued[s]) + 1 /\ y = x)
<1>1. /\ Append(issued[s], x) \in Seq(Cmd) /\ Len(Append(issued[s], x)) = Len(issued[s]) + 1
      /\ \A i \in 1..Len(issued[s]) : Append(issued[s], x)[i] = issued[s][i]
      /\ Append(issued[s], x)[Len(issued[s]) + 1] = x
  BY Lengths, AppendProperties
<1>2. DOMAIN Append(issued[s], x) = 1..(Len(issued[s]) + 1)
  BY <1>1, LenProperties
<1>3. issued' \in [Servers -> Seq(Cmd)]
  BY <1>1 DEF Types
<1>4. issued'[s] = Append(issued[s], x) /\ \A t \in Servers \ {s} : issued'[t] = issued[t]
  BY DEF Types
<1>5. ASSUME NEW t \in Servers, NEW i \in Nat, NEW y
      PROVE  At(t, i, y)' <=> At(t, i, y) \/ (t = s /\ i = Len(issued[s]) + 1 /\ y = x)
  <2>1. CASE t = s
    BY <1>1, <1>2, <1>4, <2>1, Lengths DEF At
  <2>2. CASE t # s
    BY <1>4, <2>2 DEF At
  <2> QED
    BY <2>1, <2>2
<1> QED
  BY <1>3, <1>5

LEMMA IssuedShifts ==
  ASSUME Types, NEW s \in Servers, issued[s] # <<>>, issued' = [issued EXCEPT ![s] = Tail(@)]
  PROVE  /\ issued' \in [Servers -> Seq(Cmd)]
         /\ \A t \in Servers, i \in Nat : \A y :
              At(t, i, y)' <=> IF t = s THEN i # 0 /\ At(t, i + 1, y) ELSE At(t, i, y)
<1>1. /\ Tail(issued[s]) \in Seq(Cmd) /\ Len(Tail(issued[s])) = Len(issued[s]) - 1
      /\ \A i \in 1..(Len(issued[s]) - 1) : Tail(issued[s])[i] = issued[s][i + 1]
  BY Lengths, HeadTailProperties
<1>2. DOMAIN Tail(issued[s]) = 1..(Len(issued[s]) - 1)
  BY <1>1, LenProperties
<1>3. issued' \in [Servers -> Seq(Cmd)]
  BY <1>1 DEF Types
<1>4. issued'[s] = Tail(issued[s]) /\ \A t \in Servers \ {s} : issued'[t] = issued[t]
  BY DEF Types
<1>5. ASSUME NEW t \in Servers, NEW i \in Nat, NEW y
      PROVE  At(t, i, y)' <=> IF t = s THEN i # 0 /\ At(t, i + 1, y) ELSE At(t, i, y)
  <2>1. CASE t = s
    <3>1. DOMAIN issued'[s] = 1..(Len(issued[s]) - 1) /\ DOMAIN issued[s] = 1..Len(issued[s]) /\ Len(issued[s]) \in Nat
      BY <1>2, <1>4, Lengths
    <3>2. i \in DOMAIN issued'[s] <=> i # 0 /\ i + 1 \in DOMAIN issued[s]
      BY <3>1
    <3>3. i \in DOMAIN issued'[s] => issued'[s][i] = issued[s][i + 1]
      BY <1>1, <1>4, <3>1
    <3> QED
      BY <2>1, <3>2, <3>3 DEF At
  <2>2. CASE t # s
    BY <1>4, <2>2 DEF At
  <2> QED
    BY <2>1, <2>2
<1> QED
  BY <1>3, <1>5

LEMMA IssuedEmpties ==
  ASSUME Types, NEW s \in Servers, issued' = [issued EXCEPT ![s] = <<>>]
  PROVE  /\ issued' \in [Servers -> Seq(Cmd)]
         /\ \A t \in Servers, i \in Nat : \A y : At(t, i, y)' <=> t # s /\ At(t, i, y)
<1>1. <<>> \in Seq(Cmd) /\ DOMAIN <<>> = {}
  BY EmptySeq
<1>2. issued'[s] = <<>> /\ \A t \in Servers \ {s} : issued'[t] = issued[t]
  BY DEF Types
<1> QED
  BY <1>1, <1>2 DEF Types, At

LEMMA BusGrows ==
  ASSUME Types, NEW s \in Servers, NEW m \in Nat, bus' = [bus EXCEPT ![s] = Append(@, m)]
  PROVE  /\ bus' \in [Servers -> Seq(Nat)]
         /\ \A t \in Servers, i \in Nat : \A n :
              OnBus(t, i, n)' <=> OnBus(t, i, n) \/ (t = s /\ i = Len(bus[s]) + 1 /\ n = m)
<1>1. /\ Append(bus[s], m) \in Seq(Nat) /\ Len(Append(bus[s], m)) = Len(bus[s]) + 1
      /\ \A i \in 1..Len(bus[s]) : Append(bus[s], m)[i] = bus[s][i]
      /\ Append(bus[s], m)[Len(bus[s]) + 1] = m
  BY Lengths, AppendProperties
<1>2. DOMAIN Append(bus[s], m) = 1..(Len(bus[s]) + 1)
  BY <1>1, LenProperties
<1>3. bus' \in [Servers -> Seq(Nat)]
  BY <1>1 DEF Types
<1>4. bus'[s] = Append(bus[s], m) /\ \A t \in Servers \ {s} : bus'[t] = bus[t]
  BY DEF Types
<1>5. ASSUME NEW t \in Servers, NEW i \in Nat, NEW n
      PROVE  OnBus(t, i, n)' <=> OnBus(t, i, n) \/ (t = s /\ i = Len(bus[s]) + 1 /\ n = m)
  <2>1. CASE t = s
    BY <1>1, <1>2, <1>4, <2>1, Lengths DEF OnBus
  <2>2. CASE t # s
    BY <1>4, <2>2 DEF OnBus
  <2> QED
    BY <2>1, <2>2
<1> QED
  BY <1>3, <1>5

LEMMA BusShifts ==
  ASSUME Types, NEW s \in Servers, bus[s] # <<>>, bus' = [bus EXCEPT ![s] = Tail(@)]
  PROVE  /\ bus' \in [Servers -> Seq(Nat)]
         /\ \A t \in Servers, i \in Nat : \A n :
              OnBus(t, i, n)' <=> IF t = s THEN i # 0 /\ OnBus(t, i + 1, n) ELSE OnBus(t, i, n)
<1>1. /\ Tail(bus[s]) \in Seq(Nat) /\ Len(Tail(bus[s])) = Len(bus[s]) - 1
      /\ \A i \in 1..(Len(bus[s]) - 1) : Tail(bus[s])[i] = bus[s][i + 1]
  BY Lengths, HeadTailProperties
<1>2. DOMAIN Tail(bus[s]) = 1..(Len(bus[s]) - 1)
  BY <1>1, LenProperties
<1>3. bus' \in [Servers -> Seq(Nat)]
  BY <1>1 DEF Types
<1>4. bus'[s] = Tail(bus[s]) /\ \A t \in Servers \ {s} : bus'[t] = bus[t]
  BY DEF Types
<1>5. ASSUME NEW t \in Servers, NEW i \in Nat, NEW n
      PROVE  OnBus(t, i, n)' <=> IF t = s THEN i # 0 /\ OnBus(t, i + 1, n) ELSE OnBus(t, i, n)
  <2>1. CASE t = s
    <3>1. DOMAIN bus'[s] = 1..(Len(bus[s]) - 1) /\ DOMAIN bus[s] = 1..Len(bus[s]) /\ Len(bus[s]) \in Nat
      BY <1>2, <1>4, Lengths
    <3>2. i \in DOMAIN bus'[s] <=> i # 0 /\ i + 1 \in DOMAIN bus[s]
      BY <3>1
    <3>3. i \in DOMAIN bus'[s] => bus'[s][i] = bus[s][i + 1]
      BY <1>1, <1>4, <3>1
    <3> QED
      BY <2>1, <3>2, <3>3 DEF OnBus
  <2>2. CASE t # s
    BY <1>4, <2>2 DEF OnBus
  <2> QED
    BY <2>1, <2>2
<1> QED
  BY <1>3, <1>5

\* The sockets there are stay what they are, up to their state and what they have been sent.
SameSockets ==
  /\ Len(conns') = Len(conns)
  /\ \A k \in Sockets :
       /\ conns'[k].client = conns[k].client /\ conns'[k].server = conns[k].server
       /\ conns'[k].born = conns[k].born

\* Sockets change state: a closed one stays closed, and none comes up again.
Restated ==
  /\ SameSockets
  /\ \A k \in Sockets :
       /\ conns'[k].got = conns[k].got
       /\ conns[k].st = "closed" => conns'[k].st = "closed"
       /\ conns'[k].st \in {"open", "lost"} => conns'[k].st = conns[k].st \/ conns[k].st = "open"

\* A message is carried to a client.
Carried(k, m) ==
  /\ SameSockets
  /\ \A j \in Sockets :
       /\ conns'[j].st = conns[j].st
       /\ conns'[j].got = IF j = k THEN Append(conns[j].got, m) ELSE conns[j].got

LEMMA ReplaceOne ==
  ASSUME Types, NEW k \in Sockets, NEW new \in Conn, conns' = [conns EXCEPT ![k] = new]
  PROVE  /\ conns' \in Seq(Conn) /\ Len(conns') = Len(conns)
         /\ \A j \in 1..Len(conns) : conns'[j] = IF j = k THEN new ELSE conns[j]
<1>1. conns \in Seq(Conn) /\ k \in 1..Len(conns)
  BY DEF Types, Sockets
<1> QED
  BY <1>1, ExceptSeq

LEMMA RestateOne ==
  ASSUME Types, NEW k \in Sockets, NEW st \in {"lost", "closing", "closed"},
         conns' = [conns EXCEPT ![k].st = st],
         st \in {"lost", "closing"} => conns[k].st = "open"
  PROVE  /\ conns' \in Seq(Conn) /\ Restated /\ conns'[k].st = st
         /\ \A j \in Sockets \ {k} : conns'[j] = conns[j]
<1>1. Len(conns) \in Nat /\ DOMAIN conns = Sockets /\ Sockets = 1..Len(conns) /\ \A j \in Sockets : conns[j] \in Conn
  BY ConnFields
<1> DEFINE new == [conns[k] EXCEPT !.st = st]
<1>2. /\ new \in Conn /\ new.st = st /\ new.client = conns[k].client /\ new.server = conns[k].server
      /\ new.born = conns[k].born /\ new.got = conns[k].got
  BY <1>1 DEF Conn
<1>3. conns' = [conns EXCEPT ![k] = new]
  OBVIOUS
<1> HIDE DEF new
<1>4. /\ conns' \in Seq(Conn) /\ Len(conns') = Len(conns)
      /\ \A j \in 1..Len(conns) : conns'[j] = IF j = k THEN new ELSE conns[j]
  BY <1>1, <1>2, <1>3, ReplaceOne
<1> QED
  BY <1>1, <1>2, <1>4 DEF Restated, SameSockets

LEMMA RestateSome ==
  ASSUME Types, NEW S \in SUBSET Sockets, NEW st \in {"closing", "closed"},
         conns' = [k \in Sockets |-> IF k \in S THEN [conns[k] EXCEPT !.st = st] ELSE conns[k]],
         \A k \in S : Alive(k)
  PROVE  /\ conns' \in Seq(Conn) /\ Restated
         /\ \A k \in S : conns'[k].st = st
         /\ \A k \in Sockets \ S : conns'[k] = conns[k]
<1>1. Len(conns) \in Nat /\ DOMAIN conns = Sockets /\ Sockets = 1..Len(conns) /\ \A j \in Sockets : conns[j] \in Conn
  BY ConnFields
<1>2. ASSUME NEW k \in Sockets
      PROVE  LET new == [conns[k] EXCEPT !.st = st]
             IN  /\ new \in Conn /\ new.st = st /\ new.client = conns[k].client /\ new.server = conns[k].server
                 /\ new.born = conns[k].born /\ new.got = conns[k].got
  BY <1>1 DEF Conn
<1>3. \A k \in Sockets : conns'[k] = IF k \in S THEN [conns[k] EXCEPT !.st = st] ELSE conns[k]
  OBVIOUS
<1>4. conns' \in Seq(Conn) /\ Len(conns') = Len(conns)
  BY <1>1, <1>2
<1> QED
  BY <1>1, <1>2, <1>3, <1>4 DEF Restated, SameSockets, Alive

LEMMA DeliverOne ==
  ASSUME Types, NEW k \in Sockets, NEW m \in Nat,
         conns' = [conns EXCEPT ![k].got = Append(@, m)]
  PROVE  conns' \in Seq(Conn) /\ Carried(k, m)
<1>1. /\ Len(conns) \in Nat /\ DOMAIN conns = Sockets /\ Sockets = 1..Len(conns)
      /\ conns[k] \in Conn /\ conns[k].got \in Seq(Nat)
  BY ConnFields
<1> DEFINE new == [conns[k] EXCEPT !.got = Append(conns[k].got, m)]
<1>2. Append(conns[k].got, m) \in Seq(Nat)
  BY <1>1, AppendProperties
<1>3. /\ new \in Conn /\ new.got = Append(conns[k].got, m) /\ new.client = conns[k].client
      /\ new.server = conns[k].server /\ new.born = conns[k].born /\ new.st = conns[k].st
  BY <1>1, <1>2 DEF Conn
<1>4. [conns EXCEPT ![k].got = Append(@, m)] = [conns EXCEPT ![k] = new]
  OBVIOUS
<1> HIDE DEF new
<1>6. conns' = [conns EXCEPT ![k] = new]
  BY <1>4
<1>5. /\ conns' \in Seq(Conn) /\ Len(conns') = Len(conns)
      /\ \A j \in 1..Len(conns) : conns'[j] = IF j = k THEN new ELSE conns[j]
  BY <1>3, <1>6, ReplaceOne
<1> QED
  BY <1>1, <1>3, <1>5 DEF Carried, SameSockets

\* Nothing is delivered, nothing is queued: place by place.
GotKept == \A k \in Nat, i \in Nat : \A m : Got(k, i, m)' <=> Got(k, i, m)
BusKept == \A t \in Servers, i \in Nat : \A m : OnBus(t, i, m)' <=> OnBus(t, i, m)
RoutesKept ==
  \A s \in Servers, i \in Nat : \A m :
    (IsRoute(s, i, m)' <=> IsRoute(s, i, m)) /\ (IsHook(s, i, m)' <=> IsHook(s, i, m))
ChangesKept ==
  \A s \in Servers, i \in Nat : \A c :
    (IsSet(s, i, c)' <=> IsSet(s, i, c)) /\ (IsDel(s, i, c)' <=> IsDel(s, i, c))

\* The first command of s is done, or all of them are gone.
FirstDone(s) ==
  \A t \in Servers, i \in Nat : \A x :
    /\ IsSet(t, i, x)' <=> IF t = s THEN i # 0 /\ IsSet(t, i + 1, x) ELSE IsSet(t, i, x)
    /\ IsDel(t, i, x)' <=> IF t = s THEN i # 0 /\ IsDel(t, i + 1, x) ELSE IsDel(t, i, x)
    /\ IsRoute(t, i, x)' <=> IF t = s THEN i # 0 /\ IsRoute(t, i + 1, x) ELSE IsRoute(t, i, x)
    /\ IsHook(t, i, x)' <=> IF t = s THEN i # 0 /\ IsHook(t, i + 1, x) ELSE IsHook(t, i, x)
AllGone(s) ==
  \A t \in Servers, i \in Nat : \A x :
    /\ IsSet(t, i, x)' <=> t # s /\ IsSet(t, i, x)
    /\ IsDel(t, i, x)' <=> t # s /\ IsDel(t, i, x)
    /\ IsRoute(t, i, x)' <=> t # s /\ IsRoute(t, i, x)
    /\ IsHook(t, i, x)' <=> t # s /\ IsHook(t, i, x)

LEMMA GotWhenRestated ==
  ASSUME Types, conns' \in Seq(Conn), Restated
  PROVE  GotKept /\ Sockets' = Sockets
<1>1. Sockets' = Sockets
  BY DEF Restated, SameSockets, Sockets
<1> QED
  BY <1>1 DEF Restated, GotKept, Got

LEMMA GotWhenCarried ==
  ASSUME Types, conns' \in Seq(Conn), NEW k \in Sockets, NEW m \in Nat, Carried(k, m)
  PROVE  /\ Sockets' = Sockets
         /\ \A j \in Nat, i \in Nat : \A n :
              Got(j, i, n)' <=> Got(j, i, n) \/ (j = k /\ i = Len(conns[k].got) + 1 /\ n = m)
<1>1. Sockets' = Sockets
  BY DEF Carried, SameSockets, Sockets
<1>2. /\ conns[k].got \in Seq(Nat) /\ Len(conns[k].got) \in Nat
      /\ DOMAIN conns[k].got = 1..Len(conns[k].got)
  BY ConnFields
<1>3. /\ Len(Append(conns[k].got, m)) = Len(conns[k].got) + 1
      /\ \A i \in 1..Len(conns[k].got) : Append(conns[k].got, m)[i] = conns[k].got[i]
      /\ Append(conns[k].got, m)[Len(conns[k].got) + 1] = m
      /\ DOMAIN Append(conns[k].got, m) = 1..(Len(conns[k].got) + 1)
  BY <1>2, AppendProperties, LenProperties
<1>4. ASSUME NEW j \in Nat, NEW i \in Nat, NEW n
      PROVE  Got(j, i, n)' <=> Got(j, i, n) \/ (j = k /\ i = Len(conns[k].got) + 1 /\ n = m)
  <2>1. CASE j = k
    <3>1. conns'[k].got = Append(conns[k].got, m)
      BY DEF Carried
    <3>2. i \in DOMAIN conns'[k].got <=> i \in DOMAIN conns[k].got \/ i = Len(conns[k].got) + 1
      BY <1>2, <1>3, <3>1
    <3>3. i \in DOMAIN conns[k].got => i # Len(conns[k].got) + 1 /\ conns'[k].got[i] = conns[k].got[i]
      BY <1>2, <1>3, <3>1
    <3>4. conns'[k].got[Len(conns[k].got) + 1] = m
      BY <1>3, <3>1
    <3> QED
      BY <1>1, <2>1, <3>2, <3>3, <3>4 DEF Got
  <2>2. CASE j # k
    BY <1>1, <2>2 DEF Carried, Got
  <2> QED
    BY <2>1, <2>2
<1> QED
  BY <1>1, <1>4

\* A socket of c opens at s.
Opened(s, c) ==
  /\ Len(conns') = Len(conns) + 1
  /\ \A k \in Sockets : conns'[k] = conns[k]
  /\ LET n == Len(conns) + 1
     IN  /\ conns'[n].client = c /\ conns'[n].server = s /\ conns'[n].st = "open"
         /\ conns'[n].born = Len(msgs)

LEMMA OpenOne ==
  ASSUME Types, NEW s \in Servers, NEW c \in Clients,
         conns' = Append(conns, [client |-> c, server |-> s, st |-> "open",
                                 born |-> Len(msgs), got |-> <<>>])
  PROVE  conns' \in Seq(Conn) /\ Opened(s, c) /\ GotKept /\ Sockets' = 1..(Len(conns) + 1)
<1> DEFINE new == [client |-> c, server |-> s, st |-> "open", born |-> Len(msgs), got |-> <<>>]
<1>1. Len(msgs) \in Nat /\ <<>> \in Seq(Nat)
  BY Lengths, EmptySeq
<1>2. /\ new \in Conn /\ new.client = c /\ new.server = s /\ new.st = "open" /\ new.born = Len(msgs)
      /\ new.got = <<>>
  BY <1>1 DEF Conn
<1>3. conns' = Append(conns, new) /\ conns \in Seq(Conn)
  BY DEF Types
<1> HIDE DEF new
<1>4. /\ conns' \in Seq(Conn) /\ Len(conns') = Len(conns) + 1
      /\ \A k \in 1..Len(conns) : conns'[k] = conns[k]
      /\ conns'[Len(conns) + 1] = new
  BY <1>2, <1>3, AppendProperties
<1>5. Len(conns) \in Nat /\ Sockets = 1..Len(conns)
  BY ConnFields
<1>6. Opened(s, c) /\ Sockets' = 1..(Len(conns) + 1)
  BY <1>2, <1>4, <1>5 DEF Opened, Sockets
<1>7. DOMAIN <<>> = {}
  OBVIOUS
<1>8. ASSUME NEW k \in Nat, NEW i \in Nat, NEW m
      PROVE  Got(k, i, m)' <=> Got(k, i, m)
  <2>1. CASE k \in Sockets
    BY <1>4, <1>5, <1>6, <2>1 DEF Got
  <2>2. CASE k = Len(conns) + 1
    BY <1>2, <1>4, <1>5, <1>6, <1>7, <2>2 DEF Got
  <2>3. CASE k \notin Sockets /\ k # Len(conns) + 1
    BY <1>5, <1>6, <2>3 DEF Got
  <2> QED
    BY <2>1, <2>2, <2>3
<1> QED
  BY <1>4, <1>6, <1>8 DEF GotKept

LEMMA ChangeQueued ==
  ASSUME Types, NEW s \in Servers, NEW c \in Clients, NEW x \in {SetKey(c), DelKey(c)},
         issued' = [issued EXCEPT ![s] = Append(@, x)]
  PROVE  /\ issued' \in [Servers -> Seq(Cmd)] /\ RoutesKept
         /\ \A t \in Servers, i \in Nat : \A d :
              /\ IsSet(t, i, d)' <=> IsSet(t, i, d) \/ (t = s /\ i = Len(issued[s]) + 1 /\ x = SetKey(c) /\ d = c)
              /\ IsDel(t, i, d)' <=> IsDel(t, i, d) \/ (t = s /\ i = Len(issued[s]) + 1 /\ x = DelKey(c) /\ d = c)
<1>1. x \in Cmd
  BY CommandShapes
<1>2. /\ issued' \in [Servers -> Seq(Cmd)]
      /\ \A t \in Servers, i \in Nat : \A y :
           At(t, i, y)' <=> At(t, i, y) \/ (t = s /\ i = Len(issued[s]) + 1 /\ y = x)
  BY <1>1, IssuedGrows
<1>3. RoutesKept
  BY <1>2, CommandsDiffer DEF RoutesKept, IsRoute, IsHook
<1>4. ASSUME NEW t \in Servers, NEW i \in Nat, NEW d
      PROVE  /\ IsSet(t, i, d)' <=> IsSet(t, i, d) \/ (t = s /\ i = Len(issued[s]) + 1 /\ x = SetKey(c) /\ d = c)
             /\ IsDel(t, i, d)' <=> IsDel(t, i, d) \/ (t = s /\ i = Len(issued[s]) + 1 /\ x = DelKey(c) /\ d = c)
  BY <1>2, CommandsDiffer DEF IsSet, IsDel
<1> QED
  BY <1>2, <1>3, <1>4

LEMMA FirstIsDone ==
  ASSUME Types, NEW s \in Servers, issued[s] # <<>>, issued' = [issued EXCEPT ![s] = Tail(@)]
  PROVE  issued' \in [Servers -> Seq(Cmd)] /\ FirstDone(s)
  BY IssuedShifts DEF FirstDone, IsSet, IsDel, IsRoute, IsHook

LEMMA AllAreGone ==
  ASSUME Types, NEW s \in Servers, issued' = [issued EXCEPT ![s] = <<>>]
  PROVE  issued' \in [Servers -> Seq(Cmd)] /\ AllGone(s)
  BY IssuedEmpties DEF AllGone, IsSet, IsDel, IsRoute, IsHook

\* route() and the hook ask the cache.
BothAsk(s, m) == issued' = [issued EXCEPT ![s] = @ \o <<RouteGet(m), HookGet(m)>>]

BothQueued(s, m) ==
  \A t \in Servers, i \in Nat : \A n :
    /\ IsRoute(t, i, n)' <=> IsRoute(t, i, n) \/ (t = s /\ i = Len(issued[s]) + 1 /\ n = m)
    /\ IsHook(t, i, n)' <=> IsHook(t, i, n) \/ (t = s /\ i = Len(issued[s]) + 2 /\ n = m)

LEMMA LookupsQueued ==
  ASSUME Types, NEW s \in Servers, NEW m \in Nat, BothAsk(s, m)
  PROVE  issued' \in [Servers -> Seq(Cmd)] /\ ChangesKept /\ BothQueued(s, m)
<1> DEFINE q == issued[s]
           two == <<RouteGet(m), HookGet(m)>>
<1>1. q \in Seq(Cmd) /\ Len(q) \in Nat /\ DOMAIN q = 1..Len(q)
  BY Lengths
<1>2. two \in Seq(Cmd) /\ Len(two) = 2 /\ two[1] = RouteGet(m) /\ two[2] = HookGet(m)
  BY CommandShapes
<1> HIDE DEF q, two
<1>3. /\ q \o two \in Seq(Cmd) /\ Len(q \o two) = Len(q) + 2
      /\ \A i \in 1..(Len(q) + 2) : (q \o two)[i] = IF i <= Len(q) THEN q[i] ELSE two[i - Len(q)]
  <2>1. /\ q \o two \in Seq(Cmd) /\ Len(q \o two) = Len(q) + Len(two)
        /\ \A i \in 1..(Len(q) + Len(two)) : (q \o two)[i] = IF i <= Len(q) THEN q[i] ELSE two[i - Len(q)]
    BY <1>1, <1>2, ConcatProperties
  <2> QED
    BY <1>2, <2>1
<1>4. DOMAIN (q \o two) = 1..(Len(q) + 2)
  BY <1>3, LenProperties
<1>5. issued' = [issued EXCEPT ![s] = q \o two]
  BY DEF q, two, BothAsk
<1>6. /\ issued' \in [Servers -> Seq(Cmd)] /\ issued'[s] = q \o two
      /\ \A t \in Servers \ {s} : issued'[t] = issued[t]
  BY <1>3, <1>5 DEF Types, q
<1>7. ASSUME NEW t \in Servers, NEW i \in Nat, NEW y
      PROVE  At(t, i, y)' <=> \/ At(t, i, y)
                              \/ t = s /\ i = Len(q) + 1 /\ y = RouteGet(m)
                              \/ t = s /\ i = Len(q) + 2 /\ y = HookGet(m)
  <2>1. CASE t = s
    <3>1. CASE i \in 1..Len(q)
      BY <1>1, <1>3, <1>4, <1>6, <2>1, <3>1 DEF At, q
    <3>2. CASE i = Len(q) + 1
      BY <1>1, <1>2, <1>3, <1>4, <1>6, <2>1, <3>2 DEF At, q
    <3>3. CASE i = Len(q) + 2
      BY <1>1, <1>2, <1>3, <1>4, <1>6, <2>1, <3>3 DEF At, q
    <3>4. CASE i \notin 1..(Len(q) + 2)
      BY <1>1, <1>4, <1>6, <2>1, <3>4 DEF At, q
    <3> QED
      BY <1>1, <3>1, <3>2, <3>3, <3>4
  <2>2. CASE t # s
    BY <1>6, <2>2 DEF At
  <2> QED
    BY <2>1, <2>2
<1>8. ChangesKept
  BY <1>7, CommandsDiffer DEF ChangesKept, IsSet, IsDel
<1>9. ASSUME NEW t \in Servers, NEW i \in Nat, NEW n
      PROVE  /\ IsRoute(t, i, n)' <=> IsRoute(t, i, n) \/ (t = s /\ i = Len(q) + 1 /\ n = m)
             /\ IsHook(t, i, n)' <=> IsHook(t, i, n) \/ (t = s /\ i = Len(q) + 2 /\ n = m)
  BY <1>7, CommandsDiffer DEF IsRoute, IsHook
<1> QED
  BY <1>6, <1>8, <1>9 DEF q, BothQueued

-----------------------------------------------------------------------------
(* What the actions do. *)

LEMMA MapKept ==
  ASSUME Types, SameSockets,
         \A s \in Servers, c \in Clients : localMap'[s][c] \in {0, localMap[s][c]}
  PROVE  MapTyped' /\ Sockets' = Sockets /\ \A c \in Clients : SocketsOf(c)' = SocketsOf(c)
<1>1. Sockets' = Sockets
  BY DEF SameSockets, Sockets
<1>2. \A c \in Clients : SocketsOf(c)' = SocketsOf(c)
  BY <1>1 DEF SameSockets, SocketsOf
<1>3. ASSUME NEW s \in Servers, NEW c \in Clients, localMap'[s][c] # 0
      PROVE  localMap'[s][c] \in SocketsOf(c)' /\ conns'[localMap'[s][c]].server = s
  <2>1. localMap'[s][c] = localMap[s][c] /\ localMap[s][c] # 0
    BY <1>3
  <2>2. localMap[s][c] \in SocketsOf(c) /\ conns[localMap[s][c]].server = s
    BY <2>1 DEF Types, MapTyped
  <2>3. localMap[s][c] \in Sockets
    BY <2>2 DEF SocketsOf
  <2> QED
    BY <1>2, <2>1, <2>2, <2>3 DEF SameSockets
<1> QED
  BY <1>1, <1>2, <1>3 DEF MapTyped

\* Sockets hang up, are lost or terminated, and none is closed yet.
Faded ==
  /\ Types' /\ Restated /\ \A k \in Sockets : Alive(k)' <=> Alive(k)
  /\ UNCHANGED <<localMap, presence, issued, bus, msgs, notified, faults, moved>>
  /\ \A k \in unanswered' : k \in unanswered \/ Alive(k)
  /\ \A m \in clean' : /\ m \in clean
                       /\ Pending(m) => \A k \in SocketsOf(msgs[m].to) : conns'[k].st = conns[k].st

LEMMA OneFades ==
  ASSUME Types, NEW k \in Sockets, HangUp(k) \/ Lose(k)
  PROVE  Faded
<1>1. PICK st \in {"lost", "closing"} : Becomes(k, st)
  BY DEF HangUp, Lose
<1>2. /\ conns[k].st = "open" /\ conns' = [conns EXCEPT ![k].st = st]
      /\ clean' = {m \in clean : ~(msgs[m].to \in {conns[k].client} /\ Pending(m))}
      /\ UNCHANGED <<unanswered, localMap, presence, issued, bus, msgs, notified, faults, moved>>
  BY <1>1 DEF HangUp, Lose, Becomes, Disturb, cacheVars, messageVars
<1>3. /\ conns' \in Seq(Conn) /\ Restated /\ conns'[k].st = st
      /\ \A j \in Sockets \ {k} : conns'[j] = conns[j]
  BY <1>2, RestateOne
<1>4. MapTyped' /\ Sockets' = Sockets
  BY <1>2, <1>3, MapKept DEF Restated
<1>5. Types'
  BY <1>2, <1>3, <1>4 DEF Types
<1>6. ASSUME NEW m \in clean' PROVE m \in clean /\ (Pending(m) => \A j \in SocketsOf(msgs[m].to) : conns'[j].st = conns[j].st)
  BY <1>2, <1>3 DEF SocketsOf
<1>7. \A j \in Sockets : Alive(j)' <=> Alive(j)
  BY <1>2, <1>3 DEF Alive
<1> QED
  BY <1>2, <1>3, <1>5, <1>6, <1>7 DEF Faded

LEMMA BeatFades ==
  ASSUME Types, NEW s \in Servers, Beat(s)
  PROVE  Faded
<1> DEFINE here == {k \in Sockets : conns[k].server = s /\ Alive(k)}
           dead == {k \in here \intersect unanswered : conns[k].st # "closing"}
<1>1. /\ conns' = [k \in Sockets |-> IF k \in dead THEN [conns[k] EXCEPT !.st = "closing"] ELSE conns[k]]
      /\ unanswered' = unanswered \union here
      /\ clean' = {m \in clean : ~(msgs[m].to \in {conns[k].client : k \in dead} /\ Pending(m))}
      /\ UNCHANGED <<localMap, presence, issued, bus, msgs, notified, faults, moved>>
  BY DEF Beat, Disturb, cacheVars, messageVars
<1>2. dead \in SUBSET Sockets /\ here \subseteq Sockets /\ (\A k \in dead : Alive(k)) /\ \A k \in here : Alive(k)
  OBVIOUS
<1> HIDE DEF dead, here
<1>3. /\ conns' \in Seq(Conn) /\ Restated
      /\ \A k \in dead : conns'[k].st = "closing"
      /\ \A k \in Sockets \ dead : conns'[k] = conns[k]
  BY <1>1, <1>2, RestateSome
<1>4. MapTyped' /\ Sockets' = Sockets
  BY <1>1, <1>3, MapKept DEF Restated
<1>5. Types'
  BY <1>1, <1>2, <1>3, <1>4 DEF Types
<1>6. ASSUME NEW m \in clean' PROVE m \in clean /\ (Pending(m) => \A j \in SocketsOf(msgs[m].to) : conns'[j].st = conns[j].st)
  BY <1>1, <1>3 DEF SocketsOf
<1>7. \A j \in Sockets : Alive(j)' <=> Alive(j)
  BY <1>2, <1>3 DEF Alive
<1> QED
  BY <1>1, <1>2, <1>3, <1>5, <1>6, <1>7 DEF Faded

LEMMA ConnectOpens ==
  ASSUME Types, NEW s \in Servers, NEW c \in Clients, Connect(s, c)
  PROVE  /\ Types' /\ Opened(s, c) /\ GotKept /\ RoutesKept
         /\ localMap'[s][c] = Len(conns) + 1
         /\ \A t \in Servers, d \in Clients : <<t, d>> # <<s, c>> => localMap'[t][d] = localMap[t][d]
         /\ \A t \in Servers, i \in Nat : \A d :
              /\ IsSet(t, i, d)' <=> IsSet(t, i, d) \/ (t = s /\ i = Len(issued[s]) + 1 /\ d = c)
              /\ IsDel(t, i, d)' <=> IsDel(t, i, d)
         /\ clean' = {m \in clean : ~(msgs[m].to = c /\ Pending(m))}
         /\ moved' = IF Overlaps(s, c) THEN moved \union {c} ELSE moved \ {c}
         /\ UNCHANGED <<unanswered, presence, msgs, bus, notified, faults>>
<1>1. /\ conns' = Append(conns, [client |-> c, server |-> s, st |-> "open", born |-> Len(msgs), got |-> <<>>])
      /\ localMap' = [localMap EXCEPT ![s][c] = Len(conns')]
      /\ issued' = [issued EXCEPT ![s] = Append(@, SetKey(c))]
      /\ clean' = {m \in clean : ~(msgs[m].to = c /\ Pending(m))}
      /\ moved' = IF Overlaps(s, c) THEN moved \union {c} ELSE moved \ {c}
      /\ UNCHANGED <<unanswered, presence, msgs, bus, notified, faults>>
  BY DEF Connect, Disturb, messageVars
<1>2. conns' \in Seq(Conn) /\ Opened(s, c) /\ GotKept /\ Sockets' = 1..(Len(conns) + 1)
  BY <1>1, OpenOne
<1>3. /\ issued' \in [Servers -> Seq(Cmd)] /\ RoutesKept
      /\ \A t \in Servers, i \in Nat : \A d :
           /\ IsSet(t, i, d)' <=> IsSet(t, i, d) \/ (t = s /\ i = Len(issued[s]) + 1 /\ SetKey(c) = SetKey(c) /\ d = c)
           /\ IsDel(t, i, d)' <=> IsDel(t, i, d) \/ (t = s /\ i = Len(issued[s]) + 1 /\ SetKey(c) = DelKey(c) /\ d = c)
  BY <1>1, ChangeQueued
<1>4. SetKey(c) # DelKey(c)
  BY CommandsDiffer
<1>5. Len(conns) \in Nat /\ Sockets = 1..Len(conns) /\ Len(conns') = Len(conns) + 1
  BY <1>2, ConnFields DEF Opened
<1>6. /\ localMap' \in [Servers -> [Clients -> Nat]] /\ localMap'[s][c] = Len(conns) + 1
      /\ \A t \in Servers, d \in Clients : <<t, d>> # <<s, c>> => localMap'[t][d] = localMap[t][d]
  BY <1>1, <1>5 DEF Types
<1>7. ASSUME NEW t \in Servers, NEW d \in Clients, localMap'[t][d] # 0
      PROVE  localMap'[t][d] \in SocketsOf(d)' /\ conns'[localMap'[t][d]].server = t
  <2>1. CASE <<t, d>> = <<s, c>>
    BY <1>2, <1>5, <1>6, <2>1 DEF SocketsOf, Opened
  <2>2. CASE <<t, d>> # <<s, c>>
    <3>1. localMap[t][d] # 0 /\ localMap'[t][d] = localMap[t][d]
      BY <1>6, <1>7, <2>2
    <3>2. localMap[t][d] \in Sockets /\ conns[localMap[t][d]].client = d /\ conns[localMap[t][d]].server = t
      BY <3>1 DEF Types, MapTyped, SocketsOf
    <3> QED
      BY <1>2, <1>5, <3>1, <3>2 DEF SocketsOf, Opened
  <2> QED
    BY <2>1, <2>2
<1>8. Types'
  <2>1. moved' \subseteq Clients /\ unanswered' \subseteq Sockets'
    BY <1>1, <1>2, <1>5 DEF Types
  <2> QED
    BY <1>1, <1>2, <1>3, <1>6, <1>7, <2>1 DEF Types, MapTyped
<1> QED
  BY <1>1, <1>2, <1>3, <1>4, <1>6, <1>8

LEMMA CloseCloses ==
  ASSUME Types, NEW k \in Sockets, Close(k)
  PROVE  LET s == conns[k].server
             c == conns[k].client
         IN  /\ Types' /\ Restated /\ conns[k].st = "closing" /\ conns'[k].st = "closed"
             /\ \A j \in Sockets \ {k} : conns'[j] = conns[j]
             /\ RoutesKept /\ \A t \in Servers, d \in Clients : <<t, d>> # <<s, c>> => localMap'[t][d] = localMap[t][d]
             /\ localMap'[s][c] = IF localMap[s][c] = k THEN 0 ELSE localMap[s][c]
             /\ \A t \in Servers, i \in Nat : \A d :
                  /\ IsSet(t, i, d)' <=> IsSet(t, i, d)
                  /\ IsDel(t, i, d)' <=> IsDel(t, i, d) \/ (/\ localMap[s][c] = k /\ t = s /\ d = c
                                                            /\ i = Len(issued[s]) + 1)
             /\ clean' = {m \in clean : ~(msgs[m].to = c /\ Pending(m))}
             /\ unanswered' = unanswered \ {k}
             /\ UNCHANGED <<presence, msgs, bus, notified, faults, moved>>
<1> DEFINE s == conns[k].server
           c == conns[k].client
<1>1. /\ conns[k].st = "closing" /\ conns' = [conns EXCEPT ![k].st = "closed"]
      /\ clean' = {m \in clean : ~(msgs[m].to = c /\ Pending(m))}
      /\ unanswered' = unanswered \ {k}
      /\ CleanUp(s, c, k)
      /\ UNCHANGED <<presence, msgs, bus, notified, faults, moved>>
  BY DEF Close, Becomes, Disturb, messageVars
<1>2. /\ conns' \in Seq(Conn) /\ Restated /\ conns'[k].st = "closed"
      /\ \A j \in Sockets \ {k} : conns'[j] = conns[j]
  BY <1>1, RestateOne
<1>3. s \in Servers /\ c \in Clients
  BY ConnFields
<1> HIDE DEF s, c
<1>4. /\ localMap' \in [Servers -> [Clients -> Nat]] /\ localMap'[s][c] = IF localMap[s][c] = k THEN 0 ELSE localMap[s][c]
      /\ \A t \in Servers, d \in Clients : <<t, d>> # <<s, c>> => localMap'[t][d] = localMap[t][d]
  <2>0. localMap \in [Servers -> [Clients -> Nat]]
    BY DEF Types
  <2>1. CASE localMap[s][c] = k
    <3>1. localMap' = [localMap EXCEPT ![s][c] = 0]
      BY <1>1, <2>1 DEF CleanUp
    <3> QED
      BY <1>3, <2>0, <2>1, <3>1
  <2>2. CASE localMap[s][c] # k
    BY <1>1, <1>3, <2>0, <2>2 DEF CleanUp
  <2> QED
    BY <2>1, <2>2
<1>5. MapTyped' /\ Sockets' = Sockets
  <2>1. \A t \in Servers, d \in Clients : localMap'[t][d] \in {0, localMap[t][d]}
    BY <1>4
  <2> QED
    BY <1>2, <2>1, MapKept DEF Restated
<1>6. /\ issued' \in [Servers -> Seq(Cmd)] /\ RoutesKept
      /\ \A t \in Servers, i \in Nat : \A d :
           /\ IsSet(t, i, d)' <=> IsSet(t, i, d)
           /\ IsDel(t, i, d)' <=> IsDel(t, i, d) \/ (localMap[s][c] = k /\ t = s /\ d = c /\ i = Len(issued[s]) + 1)
  <2>1. CASE localMap[s][c] = k
    <3>1. issued' = [issued EXCEPT ![s] = Append(@, DelKey(c))]
      BY <1>1, <2>1 DEF CleanUp
    <3>2. /\ issued' \in [Servers -> Seq(Cmd)] /\ RoutesKept
          /\ \A t \in Servers, i \in Nat : \A d :
               /\ IsSet(t, i, d)' <=> IsSet(t, i, d) \/ (t = s /\ i = Len(issued[s]) + 1 /\ DelKey(c) = SetKey(c) /\ d = c)
               /\ IsDel(t, i, d)' <=> IsDel(t, i, d) \/ (t = s /\ i = Len(issued[s]) + 1 /\ DelKey(c) = DelKey(c) /\ d = c)
      BY <1>3, <3>1, ChangeQueued
    <3>3. SetKey(c) # DelKey(c)
      BY CommandsDiffer
    <3> QED
      BY <2>1, <3>2, <3>3
  <2>2. CASE localMap[s][c] # k
    <3>1. issued' = issued
      BY <1>1, <2>2 DEF CleanUp
    <3> QED
      BY <2>2, <3>1 DEF Types, RoutesKept, IsSet, IsDel, IsRoute, IsHook, At
  <2> QED
    BY <2>1, <2>2
<1>7. Types'
  BY <1>1, <1>2, <1>4, <1>5, <1>6 DEF Types
<1> QED
  BY <1>1, <1>2, <1>4, <1>6, <1>7 DEF s, c

LEMMA CrashCloses ==
  ASSUME Types, NEW s \in Servers, Crash(s)
  PROVE  /\ Types' /\ Restated /\ AllGone(s)
         /\ \A k \in Sockets : conns[k].server = s => conns'[k].st = "closed"
         /\ \A k \in Sockets : conns[k].server # s => conns'[k] = conns[k]
         /\ \A c \in Clients : localMap'[s][c] = 0
         /\ \A t \in Servers \ {s} : localMap'[t] = localMap[t]
         /\ \A t \in Servers, i \in Nat : \A m : OnBus(t, i, m)' <=> t # s /\ OnBus(t, i, m)
         /\ unanswered' = unanswered \ {k \in Sockets : conns[k].server = s /\ Alive(k)}
         /\ clean' = {m \in clean : ~Pending(m)}
         /\ UNCHANGED <<presence, msgs, notified, moved>>
<1> DEFINE here == {k \in Sockets : conns[k].server = s /\ Alive(k)}
<1>1. /\ conns' = [k \in Sockets |-> IF k \in here THEN [conns[k] EXCEPT !.st = "closed"] ELSE conns[k]]
      /\ unanswered' = unanswered \ here
      /\ localMap' = [localMap EXCEPT ![s] = [c \in Clients |-> 0]]
      /\ issued' = [issued EXCEPT ![s] = <<>>]
      /\ bus' = [bus EXCEPT ![s] = <<>>]
      /\ clean' = {m \in clean : ~Pending(m)}
      /\ faults < MaxFaults /\ faults' = faults + 1
      /\ UNCHANGED <<presence, msgs, notified, moved>>
  BY DEF Crash
<1>2. /\ here \in SUBSET Sockets /\ (\A k \in here : Alive(k))
      /\ \A k \in Sockets : k \in here <=> conns[k].server = s /\ conns[k].st # "closed"
  BY DEF Alive
<1> HIDE DEF here
<1>3. /\ conns' \in Seq(Conn) /\ Restated
      /\ \A k \in here : conns'[k].st = "closed"
      /\ \A k \in Sockets \ here : conns'[k] = conns[k]
  BY <1>1, <1>2, RestateSome
<1>4. /\ localMap' \in [Servers -> [Clients -> Nat]]
      /\ \A c \in Clients : localMap'[s][c] = 0
      /\ \A t \in Servers \ {s} : localMap'[t] = localMap[t]
  <2>1. localMap \in [Servers -> [Clients -> Nat]]
    BY DEF Types
  <2> QED
    BY <1>1, <2>1
<1>5. MapTyped' /\ Sockets' = Sockets
  <2>1. \A t \in Servers, d \in Clients : localMap'[t][d] \in {0, localMap[t][d]}
    BY <1>4
  <2> QED
    BY <1>3, <2>1, MapKept DEF Restated
<1>6. issued' \in [Servers -> Seq(Cmd)] /\ AllGone(s)
  BY <1>1, AllAreGone
<1>7. bus' \in [Servers -> Seq(Nat)] /\ \A t \in Servers, i \in Nat : \A m : OnBus(t, i, m)' <=> t # s /\ OnBus(t, i, m)
  <2>1. <<>> \in Seq(Nat) /\ DOMAIN <<>> = {}
    BY EmptySeq
  <2>2. bus \in [Servers -> Seq(Nat)]
    BY DEF Types
  <2>3. bus'[s] = <<>> /\ \A t \in Servers \ {s} : bus'[t] = bus[t]
    BY <1>1, <2>2
  <2> QED
    BY <1>1, <2>1, <2>2, <2>3 DEF OnBus
<1>8. Types'
  <2>1. faults' \in 0..MaxFaults
    BY <1>1, RelayAssumption DEF Types
  <2>2. unanswered' \subseteq Sockets' /\ moved' \subseteq Clients
    BY <1>1, <1>5 DEF Types
  <2> QED
    BY <1>1, <1>3, <1>4, <1>5, <1>6, <1>7, <2>1, <2>2 DEF Types
<1>9. \A k \in Sockets : conns[k].server = s => conns'[k].st = "closed"
  BY <1>2, <1>3
<1> QED
  BY <1>1, <1>2, <1>3, <1>4, <1>6, <1>7, <1>8, <1>9 DEF here

\* Steps that leave the sockets and the maps alone.
LEMMA QuietTypes ==
  ASSUME Types, UNCHANGED <<conns, localMap, msgs>>,
         presence' \in [Clients -> Servers \union {None}], issued' \in [Servers -> Seq(Cmd)],
         bus' \in [Servers -> Seq(Nat)], moved' \subseteq Clients, faults' \in 0..MaxFaults,
         unanswered' \subseteq Sockets
  PROVE  Types' /\ GotKept
<1>1. Sockets' = Sockets /\ \A c : SocketsOf(c)' = SocketsOf(c)
  BY DEF Sockets, SocketsOf
<1>2. MapTyped'
  BY <1>1 DEF Types, MapTyped
<1>3. GotKept
  BY <1>1 DEF GotKept, Got
<1> QED
  BY <1>1, <1>2, <1>3 DEF Types

\* The first command of s: redis executes it, or fails.
First(s) == issued[s][1]

LEMMA FirstIs ==
  ASSUME Types, NEW s \in Servers, issued[s] # <<>>
  PROVE  /\ First(s) \in Cmd
         /\ First(s).cmd = "set" => First(s).client \in Clients /\ IsSet(s, 1, First(s).client)
         /\ First(s).cmd = "del" => First(s).client \in Clients /\ IsDel(s, 1, First(s).client)
         /\ First(s).cmd = "routeGet" => First(s).msg \in Nat /\ IsRoute(s, 1, First(s).msg)
         /\ First(s).cmd = "hookGet" => First(s).msg \in Nat /\ IsHook(s, 1, First(s).msg)
<1>1. 1 \in DOMAIN issued[s] /\ First(s) \in Cmd
  <2>1. issued[s] \in Seq(Cmd) /\ DOMAIN issued[s] = 1..Len(issued[s]) /\ Len(issued[s]) \in Nat
    BY Lengths
  <2>2. Len(issued[s]) # 0
    BY <2>1, EmptySeq
  <2> QED
    BY <2>1, <2>2, ElementOfSeq DEF First
<1>2. \A x : First(s) = x => At(s, 1, x)
  BY <1>1 DEF At, First
<1> QED
  BY <1>1, <1>2, CommandShapes DEF IsSet, IsDel, IsRoute, IsHook

LEMMA ExecuteDoes ==
  ASSUME Types, NEW s \in Servers, Execute(s)
  PROVE  /\ issued[s] # <<>> /\ issued' = [issued EXCEPT ![s] = Tail(@)]
         /\ \/ /\ First(s).cmd = "set"
               /\ presence' = [presence EXCEPT ![First(s).client] = s]
               /\ UNCHANGED <<bus, notified>>
            \/ /\ First(s).cmd = "del"
               /\ presence' = [presence EXCEPT ![First(s).client] = None]
               /\ UNCHANGED <<bus, notified>>
            \/ /\ First(s).cmd = "routeGet"
               /\ Publish(First(s).msg, presence[msgs[First(s).msg].to])
               /\ UNCHANGED <<presence, notified>>
            \/ /\ First(s).cmd = "hookGet"
               /\ StoreIfOffline(First(s).msg, presence[msgs[First(s).msg].to])
               /\ UNCHANGED <<presence, bus>>
         /\ UNCHANGED <<conns, unanswered, localMap, msgs, faults, moved, clean>>
<1>1. PICK i \in DOMAIN issued[s] :
        /\ i = 1
        /\ issued' = [issued EXCEPT ![s] = SubSeq(@, 1, i - 1) \o SubSeq(@, i + 1, Len(@))]
        /\ \/ /\ issued[s][i].cmd = "set"
              /\ presence' = [presence EXCEPT ![issued[s][i].client] = s]
              /\ UNCHANGED <<bus, notified>>
           \/ /\ issued[s][i].cmd = "del"
              /\ presence' = [presence EXCEPT ![issued[s][i].client] = None]
              /\ UNCHANGED <<bus, notified>>
           \/ /\ issued[s][i].cmd = "routeGet"
              /\ Publish(issued[s][i].msg, presence[msgs[issued[s][i].msg].to])
              /\ UNCHANGED <<presence, notified>>
           \/ /\ issued[s][i].cmd = "hookGet"
              /\ StoreIfOffline(issued[s][i].msg, presence[msgs[issued[s][i].msg].to])
              /\ UNCHANGED <<presence, bus>>
        /\ UNCHANGED <<conns, unanswered, localMap, msgs, faults, moved, clean>>
  BY DEF Execute, Ready
<1>2. issued[s] \in Seq(Cmd) /\ DOMAIN issued[s] = 1..Len(issued[s]) /\ Len(issued[s]) \in Nat
  BY Lengths
<1>3. issued[s] # <<>>
  BY <1>1, <1>2, EmptySeq
<1>4. SubSeq(issued[s], 1, 0) \o SubSeq(issued[s], 2, Len(issued[s])) = Tail(issued[s])
  <2> DEFINE q == issued[s]
  <2>1. SubSeq(q, 1, 0) = <<>>
    BY <1>2, SubSeqEmpty
  <2>2. SubSeq(q, 2, Len(q)) = Tail(q)
    BY <1>2, <1>3, TailIsSubSeq
  <2>3. Tail(q) \in Seq(Cmd)
    BY <1>2, <1>3, HeadTailProperties
  <2> QED
    BY <2>1, <2>2, <2>3, ConcatEmptySeq
<1>5. issued' = [issued EXCEPT ![s] = Tail(@)]
  <2>1. i = 1 /\ i - 1 = 0 /\ i + 1 = 2
    BY <1>1
  <2>2. issued' = [issued EXCEPT ![s] = SubSeq(issued[s], 1, i - 1) \o SubSeq(issued[s], i + 1, Len(issued[s]))]
    BY <1>1
  <2> QED
    BY <1>4, <2>1, <2>2
<1> QED
  BY <1>1, <1>3, <1>5 DEF First

\* Redis sets the entry of a client, deletes it, says where the recipient of a frame is to
\* the router, or says so to the hook.
Sets(s, c) ==
  /\ IsSet(s, 1, c) /\ BusKept /\ UNCHANGED notified
  /\ presence'[c] = s /\ \A d \in Clients \ {c} : presence'[d] = presence[d]
Deletes(s, c) ==
  /\ IsDel(s, 1, c) /\ BusKept /\ UNCHANGED notified
  /\ presence'[c] = None /\ \A d \in Clients \ {c} : presence'[d] = presence[d]
Publishes(s, m, t) ==
  /\ IsRoute(s, 1, m) /\ presence[msgs[m].to] = t /\ UNCHANGED <<presence, notified>>
  /\ \A u \in Servers, i \in Nat : \A n :
       OnBus(u, i, n)' <=> OnBus(u, i, n) \/ (u = t /\ i = Len(bus[t]) + 1 /\ n = m)
FindsNone(s, m) ==
  IsRoute(s, 1, m) /\ presence[msgs[m].to] = None /\ BusKept /\ UNCHANGED <<presence, notified>>
Decides(s, m) ==
  /\ IsHook(s, 1, m) /\ BusKept /\ UNCHANGED presence
  /\ notified' = IF presence[msgs[m].to] = None THEN notified \union {m} ELSE notified

LEMMA BusUnchanged ==
  ASSUME Types, UNCHANGED bus
  PROVE  BusKept
  BY DEF BusKept, OnBus

LEMMA ExecuteViews ==
  ASSUME Types, Bounds, NEW s \in Servers, Execute(s)
  PROVE  /\ Types' /\ GotKept /\ FirstDone(s)
         /\ UNCHANGED <<conns, unanswered, localMap, msgs, faults, moved, clean>>
         /\ \/ \E c \in Clients : Sets(s, c)
            \/ \E c \in Clients : Deletes(s, c)
            \/ \E m \in 1..Len(msgs), t \in Servers : Publishes(s, m, t)
            \/ \E m \in 1..Len(msgs) : FindsNone(s, m)
            \/ \E m \in 1..Len(msgs) : Decides(s, m)
<1>1. /\ issued[s] # <<>> /\ issued' = [issued EXCEPT ![s] = Tail(@)]
      /\ UNCHANGED <<conns, unanswered, localMap, msgs, faults, moved, clean>>
  BY ExecuteDoes
<1>2. issued' \in [Servers -> Seq(Cmd)] /\ FirstDone(s)
  BY <1>1, FirstIsDone
<1>3. presence \in [Clients -> Servers \union {None}] /\ bus \in [Servers -> Seq(Nat)]
  BY DEF Types
<1>4. \A m : IsRoute(s, 1, m) \/ IsHook(s, 1, m) => m \in 1..Len(msgs) /\ msgs[m].to \in Clients /\ m \in Nat
  BY Lengths DEF Bounds, Sent
<1> DEFINE Case ==
             /\ presence' \in [Clients -> Servers \union {None}] /\ bus' \in [Servers -> Seq(Nat)]
             /\ \/ \E c \in Clients : Sets(s, c)
                \/ \E c \in Clients : Deletes(s, c)
                \/ \E m \in 1..Len(msgs), t \in Servers : Publishes(s, m, t)
                \/ \E m \in 1..Len(msgs) : FindsNone(s, m)
                \/ \E m \in 1..Len(msgs) : Decides(s, m)
<1>5. ASSUME First(s).cmd = "set",
              presence' = [presence EXCEPT ![First(s).client] = s],
             UNCHANGED <<bus, notified>>
      PROVE  Case
  <2>1. First(s).client \in Clients /\ IsSet(s, 1, First(s).client)
    BY <1>1, <1>5, FirstIs
  <2>2. presence' \in [Clients -> Servers \union {None}]
    BY <1>3, <1>5, <2>1
  <2>3. Sets(s, First(s).client)
    BY <1>3, <1>5, <2>1, BusUnchanged DEF Sets
  <2> QED
    BY <1>3, <1>5, <2>1, <2>2, <2>3
<1>6. ASSUME First(s).cmd = "del",
              presence' = [presence EXCEPT ![First(s).client] = None],
             UNCHANGED <<bus, notified>>
      PROVE  Case
  <2>1. First(s).client \in Clients /\ IsDel(s, 1, First(s).client)
    BY <1>1, <1>6, FirstIs
  <2>2. presence' \in [Clients -> Servers \union {None}]
    BY <1>3, <1>6, <2>1
  <2>3. Deletes(s, First(s).client)
    BY <1>3, <1>6, <2>1, BusUnchanged DEF Deletes
  <2> QED
    BY <1>3, <1>6, <2>1, <2>2, <2>3
<1>7. ASSUME First(s).cmd = "routeGet",
             Publish(First(s).msg, presence[msgs[First(s).msg].to]),
             UNCHANGED <<presence, notified>>
      PROVE  Case
  <2>1. PICK m : m = First(s).msg
    OBVIOUS
  <2>2. IsRoute(s, 1, m) /\ m \in 1..Len(msgs) /\ msgs[m].to \in Clients /\ m \in Nat
    BY <1>1, <1>4, <1>7, <2>1, FirstIs
  <2>3. CASE presence[msgs[m].to] = None
    <3>1. UNCHANGED bus
      BY <1>7, <2>1, <2>3 DEF Publish
    <3>2. FindsNone(s, m)
      BY <1>7, <2>2, <2>3, <3>1, BusUnchanged DEF FindsNone
    <3> QED
      BY <1>3, <1>7, <2>2, <3>1, <3>2
  <2>4. CASE presence[msgs[m].to] # None
    <3>1. PICK t \in Servers : t = presence[msgs[m].to]
      BY <1>3, <2>2, <2>4
    <3>2. bus' = [bus EXCEPT ![t] = Append(@, m)]
      BY <1>7, <2>1, <2>4, <3>1 DEF Publish
    <3>3. /\ bus' \in [Servers -> Seq(Nat)]
          /\ \A u \in Servers, i \in Nat : \A n :
               OnBus(u, i, n)' <=> OnBus(u, i, n) \/ (u = t /\ i = Len(bus[t]) + 1 /\ n = m)
      BY <2>2, <3>2, BusGrows
    <3>4. Publishes(s, m, t)
      BY <1>7, <2>2, <3>1, <3>3 DEF Publishes
    <3> QED
      BY <1>3, <1>7, <2>2, <3>3, <3>4
  <2> QED
    BY <2>3, <2>4
<1>8. ASSUME First(s).cmd = "hookGet",
             StoreIfOffline(First(s).msg, presence[msgs[First(s).msg].to]),
             UNCHANGED <<presence, bus>>
      PROVE  Case
  <2>1. IsHook(s, 1, First(s).msg) /\ First(s).msg \in 1..Len(msgs)
    BY <1>1, <1>4, <1>8, FirstIs
  <2>2. Decides(s, First(s).msg)
    BY <1>8, <2>1, BusUnchanged DEF Decides, StoreIfOffline
  <2> QED
    BY <1>3, <1>8, <2>1, <2>2
<1>9. Case
  BY <1>5, <1>6, <1>7, <1>8, ExecuteDoes
<1>10. Types' /\ GotKept
  <2>1. moved' \subseteq Clients /\ faults' \in 0..MaxFaults /\ unanswered' \subseteq Sockets
    BY <1>1 DEF Types
  <2>2. presence' \in [Clients -> Servers \union {None}] /\ bus' \in [Servers -> Seq(Nat)]
    BY <1>9
  <2>3. UNCHANGED <<conns, localMap, msgs>>
    BY <1>1
  <2> QED
    BY <1>2, <2>1, <2>2, <2>3, QuietTypes
<1> QED
  BY <1>1, <1>2, <1>9, <1>10

LEMMA FailViews ==
  ASSUME Types, Bounds, NEW s \in Servers, ExecuteFails(s)
  PROVE  /\ Types' /\ GotKept /\ FirstDone(s)
         /\ UNCHANGED <<conns, unanswered, localMap, presence, msgs, bus>>
         /\ \/ \E c \in Clients : IsSet(s, 1, c) /\ moved' = moved \union {c} /\ UNCHANGED <<notified, clean>>
            \/ \E c \in Clients : IsDel(s, 1, c) /\ UNCHANGED <<notified, moved, clean>>
            \/ \E m \in 1..Len(msgs) :
                 IsRoute(s, 1, m) /\ clean' = clean \ {m} /\ UNCHANGED <<notified, moved>>
            \/ \E m \in 1..Len(msgs) :
                 IsHook(s, 1, m) /\ notified' = notified \union {m} /\ clean' = clean \ {m} /\ UNCHANGED moved
<1> DEFINE x == First(s)
<1>1. /\ issued[s] # <<>> /\ issued' = [issued EXCEPT ![s] = Tail(@)]
      /\ faults < MaxFaults /\ faults' = faults + 1
      /\ UNCHANGED <<conns, unanswered, localMap, presence, msgs, bus>>
      /\ notified' = IF x.cmd = "hookGet" THEN notified \union {x.msg} ELSE notified
      /\ moved' = IF x.cmd = "set" THEN moved \union {x.client} ELSE moved
      /\ clean' = IF x.cmd \in {"routeGet", "hookGet"} THEN clean \ {x.msg} ELSE clean
  BY DEF ExecuteFails, First
<1>2. issued' \in [Servers -> Seq(Cmd)] /\ FirstDone(s)
  BY <1>1, FirstIsDone
<1>3. /\ x.cmd = "set" => x.client \in Clients /\ IsSet(s, 1, x.client)
      /\ x.cmd = "del" => x.client \in Clients /\ IsDel(s, 1, x.client)
      /\ x.cmd = "routeGet" => IsRoute(s, 1, x.msg)
      /\ x.cmd = "hookGet" => IsHook(s, 1, x.msg)
      /\ x.cmd \in {"set", "del", "routeGet", "hookGet"}
  BY <1>1, FirstIs, CommandShapes
<1> HIDE DEF x
<1>4. \A m : IsRoute(s, 1, m) \/ IsHook(s, 1, m) => m \in 1..Len(msgs)
  BY DEF Bounds, Sent
<1>5. \/ \E c \in Clients : IsSet(s, 1, c) /\ moved' = moved \union {c} /\ UNCHANGED <<notified, clean>>
      \/ \E c \in Clients : IsDel(s, 1, c) /\ UNCHANGED <<notified, moved, clean>>
      \/ \E m \in 1..Len(msgs) : IsRoute(s, 1, m) /\ clean' = clean \ {m} /\ UNCHANGED <<notified, moved>>
      \/ \E m \in 1..Len(msgs) :
           IsHook(s, 1, m) /\ notified' = notified \union {m} /\ clean' = clean \ {m} /\ UNCHANGED moved
  <2>1. CASE x.cmd = "set"
    BY <1>1, <1>3, <2>1
  <2>2. CASE x.cmd = "del"
    BY <1>1, <1>3, <2>2
  <2>3. CASE x.cmd = "routeGet"
    BY <1>1, <1>3, <1>4, <2>3
  <2>4. CASE x.cmd = "hookGet"
    BY <1>1, <1>3, <1>4, <2>4
  <2> QED
    BY <1>3, <2>1, <2>2, <2>3, <2>4
<1>6. Types' /\ GotKept
  <2>1. moved' \subseteq Clients
    BY <1>5 DEF Types
  <2>2. faults' \in 0..MaxFaults
    BY <1>1, RelayAssumption DEF Types
  <2>3. /\ presence' \in [Clients -> Servers \union {None}] /\ bus' \in [Servers -> Seq(Nat)]
        /\ unanswered' \subseteq Sockets /\ UNCHANGED <<conns, localMap, msgs>>
    BY <1>1 DEF Types
  <2> QED
    BY <1>2, <2>1, <2>2, <2>3, QuietTypes
<1> QED
  BY <1>1, <1>2, <1>5, <1>6

\* A message goes to a socket that is open, or nowhere.
Reaches(k, m) ==
  /\ k \in Sockets /\ conns[k].st = "open" /\ Carried(k, m)
  /\ \A j \in Nat, i \in Nat : \A n :
       Got(j, i, n)' <=> Got(j, i, n) \/ (j = k /\ i = Len(conns[k].got) + 1 /\ n = m)

LEMMA DeliverLocalDoes ==
  ASSUME Types, NEW s \in Servers, NEW m \in Nat, msgs'[m].to \in Clients, DeliverLocal(s, m)
  PROVE  LET k == localMap[s][msgs'[m].to]
         IN  /\ conns' \in Seq(Conn) /\ SameSockets
             /\ IF k # 0 /\ conns[k].st = "open" THEN Reaches(k, m) ELSE UNCHANGED conns
<1> DEFINE k == localMap[s][msgs'[m].to]
<1>1. k # 0 => k \in Sockets
  BY DEF Types, MapTyped, SocketsOf
<1>2. conns' = IF k # 0 /\ conns[k].st = "open" THEN [conns EXCEPT ![k].got = Append(@, m)] ELSE conns
  BY DEF DeliverLocal
<1> HIDE DEF k
<1>3. CASE k # 0 /\ conns[k].st = "open"
  <2>1. conns' = [conns EXCEPT ![k].got = Append(@, m)] /\ k \in Sockets
    BY <1>1, <1>2, <1>3
  <2>2. conns' \in Seq(Conn) /\ Carried(k, m)
    BY <2>1, DeliverOne
  <2>3. Reaches(k, m)
    BY <1>3, <2>1, <2>2, GotWhenCarried DEF Reaches
  <2> QED
    BY <1>3, <2>2, <2>3 DEF Carried, k
<1>4. CASE ~(k # 0 /\ conns[k].st = "open")
  <2>1. UNCHANGED conns
    BY <1>2, <1>4
  <2>2. SameSockets /\ conns' \in Seq(Conn)
    BY <2>1 DEF SameSockets, Types
  <2> QED
    BY <1>4, <2>1, <2>2 DEF k
<1> QED
  BY <1>3, <1>4

LEMMA ReceiveViews ==
  ASSUME Types, Bounds, NEW s \in Servers, Receive(s)
  PROVE  /\ Types' /\ SameSockets
         /\ UNCHANGED <<unanswered, localMap, presence, issued, msgs, notified, faults, moved, clean>>
         /\ \A t \in Servers, i \in Nat : \A n :
              OnBus(t, i, n)' <=> IF t = s THEN i # 0 /\ OnBus(t, i + 1, n) ELSE OnBus(t, i, n)
         /\ \E m \in 1..Len(msgs) :
              LET k == localMap[s][msgs[m].to]
              IN  /\ OnBus(s, 1, m) /\ msgs[m].to \in Clients
                  /\ IF k # 0 /\ conns[k].st = "open" THEN Reaches(k, m) ELSE UNCHANGED conns
<1>1. /\ bus[s] # <<>> /\ msgs' = msgs /\ DeliverLocal(s, Head(bus[s]))
      /\ bus' = [bus EXCEPT ![s] = Tail(@)]
      /\ UNCHANGED <<unanswered, localMap, presence, issued, notified, faults, moved, clean>>
  BY DEF Receive, cacheVars
<1>2. PICK m : m = Head(bus[s])
  OBVIOUS
<1>3. OnBus(s, 1, m)
  <2>1. bus[s] \in Seq(Nat) /\ DOMAIN bus[s] = 1..Len(bus[s]) /\ Len(bus[s]) \in Nat
    BY Lengths
  <2>2. Len(bus[s]) # 0
    BY <1>1, <2>1, EmptySeq
  <2>3. 1 \in DOMAIN bus[s] /\ Head(bus[s]) = bus[s][1]
    BY <2>1, <2>2
  <2> QED
    BY <1>2, <2>3 DEF OnBus
<1>4. m \in 1..Len(msgs) /\ m \in Nat /\ msgs[m].to \in Clients
  BY <1>3, Lengths DEF Bounds, Sent
<1>5. /\ conns' \in Seq(Conn) /\ SameSockets
      /\ IF localMap[s][msgs'[m].to] # 0 /\ conns[localMap[s][msgs'[m].to]].st = "open"
           THEN Reaches(localMap[s][msgs'[m].to], m) ELSE UNCHANGED conns
  BY <1>1, <1>2, <1>4, DeliverLocalDoes
<1>6. /\ bus' \in [Servers -> Seq(Nat)]
      /\ \A t \in Servers, i \in Nat : \A n :
           OnBus(t, i, n)' <=> IF t = s THEN i # 0 /\ OnBus(t, i + 1, n) ELSE OnBus(t, i, n)
  BY <1>1, BusShifts
<1>7. Types'
  <2>1. MapTyped' /\ Sockets' = Sockets
    BY <1>1, <1>5, MapKept
  <2> QED
    BY <1>1, <1>5, <1>6, <2>1 DEF Types
<1> QED
  BY <1>1, <1>3, <1>4, <1>5, <1>6, <1>7

LEMMA SendViews ==
  ASSUME Types, NEW s \in Servers, NEW c \in Clients, SendFrame(s, c)
  PROVE  LET m == Len(msgs) + 1
             k == localMap[s][c]
         IN  /\ Types' /\ SameSockets /\ Len(msgs') = m /\ m \in Nat
             /\ (\A n \in 1..Len(msgs) : msgs'[n] = msgs[n]) /\ msgs'[m].via = s /\ msgs'[m].to = c
             /\ clean' = IF Steady(c) THEN clean \union {m} ELSE clean
             /\ UNCHANGED <<unanswered, localMap, presence, bus, notified, faults, moved>>
             /\ ChangesKept
             /\ IF k = 0
                  THEN UNCHANGED conns /\ BothQueued(s, m)
                  ELSE /\ RoutesKept
                       /\ IF conns[k].st = "open" THEN Reaches(k, m) ELSE UNCHANGED conns
<1> DEFINE m == Len(msgs) + 1
           k == localMap[s][c]
<1>1. /\ msgs' = Append(msgs, [via |-> s, to |-> c]) /\ Route(s, Len(msgs'))
      /\ clean' = IF Steady(c) THEN clean \union {Len(msgs')} ELSE clean
      /\ UNCHANGED <<unanswered, localMap, presence, bus, notified, faults, moved>>
  BY DEF SendFrame
<1>2. /\ msgs' \in Seq(Frame) /\ Len(msgs') = m /\ m \in Nat
      /\ \A n \in 1..Len(msgs) : msgs'[n] = msgs[n]
      /\ msgs'[m].via = s /\ msgs'[m].to = c
  <2> DEFINE new == [via |-> s, to |-> c]
  <2>1. new \in Frame /\ new.via = s /\ new.to = c
    BY DEF Frame
  <2>2. msgs' = Append(msgs, new) /\ msgs \in Seq(Frame) /\ Len(msgs) \in Nat
    BY <1>1, Lengths DEF Types
  <2> HIDE DEF new
  <2>3. /\ msgs' \in Seq(Frame) /\ Len(msgs') = Len(msgs) + 1
        /\ \A n \in 1..Len(msgs) : msgs'[n] = msgs[n]
        /\ msgs'[Len(msgs) + 1] = new
    BY <2>1, <2>2, AppendProperties
  <2> QED
    BY <2>1, <2>2, <2>3
<1>3. Route(s, m) /\ clean' = IF Steady(c) THEN clean \union {m} ELSE clean
  BY <1>1, <1>2
<1> HIDE DEF m, k
<1>4. CASE k = 0
  <2>1. BothAsk(s, m) /\ UNCHANGED conns
    BY <1>2, <1>3, <1>4 DEF Route, k, BothAsk
  <2>2. issued' \in [Servers -> Seq(Cmd)] /\ ChangesKept /\ BothQueued(s, m)
    BY <1>2, <2>1, LookupsQueued
  <2>3. SameSockets /\ conns' \in Seq(Conn)
    BY <2>1 DEF SameSockets, Types
  <2>4. MapTyped' /\ Sockets' = Sockets
    BY <1>1, <2>3, MapKept
  <2>5. Types'
    BY <1>1, <1>2, <2>2, <2>3, <2>4 DEF Types
  <2> QED
    BY <1>1, <1>2, <1>3, <1>4, <2>1, <2>2, <2>3, <2>5 DEF m, k
<1>5. CASE k # 0
  <2>1. DeliverLocal(s, m) /\ UNCHANGED issued
    BY <1>2, <1>3, <1>5 DEF Route, k
  <2>2. /\ conns' \in Seq(Conn) /\ SameSockets
        /\ IF k # 0 /\ conns[k].st = "open" THEN Reaches(k, m) ELSE UNCHANGED conns
    BY <1>2, <2>1, DeliverLocalDoes DEF k
  <2>3. RoutesKept /\ ChangesKept
    BY <2>1 DEF RoutesKept, ChangesKept, IsRoute, IsHook, IsSet, IsDel, At
  <2>4. MapTyped' /\ Sockets' = Sockets
    BY <1>1, <2>2, MapKept
  <2>5. Types'
    BY <1>1, <1>2, <2>1, <2>2, <2>4 DEF Types
  <2> QED
    BY <1>1, <1>2, <1>3, <1>5, <2>2, <2>3, <2>5 DEF m, k
<1> QED
  BY <1>4, <1>5

-----------------------------------------------------------------------------
(* Types and bounds. *)

LEMMA InitEmpty ==
  ASSUME Init
  PROVE  /\ Types /\ Bounds /\ Sockets = {} /\ clean = {} /\ moved = {}
         /\ \A s \in Servers, c \in Clients : localMap[s][c] = 0
         /\ \A s \in Servers : \A i, x : ~At(s, i, x) /\ ~OnBus(s, i, x)
         /\ \A k, i, x : ~Got(k, i, x)
<1>1. /\ conns = <<>> /\ msgs = <<>> /\ unanswered = {} /\ notified = {} /\ moved = {} /\ clean = {} /\ faults = 0
      /\ localMap = [s \in Servers |-> [c \in Clients |-> 0]]
      /\ presence = [c \in Clients |-> None]
      /\ issued = [s \in Servers |-> <<>>] /\ bus = [s \in Servers |-> <<>>]
  BY DEF Init
<1>2. /\ <<>> \in Seq(Conn) /\ <<>> \in Seq(Frame) /\ <<>> \in Seq(Cmd) /\ <<>> \in Seq(Nat)
      /\ Len(<<>>) = 0 /\ DOMAIN <<>> = {}
  BY EmptySeq
<1>3. Sockets = {}
  BY <1>1, <1>2 DEF Sockets
<1>4. /\ \A s \in Servers, c \in Clients : localMap[s][c] = 0
      /\ \A s \in Servers : \A i, x : ~At(s, i, x) /\ ~OnBus(s, i, x)
      /\ \A k, i, x : ~Got(k, i, x)
  BY <1>1, <1>2, <1>3 DEF At, OnBus, Got
<1>5. Types
  <2>1. MapTyped
    BY <1>4 DEF MapTyped
  <2>2. faults \in 0..MaxFaults
    BY <1>1, RelayAssumption
  <2> QED
    BY <1>1, <1>2, <2>1, <2>2 DEF Types
<1>6. Bounds
  BY <1>1, <1>3, <1>4 DEF Bounds, IsRoute, IsHook
<1> QED
  BY <1>1, <1>3, <1>4, <1>5, <1>6

LEMMA StepIs ==
  ASSUME [Next]_vars
  PROVE  \/ \E s \in Servers, c \in Clients : Connect(s, c)
         \/ \E s \in Servers, c \in Clients : SendFrame(s, c)
         \/ \E k \in Sockets : HangUp(k) \/ Lose(k)
         \/ \E s \in Servers : Beat(s)
         \/ \E k \in Sockets : Close(k)
         \/ \E s \in Servers : Crash(s)
         \/ \E k \in Sockets : Pong(k)
         \/ \E c \in Clients : Expire(c)
         \/ \E s \in Servers : Execute(s)
         \/ \E s \in Servers : ExecuteFails(s)
         \/ \E s \in Servers : Receive(s)
         \/ UNCHANGED vars
  BY DEF Next

\* A pong, an expiry or no step at all: at most unanswered and one entry of the cache change.
Idle(c) ==
  /\ Types' /\ GotKept /\ BusKept /\ RoutesKept /\ ChangesKept
  /\ UNCHANGED <<conns, localMap, issued, msgs, bus, notified, faults, moved, clean>>
  /\ unanswered' \subseteq unanswered
  /\ \/ UNCHANGED presence
     \/ /\ presence'[c] = None /\ presence[c] # None
        /\ \A d \in Clients \ {c} : presence'[d] = presence[d]
        /\ \A k \in SocketsOf(c) : conns[k].st \notin {"open", "lost"}

LEMMA IssuedUnchanged ==
  ASSUME UNCHANGED issued
  PROVE  RoutesKept /\ ChangesKept
  BY DEF RoutesKept, ChangesKept, IsRoute, IsHook, IsSet, IsDel, At

LEMMA PongIdles ==
  ASSUME Types, NEW k \in Sockets, Pong(k), NEW c
  PROVE  Idle(c)
<1>1. /\ unanswered' = unanswered \ {k}
      /\ UNCHANGED <<conns, localMap, presence, issued, msgs, bus, notified, faults, moved, clean>>
  BY DEF Pong, cacheVars, messageVars
<1>2. RoutesKept /\ ChangesKept /\ BusKept
  BY <1>1, IssuedUnchanged, BusUnchanged
<1>3. /\ presence' \in [Clients -> Servers \union {None}] /\ issued' \in [Servers -> Seq(Cmd)]
      /\ bus' \in [Servers -> Seq(Nat)] /\ moved' \subseteq Clients /\ faults' \in 0..MaxFaults
      /\ unanswered' \subseteq Sockets /\ UNCHANGED <<conns, localMap, msgs>>
  BY <1>1 DEF Types
<1>4. Types' /\ GotKept
  BY <1>3, QuietTypes
<1> QED
  BY <1>1, <1>2, <1>4 DEF Idle

LEMMA StutterIdles ==
  ASSUME Types, UNCHANGED vars, NEW c
  PROVE  Idle(c)
<1>1. UNCHANGED <<conns, unanswered, localMap, presence, issued, msgs, bus, notified, faults, moved, clean>>
  BY DEF vars, cacheVars, messageVars
<1>2. RoutesKept /\ ChangesKept /\ BusKept
  BY <1>1, IssuedUnchanged, BusUnchanged
<1>3. /\ presence' \in [Clients -> Servers \union {None}] /\ issued' \in [Servers -> Seq(Cmd)]
      /\ bus' \in [Servers -> Seq(Nat)] /\ moved' \subseteq Clients /\ faults' \in 0..MaxFaults
      /\ unanswered' \subseteq Sockets /\ UNCHANGED <<conns, localMap, msgs>>
  BY <1>1 DEF Types
<1>4. Types' /\ GotKept
  BY <1>3, QuietTypes
<1> QED
  BY <1>1, <1>2, <1>4 DEF Idle

LEMMA ExpireIdles ==
  ASSUME Types, NEW c \in Clients, Expire(c)
  PROVE  Idle(c)
<1>1. /\ presence' = [presence EXCEPT ![c] = None] /\ presence[c] # None
      /\ \A k \in SocketsOf(c) : conns[k].st \notin {"open", "lost"}
      /\ UNCHANGED <<conns, unanswered, localMap, issued, msgs, bus, notified, faults, moved, clean>>
  BY DEF Expire, messageVars
<1>2. RoutesKept /\ ChangesKept /\ BusKept
  BY <1>1, IssuedUnchanged, BusUnchanged
<1>3. presence \in [Clients -> Servers \union {None}]
  BY DEF Types
<1>4. /\ presence' \in [Clients -> Servers \union {None}] /\ presence'[c] = None
      /\ \A d \in Clients \ {c} : presence'[d] = presence[d]
  BY <1>1, <1>3
<1>5. /\ issued' \in [Servers -> Seq(Cmd)]
      /\ bus' \in [Servers -> Seq(Nat)] /\ moved' \subseteq Clients /\ faults' \in 0..MaxFaults
      /\ unanswered' \subseteq Sockets /\ UNCHANGED <<conns, localMap, msgs>>
  BY <1>1 DEF Types
<1>6. Types' /\ GotKept
  BY <1>4, <1>5, QuietTypes
<1> QED
  BY <1>1, <1>2, <1>4, <1>6 DEF Idle

LEMMA TypesStep ==
  ASSUME Types, Bounds, [Next]_vars
  PROVE  Types'
  BY StepIs, ConnectOpens, SendViews, OneFades, BeatFades, CloseCloses, CrashCloses, PongIdles, ExpireIdles,
     StutterIdles, ExecuteViews, FailViews, ReceiveViews DEF Faded, Idle

LEMMA BoundsStep ==
  ASSUME Types, Bounds, [Next]_vars
  PROVE  Bounds'
<1>0. Types'
  BY TypesStep
<1>1. /\ Len(msgs) \in Nat /\ Len(conns) \in Nat /\ Sockets = 1..Len(conns) /\ unanswered \subseteq Sockets
      /\ Sockets' = 1..Len(conns')
  BY Lengths, ConnFields DEF Types, Sockets
<1>2. ASSUME NEW s \in Servers, NEW c \in Clients, Connect(s, c)
      PROVE  Bounds'
  <2>1. \A k \in Sockets' : conns'[k].born <= Len(msgs)
    BY <1>1, <1>2, ConnectOpens DEF Opened, Bounds
  <2>2. clean' \subseteq clean /\ UNCHANGED <<unanswered, msgs, bus, notified>> /\ GotKept /\ RoutesKept
    BY <1>2, ConnectOpens
  <2>3. \A k \in unanswered : Alive(k)'
    BY <1>1, <1>2, ConnectOpens DEF Opened, Bounds, Alive
  <2> QED
    BY <2>1, <2>2, <2>3 DEF Bounds, Sent, GotKept, RoutesKept, OnBus
<1>3. ASSUME NEW s \in Servers, NEW c \in Clients, SendFrame(s, c)
      PROVE  Bounds'
  <2>1. /\ SameSockets /\ Len(msgs') = Len(msgs) + 1 /\ UNCHANGED <<unanswered, bus, notified>>
        /\ clean' \subseteq clean \union {Len(msgs) + 1}
    BY <1>3, SendViews
  <2>2. Sockets' = Sockets
    BY <2>1 DEF SameSockets, Sockets
  <2>3. \A n : Sent(n)' <=> Sent(n) \/ n = Len(msgs) + 1
    BY <1>1, <2>1 DEF Sent
  <2>4. \A k \in unanswered : Alive(k)'
    BY <1>1, <1>3, <2>1, SendViews DEF Bounds, Alive, Reaches, Carried
  <2>5. \A t \in Servers, i \in Nat : \A n : IsRoute(t, i, n)' \/ IsHook(t, i, n)' \/ OnBus(t, i, n)' => Sent(n)'
    <3>1. CASE localMap[s][c] = 0
      BY <1>3, <2>1, <2>3, <3>1, SendViews DEF BothQueued, Bounds, OnBus
    <3>2. CASE localMap[s][c] # 0
      BY <1>3, <2>1, <2>3, <3>2, SendViews DEF RoutesKept, Bounds, OnBus
    <3> QED
      BY <3>1, <3>2
  <2>6. \A k \in Nat, i \in Nat : \A n : Got(k, i, n)' => Sent(n)'
    <3>1. CASE UNCHANGED conns
      BY <2>3, <3>1 DEF Bounds, Got, Sockets
    <3>2. CASE Reaches(localMap[s][c], Len(msgs) + 1)
      BY <2>3, <3>2 DEF Bounds, Reaches
    <3> QED
      BY <1>3, <3>1, <3>2, SendViews
  <2>7. notified' \subseteq 1..Len(msgs') /\ clean' \subseteq 1..Len(msgs')
    BY <1>1, <2>1 DEF Bounds
  <2>8. \A k \in Sockets' : conns'[k].born <= Len(msgs')
    BY <1>0, <1>1, <2>1, <2>2, ConnFields DEF Bounds, SameSockets
  <2>9. \A k \in unanswered' : Alive(k)'
    BY <2>1, <2>4
  <2> QED
    BY <2>5, <2>6, <2>7, <2>8, <2>9 DEF Bounds
<1>4. ASSUME Faded
      PROVE  Bounds'
  <2>1. GotKept /\ Sockets' = Sockets
    BY <1>0, <1>4, GotWhenRestated DEF Faded, Types
  <2>2. RoutesKept /\ BusKept
    BY <1>4, IssuedUnchanged, BusUnchanged DEF Faded
  <2>3. \A k \in unanswered' : Alive(k)'
    <3>1. unanswered' \subseteq Sockets
      BY <1>0, <2>1 DEF Types
    <3> QED
      BY <1>4, <3>1 DEF Faded, Bounds
  <2>4. \A k \in Sockets' : conns'[k].born <= Len(msgs)
    BY <1>4, <2>1 DEF Faded, Restated, SameSockets, Bounds
  <2>5. clean' \subseteq clean /\ UNCHANGED <<msgs, notified>>
    BY <1>4 DEF Faded
  <2> QED
    BY <2>1, <2>2, <2>3, <2>4, <2>5 DEF Bounds, Sent, GotKept, RoutesKept, BusKept
<1>5. ASSUME NEW k \in Sockets, Close(k)
      PROVE  Bounds'
  <2>1. /\ Restated /\ RoutesKept /\ clean' \subseteq clean /\ UNCHANGED <<msgs, bus, notified>>
        /\ unanswered' = unanswered \ {k} /\ \A j \in Sockets \ {k} : conns'[j] = conns[j]
    BY <1>5, CloseCloses
  <2>2. GotKept /\ Sockets' = Sockets
    BY <1>0, <2>1, GotWhenRestated DEF Types
  <2>3. \A j \in unanswered' : Alive(j)'
    BY <1>1, <2>1 DEF Bounds, Alive
  <2>4. \A j \in Sockets' : conns'[j].born <= Len(msgs)
    BY <2>1, <2>2 DEF Restated, SameSockets, Bounds
  <2> QED
    BY <2>1, <2>2, <2>3, <2>4 DEF Bounds, Sent, GotKept, RoutesKept, OnBus
<1>6. ASSUME NEW s \in Servers, Crash(s)
      PROVE  Bounds'
  <2>1. /\ Restated /\ AllGone(s) /\ clean' \subseteq clean /\ UNCHANGED <<msgs, notified>>
        /\ \A t \in Servers, i \in Nat : \A m : OnBus(t, i, m)' <=> t # s /\ OnBus(t, i, m)
        /\ unanswered' = unanswered \ {k \in Sockets : conns[k].server = s /\ Alive(k)}
        /\ \A k \in Sockets : conns[k].server # s => conns'[k] = conns[k]
    BY <1>6, CrashCloses
  <2>2. GotKept /\ Sockets' = Sockets
    BY <1>0, <2>1, GotWhenRestated DEF Types
  <2>3. \A j \in unanswered' : Alive(j)'
    BY <1>1, <2>1 DEF Bounds, Alive
  <2>4. \A j \in Sockets' : conns'[j].born <= Len(msgs)
    BY <2>1, <2>2 DEF Restated, SameSockets, Bounds
  <2> QED
    BY <2>1, <2>2, <2>3, <2>4 DEF Bounds, Sent, GotKept, AllGone
<1>7. ASSUME NEW c, Idle(c)
      PROVE  Bounds'
  BY <1>7 DEF Idle, Bounds, Sent, Alive, Sockets, GotKept, BusKept, RoutesKept
<1>8. ASSUME UNCHANGED <<conns, unanswered, msgs>>, NEW s \in Servers, FirstDone(s), GotKept,
             notified' \subseteq 1..Len(msgs), clean' \subseteq clean,
             \A t \in Servers, i \in Nat : \A n : OnBus(t, i, n)' => Sent(n)
      PROVE  Bounds'
  <2>1. \A t \in Servers, i \in Nat : \A n : IsRoute(t, i, n)' \/ IsHook(t, i, n)' => Sent(n)
    BY <1>8 DEF FirstDone, Bounds
  <2> QED
    BY <1>8, <2>1 DEF Bounds, Sent, Alive, Sockets, GotKept
<1>9. ASSUME NEW s \in Servers, Execute(s)
      PROVE  Bounds'
  <2>1. UNCHANGED <<conns, unanswered, msgs>> /\ FirstDone(s) /\ GotKept /\ clean' \subseteq clean
    BY <1>9, ExecuteViews
  <2>2. notified' \subseteq 1..Len(msgs)
    BY <1>9, ExecuteViews DEF Sets, Deletes, Publishes, FindsNone, Decides, Bounds
  <2>3. \A t \in Servers, i \in Nat : \A n : OnBus(t, i, n)' => Sent(n)
    BY <1>9, ExecuteViews DEF Sets, Deletes, Publishes, FindsNone, Decides, Bounds, BusKept, Sent
  <2> QED
    BY <1>8, <2>1, <2>2, <2>3
<1>10. ASSUME NEW s \in Servers, ExecuteFails(s)
      PROVE  Bounds'
  <2>1. UNCHANGED <<conns, unanswered, msgs>> /\ FirstDone(s) /\ GotKept /\ clean' \subseteq clean /\ UNCHANGED bus
    BY <1>10, FailViews
  <2>2. notified' \subseteq 1..Len(msgs)
    BY <1>10, FailViews DEF Bounds
  <2>3. \A t \in Servers, i \in Nat : \A n : OnBus(t, i, n)' => Sent(n)
    BY <2>1 DEF Bounds, OnBus
  <2> QED
    BY <1>8, <2>1, <2>2, <2>3
<1>11. ASSUME NEW s \in Servers, Receive(s)
      PROVE  Bounds'
  <2>1. /\ SameSockets /\ UNCHANGED <<unanswered, msgs, issued, notified, clean>>
        /\ \A t \in Servers, i \in Nat : \A n :
             OnBus(t, i, n)' <=> IF t = s THEN i # 0 /\ OnBus(t, i + 1, n) ELSE OnBus(t, i, n)
    BY <1>11, ReceiveViews
  <2>2. \/ UNCHANGED conns
        \/ \E k \in Sockets, m \in 1..Len(msgs) : Reaches(k, m)
    <3>1. PICK m \in 1..Len(msgs) :
            LET k == localMap[s][msgs[m].to]
            IN  IF k # 0 /\ conns[k].st = "open" THEN Reaches(k, m) ELSE UNCHANGED conns
      BY <1>11, ReceiveViews
    <3>2. \A k : Reaches(k, m) => k \in Sockets
      BY DEF Reaches
    <3> QED
      BY <3>1, <3>2
  <2>3. Sockets' = Sockets
    BY <2>1 DEF SameSockets, Sockets
  <2>4. \A k \in Nat, i \in Nat : \A n : Got(k, i, n)' => Sent(n)
    <3>1. CASE UNCHANGED conns
      BY <2>3, <3>1 DEF Bounds, Got
    <3>2. ASSUME NEW k \in Sockets, NEW m \in 1..Len(msgs), Reaches(k, m)
          PROVE  \A j \in Nat, i \in Nat : \A n : Got(j, i, n)' => Sent(n)
      BY <3>2 DEF Bounds, Reaches, Sent
    <3> QED
      BY <2>2, <3>1, <3>2
  <2>5. \A j \in unanswered : Alive(j)'
    BY <1>1, <2>2 DEF Bounds, Reaches, Carried, Alive
  <2>6. RoutesKept
    BY <2>1, IssuedUnchanged
  <2> QED
    BY <2>1, <2>3, <2>4, <2>5, <2>6 DEF Bounds, Sent, RoutesKept, SameSockets
<1> QED
  <2>1. (\E k \in Sockets : HangUp(k) \/ Lose(k)) \/ (\E s \in Servers : Beat(s)) => Faded
    BY OneFades, BeatFades
  <2>2. ASSUME (\E k \in Sockets : Pong(k)) \/ (\E c \in Clients : Expire(c)) \/ UNCHANGED vars
        PROVE  Bounds'
    <3>1. \E c : Idle(c)
      BY <2>2, PongIdles, ExpireIdles, StutterIdles
    <3> QED
      BY <1>7, <3>1
  <2> QED
    BY <1>2, <1>3, <1>4, <1>5, <1>6, <1>7, <1>9, <1>10, <1>11, <2>1, <2>2, StepIs

LEMMA Narrow ==
  ASSUME NEW S, NEW T, NEW q \in Seq(S), \A i \in 1..Len(q) : q[i] \in T
  PROVE  q \in Seq(T)
<1>1. Len(q) \in Nat /\ q \in [1..Len(q) -> S]
  BY LenProperties
<1>2. q \in [1..Len(q) -> T]
  BY <1>1
<1> QED
  BY <1>1, <1>2, SeqDef

LEMMA TypesImply ==
  ASSUME Types, Bounds
  PROVE  TypeOK
<1> DEFINE Socket == [client : Clients, server : Servers, st : {"open", "lost", "closing", "closed"},
                      born : 0..Len(msgs), got : Seq(1..Len(msgs))]
<1>1. Len(msgs) \in Nat /\ Sockets = 1..Len(conns) /\ Len(conns) \in Nat
  BY Lengths, ConnFields
<1>2. ASSUME NEW k \in 1..Len(conns)
      PROVE  conns[k] \in Socket
  <2>1. /\ conns[k] \in Conn /\ conns[k].born \in Nat /\ conns[k].got \in Seq(Nat)
        /\ DOMAIN conns[k].got = 1..Len(conns[k].got) /\ Len(conns[k].got) \in Nat
    BY <1>1, ConnFields
  <2>2. conns[k].born \in 0..Len(msgs)
    BY <1>1, <2>1 DEF Bounds
  <2>3. \A i \in 1..Len(conns[k].got) : conns[k].got[i] \in 1..Len(msgs)
    <3>1. ASSUME NEW i \in 1..Len(conns[k].got) PROVE Got(k, i, conns[k].got[i]) /\ i \in Nat /\ k \in Nat
      BY <1>1, <2>1 DEF Got
    <3> QED
      BY <3>1 DEF Bounds, Sent
  <2>4. conns[k].got \in Seq(1..Len(msgs))
    BY <2>1, <2>3, Narrow
  <2> QED
    BY <2>1, <2>2, <2>4 DEF Conn
<1>3. conns \in Seq(Socket)
  <2>1. conns \in Seq(Conn)
    BY DEF Types
  <2> HIDE DEF Socket
  <2> QED
    BY <1>2, <2>1, Narrow
<1>4. ASSUME NEW s \in Servers
      PROVE  issued[s] \in Seq(Command) /\ bus[s] \in Seq(1..Len(msgs))
  <2>1. /\ issued[s] \in Seq(Cmd) /\ DOMAIN issued[s] = 1..Len(issued[s])
        /\ bus[s] \in Seq(Nat) /\ DOMAIN bus[s] = 1..Len(bus[s])
        /\ Len(issued[s]) \in Nat /\ Len(bus[s]) \in Nat
    BY Lengths
  <2>2. ASSUME NEW i \in 1..Len(issued[s])
        PROVE  issued[s][i] \in Command
    <3>1. PICK x \in Cmd : x = issued[s][i]
      BY Lengths
    <3>2. At(s, i, x)
      BY <2>1, <3>1 DEF At
    <3>3. x.cmd = "routeGet" => x.msg \in 1..Len(msgs)
      <4>1. x.cmd = "routeGet" => IsRoute(s, i, x.msg)
        BY <3>1, <3>2, CommandShapes DEF IsRoute
      <4> QED
        BY <2>1, <4>1 DEF Bounds, Sent
    <3>4. x.cmd = "hookGet" => x.msg \in 1..Len(msgs)
      <4>1. x.cmd = "hookGet" => IsHook(s, i, x.msg)
        BY <3>1, <3>2, CommandShapes DEF IsHook
      <4> QED
        BY <2>1, <4>1 DEF Bounds, Sent
    <3>5. CASE x.cmd \in {"set", "del"}
      BY <3>1, <3>5 DEF Cmd, Command
    <3>6. CASE x.cmd \in {"routeGet", "hookGet"}
      BY <3>1, <3>3, <3>4, <3>6 DEF Cmd, Command
    <3> QED
      BY <3>1, <3>5, <3>6, CommandShapes
  <2>3. \A i \in 1..Len(bus[s]) : bus[s][i] \in 1..Len(msgs)
    BY <2>1 DEF Bounds, OnBus, Sent
  <2> QED
    BY <2>1, <2>2, <2>3, Narrow
<1> QED
  BY <1>3, <1>4 DEF TypeOK, Types, MapTyped, Bounds, Frame

\* What the relay keeps is of its type: the local maps name sockets of their server and client
\* only, and whatever is queued, carried or stored is a frame that some server took in.
THEOREM RelayTypeCorrect == Spec => []TypeOK
<1>1. Init => Types /\ Bounds
  BY InitEmpty
<1>2. Types /\ Bounds /\ [Next]_vars => Types' /\ Bounds'
  BY TypesStep, BoundsStep
<1>3. Types /\ Bounds => TypeOK
  BY TypesImply
<1> QED
  BY <1>1, <1>2, <1>3, PTL DEF Spec

-----------------------------------------------------------------------------
(* The local maps. *)

Here(s, c) == {j \in Sockets : conns[j].client = c /\ conns[j].server = s}

\* A server's map names a socket that is not closed, than which the client has none newer there;
\* where it names none, every socket of the client there that is not closed has been replaced.
Registered(s, c) ==
  IF localMap[s][c] # 0
    THEN Alive(localMap[s][c]) /\ \A j \in Here(s, c) : j <= localMap[s][c]
    ELSE \A j \in Here(s, c) : Alive(j) => \E i \in Here(s, c) : i > j

Registry == \A s \in Servers, c \in Clients : Registered(s, c)

LEMMA MapNames ==
  ASSUME Types, NEW s \in Servers, NEW c \in Clients
  PROVE  /\ localMap[s][c] \in Nat /\ Here(s, c) \subseteq Sockets /\ Sockets \subseteq Nat
         /\ localMap[s][c] # 0 => localMap[s][c] \in Here(s, c)
<1>1. Sockets = 1..Len(conns) /\ Len(conns) \in Nat
  BY ConnFields
<1>2. localMap \in [Servers -> [Clients -> Nat]] /\ MapTyped
  BY DEF Types
<1> QED
  BY <1>1, <1>2 DEF Here, MapTyped, SocketsOf

\* Steps that close no socket and leave the maps alone.
Steadfast ==
  SameSockets /\ (\A k \in Sockets : Alive(k)' <=> Alive(k)) /\ UNCHANGED localMap

LEMMA SendSteadfast ==
  ASSUME Types, NEW s \in Servers, NEW c \in Clients, SendFrame(s, c)
  PROVE  Steadfast /\ \A k \in Sockets : conns'[k].st = conns[k].st
<1>1. SameSockets /\ UNCHANGED localMap
  BY SendViews
<1>2. UNCHANGED conns \/ Reaches(localMap[s][c], Len(msgs) + 1)
  BY SendViews
<1> QED
  BY <1>1, <1>2 DEF Steadfast, Reaches, Carried, Alive

LEMMA ReceiveSteadfast ==
  ASSUME Types, Bounds, NEW s \in Servers, Receive(s)
  PROVE  Steadfast /\ \A k \in Sockets : conns'[k].st = conns[k].st
<1>1. SameSockets /\ UNCHANGED localMap
  BY ReceiveViews
<1>2. PICK m \in 1..Len(msgs) :
        LET k == localMap[s][msgs[m].to]
        IN  IF k # 0 /\ conns[k].st = "open" THEN Reaches(k, m) ELSE UNCHANGED conns
  BY ReceiveViews
<1> QED
  BY <1>1, <1>2 DEF Steadfast, Reaches, Carried, Alive

LEMMA OthersSteadfast ==
  ASSUME Types, Bounds,
         \/ Faded
         \/ \E c : Idle(c)
         \/ \E s \in Servers : Execute(s) \/ ExecuteFails(s)
  PROVE  Steadfast
<1>1. CASE Faded
  BY <1>1 DEF Faded, Restated, Steadfast
<1>2. CASE UNCHANGED <<conns, localMap>>
  BY <1>2 DEF Steadfast, SameSockets, Alive
<1> QED
  BY <1>1, <1>2, ExecuteViews, FailViews DEF Idle

\* The steps there are, the quiet ones by what they do.
LEMMA StepKinds ==
  ASSUME Types, Bounds, [Next]_vars
  PROVE  \/ \E s \in Servers, c \in Clients : Connect(s, c)
         \/ \E s \in Servers, c \in Clients : SendFrame(s, c)
         \/ Faded
         \/ \E k \in Sockets : Close(k)
         \/ \E s \in Servers : Crash(s)
         \/ \E c : Idle(c)
         \/ \E s \in Servers : Execute(s)
         \/ \E s \in Servers : ExecuteFails(s)
         \/ \E s \in Servers : Receive(s)
<1>1. (\E k \in Sockets : HangUp(k) \/ Lose(k)) \/ (\E s \in Servers : Beat(s)) => Faded
  BY OneFades, BeatFades
<1>2. (\E k \in Sockets : Pong(k)) \/ (\E c \in Clients : Expire(c)) \/ UNCHANGED vars => \E c : Idle(c)
  BY PongIdles, ExpireIdles, StutterIdles
<1> QED
  BY <1>1, <1>2, StepIs

LEMMA RegistryStep ==
  ASSUME Types, Bounds, Registry, [Next]_vars
  PROVE  Registry'
<1>0. Types' /\ Sockets = 1..Len(conns) /\ Len(conns) \in Nat
  BY TypesStep, ConnFields
<1>1. ASSUME Steadfast
      PROVE  Registry'
  <2>1. ASSUME NEW s \in Servers, NEW c \in Clients
        PROVE  Registered(s, c)'
    <3>1. Here(s, c)' = Here(s, c) /\ localMap'[s][c] = localMap[s][c]
      BY <1>1 DEF Steadfast, SameSockets, Here, Sockets
    <3>2. /\ Registered(s, c) /\ Here(s, c) \subseteq Sockets
          /\ localMap[s][c] # 0 => localMap[s][c] \in Sockets
      BY MapNames DEF Registry
    <3> QED
      BY <1>1, <3>1, <3>2 DEF Steadfast, Registered
  <2> QED
    BY <2>1 DEF Registry
<1>2. ASSUME NEW s \in Servers, NEW c \in Clients, Connect(s, c)
      PROVE  Registry'
  <2>1. Opened(s, c) /\ Sockets' = 1..(Len(conns) + 1)
    BY <1>2, ConnectOpens DEF Opened, Sockets
  <2>2. ASSUME NEW t \in Servers, NEW d \in Clients
        PROVE  Registered(t, d)'
    <3>1. Registered(t, d) /\ localMap[t][d] \in Nat /\ Here(t, d) \subseteq Sockets
      BY MapNames DEF Registry
    <3>2. CASE <<t, d>> = <<s, c>>
      <4>1. localMap'[t][d] = Len(conns) + 1 /\ conns'[Len(conns) + 1].st = "open"
        BY <1>2, <3>2, ConnectOpens DEF Opened
      <4> QED
        BY <1>0, <2>1, <4>1 DEF Registered, Here, Alive
    <3>3. CASE <<t, d>> # <<s, c>>
      <4>1. localMap'[t][d] = localMap[t][d]
        BY <1>2, <3>3, ConnectOpens
      <4>2. Here(t, d)' = Here(t, d)
        BY <1>0, <2>1, <3>3 DEF Opened, Here
      <4>3. \A k \in Sockets : Alive(k)' <=> Alive(k)
        BY <2>1 DEF Opened, Alive
      <4>4. localMap[t][d] # 0 => localMap[t][d] \in Sockets
        BY MapNames
      <4> QED
        BY <3>1, <4>1, <4>2, <4>3, <4>4 DEF Registered
    <3> QED
      BY <3>2, <3>3
  <2> QED
    BY <2>2 DEF Registry
<1>3. ASSUME NEW k \in Sockets, Close(k)
      PROVE  Registry'
  <2>1. /\ Restated /\ conns'[k].st = "closed" /\ \A j \in Sockets \ {k} : conns'[j] = conns[j]
        /\ conns[k].server \in Servers /\ conns[k].client \in Clients
    BY <1>3, CloseCloses, ConnFields
  <2>2. /\ \A t \in Servers, d \in Clients :
             <<t, d>> # <<conns[k].server, conns[k].client>> => localMap'[t][d] = localMap[t][d]
        /\ localMap'[conns[k].server][conns[k].client]
             = IF localMap[conns[k].server][conns[k].client] = k THEN 0
               ELSE localMap[conns[k].server][conns[k].client]
    BY <1>3, CloseCloses
  <2>3. ASSUME NEW t \in Servers, NEW d \in Clients
        PROVE  Registered(t, d)'
    <3>1. Here(t, d)' = Here(t, d)
      BY <2>1 DEF Restated, SameSockets, Here, Sockets
    <3>2. /\ Registered(t, d) /\ localMap[t][d] \in Nat /\ Here(t, d) \subseteq Sockets /\ Sockets \subseteq Nat
          /\ localMap[t][d] # 0 => localMap[t][d] \in Here(t, d)
      BY MapNames DEF Registry
    <3>3. /\ \A j \in Sockets : Alive(j)' => Alive(j) /\ j # k
          /\ \A j \in Sockets \ {k} : Alive(j)' <=> Alive(j)
      BY <2>1 DEF Alive
    <3>4. CASE localMap[t][d] = k /\ k \in Here(t, d)
      <4>1. localMap'[t][d] = 0
        BY <2>2, <3>4 DEF Here
      <4>2. \A j \in Here(t, d) : j # k => k > j
        <5>1. k # 0 /\ k \in Nat
          BY <1>0
        <5>2. \A j \in Here(t, d) : j <= k /\ j \in Nat
          BY <3>2, <3>4, <5>1 DEF Registered
        <5> QED
          BY <5>1, <5>2
      <4> QED
        BY <3>1, <3>2, <3>3, <3>4, <4>1, <4>2 DEF Registered
    <3>5. CASE localMap[t][d] # k
      <4>1. localMap'[t][d] = localMap[t][d]
        BY <2>2, <3>5
      <4> QED
        BY <3>1, <3>2, <3>3, <3>5, <4>1 DEF Registered
    <3>6. localMap[t][d] = k => k \in Here(t, d)
      BY <1>0, <3>2
    <3> QED
      BY <3>4, <3>5, <3>6
  <2> QED
    BY <2>3 DEF Registry
<1>4. ASSUME NEW s \in Servers, Crash(s)
      PROVE  Registry'
  <2>1. /\ Restated
        /\ \A k \in Sockets : conns[k].server = s => conns'[k].st = "closed"
        /\ \A k \in Sockets : conns[k].server # s => conns'[k] = conns[k]
        /\ \A c \in Clients : localMap'[s][c] = 0
        /\ \A t \in Servers \ {s} : localMap'[t] = localMap[t]
    BY <1>4, CrashCloses
  <2>2. ASSUME NEW t \in Servers, NEW d \in Clients
        PROVE  Registered(t, d)'
    <3>1. Here(t, d)' = Here(t, d)
      BY <2>1 DEF Restated, SameSockets, Here, Sockets
    <3>2. /\ Registered(t, d) /\ localMap[t][d] \in Nat /\ Here(t, d) \subseteq Sockets
          /\ localMap[t][d] # 0 => localMap[t][d] \in Here(t, d)
      BY MapNames DEF Registry
    <3>3. CASE t = s
      <4>1. \A j \in Here(t, d) : ~Alive(j)'
        BY <2>1, <3>3 DEF Here, Alive
      <4> QED
        BY <2>1, <3>1, <3>3, <4>1 DEF Registered
    <3>4. CASE t # s
      <4>1. \A j \in Here(t, d) : Alive(j)' <=> Alive(j)
        BY <2>1, <3>4 DEF Here, Alive
      <4>2. localMap'[t][d] = localMap[t][d]
        BY <2>1, <3>4
      <4> QED
        BY <3>1, <3>2, <4>1, <4>2 DEF Registered
    <3> QED
      BY <3>3, <3>4
  <2> QED
    BY <2>2 DEF Registry
<1> QED
  BY <1>1, <1>2, <1>3, <1>4, StepKinds, SendSteadfast, ReceiveSteadfast, OthersSteadfast

-----------------------------------------------------------------------------
(* The cache. *)

ChangeAt(s, i, c) == IsSet(s, i, c) \/ IsDel(s, i, c)
NoChange(s, c) == \A i \in Nat : ~ChangeAt(s, i, c)

\* The last of the commands of s that change the entry of c sets it.
EndsSet(s, c) == \E i \in Nat : IsSet(s, i, c) /\ \A j \in Nat : j > i => ~ChangeAt(s, j, c)

\* k is the newest socket of its client.
Last(k) == k \in Sockets /\ \A j \in Sockets : conns[j].client = conns[k].client => j <= k

\* Only the server of the newest socket knows the client, ...
Alone(s, c) == \A t \in Servers \ {s} : NoChange(t, c) /\ \A j \in Here(t, c) : ~Alive(j)

\* ... and the cache names that server, or will once the server's commands are done.
Named(s, c) == (NoChange(s, c) /\ presence[c] = s) \/ EndsSet(s, c)

Held(k) ==
  /\ Alone(conns[k].server, conns[k].client)
  /\ conns[k].st \in {"open", "lost"} => Named(conns[k].server, conns[k].client)

Presence == \A k \in Sockets : Last(k) /\ conns[k].client \notin moved => Held(k)

LEMMA OneAtATime ==
  ASSUME Types, NEW s \in Servers, NEW i \in Nat
  PROVE  /\ \A c : IsSet(s, i, c) \/ IsDel(s, i, c) => i # 0 /\ i \in 1..Len(issued[s])
         /\ \A c, d : IsSet(s, i, c) /\ IsSet(s, i, d) => c = d
         /\ \A c, d : IsDel(s, i, c) /\ IsDel(s, i, d) => c = d
         /\ \A c, d : ~(IsSet(s, i, c) /\ IsDel(s, i, d))
         /\ \A c, m : ~((IsSet(s, i, c) \/ IsDel(s, i, c)) /\ (IsRoute(s, i, m) \/ IsHook(s, i, m)))
         /\ \A m, n : ~(IsRoute(s, i, m) /\ IsHook(s, i, n))
         /\ \A m : IsRoute(s, i, m) \/ IsHook(s, i, m) => i # 0 /\ i \in 1..Len(issued[s])
<1>1. \A x, y : At(s, i, x) /\ At(s, i, y) => x = y
  BY DEF At
<1>2. \A x : At(s, i, x) => i # 0 /\ i \in 1..Len(issued[s])
  BY Lengths DEF At
<1> QED
  BY <1>1, <1>2, CommandsDiffer DEF IsSet, IsDel, IsRoute, IsHook

LEMMA ChangesIs ==
  ASSUME Types, NEW s \in Servers, NEW c
  PROVE  Changes(s, c) <=> ~NoChange(s, c)
<1>1. DOMAIN issued[s] = 1..Len(issued[s]) /\ Len(issued[s]) \in Nat
  BY Lengths
<1> QED
  BY <1>1 DEF Changes, NoChange, ChangeAt, IsSet, IsDel, At

LEMMA ShiftNamed ==
  ASSUME Types, NEW s \in Servers, NEW c, FirstDone(s)
  PROVE  /\ \A t \in Servers : NoChange(t, c) => NoChange(t, c)'
         /\ \A t \in Servers : EndsSet(t, c) /\ (t = s => ~IsSet(s, 1, c)) => EndsSet(t, c)'
         /\ EndsSet(s, c) => EndsSet(s, c)' \/ NoChange(s, c)'
<1>1. \A t \in Servers, i \in Nat :
        /\ t # s => (IsSet(t, i, c)' <=> IsSet(t, i, c)) /\ (ChangeAt(t, i, c)' <=> ChangeAt(t, i, c))
        /\ IsSet(s, i, c)' <=> i # 0 /\ IsSet(s, i + 1, c)
        /\ ChangeAt(s, i, c)' <=> i # 0 /\ ChangeAt(s, i + 1, c)
  BY DEF FirstDone, ChangeAt
<1>2. \A t \in Servers : NoChange(t, c) => NoChange(t, c)'
  BY <1>1 DEF NoChange
<1>3. \A t \in Servers \ {s} : EndsSet(t, c) => EndsSet(t, c)'
  BY <1>1 DEF EndsSet
<1>4. ASSUME EndsSet(s, c)
      PROVE  EndsSet(s, c)' \/ (NoChange(s, c)' /\ IsSet(s, 1, c))
  <2>1. PICK i \in Nat : IsSet(s, i, c) /\ \A j \in Nat : j > i => ~ChangeAt(s, j, c)
    BY <1>4 DEF EndsSet
  <2>2. i # 0
    BY <2>1, OneAtATime
  <2>3. CASE i = 1
    <3>1. \A j \in Nat : j # 0 => ~ChangeAt(s, j + 1, c)
      BY <2>1, <2>3
    <3> QED
      BY <1>1, <2>1, <2>3, <3>1 DEF NoChange
  <2>4. CASE i > 1
    <3>1. i - 1 \in Nat /\ i - 1 # 0 /\ (i - 1) + 1 = i
      BY <2>4
    <3>2. IsSet(s, i - 1, c)'
      BY <1>1, <2>1, <3>1
    <3>3. \A j \in Nat : j > i - 1 => ~ChangeAt(s, j, c)'
      BY <1>1, <2>1, <3>1
    <3> QED
      BY <3>1, <3>2, <3>3 DEF EndsSet
  <2> QED
    BY <2>2, <2>3, <2>4
<1> QED
  BY <1>2, <1>3, <1>4

\* Steps that open no socket, queue no change and raise no socket.
Mild ==
  /\ SameSockets /\ ChangesKept /\ UNCHANGED moved
  /\ \A k \in Sockets :
       /\ Alive(k)' => Alive(k)
       /\ conns'[k].st \in {"open", "lost"} =>
            conns[k].st \in {"open", "lost"} /\ presence'[conns[k].client] = presence[conns[k].client]

LEMMA MildSteps ==
  ASSUME Types, Bounds,
         \/ \E s \in Servers, c \in Clients : SendFrame(s, c)
         \/ Faded
         \/ \E c : Idle(c)
         \/ \E s \in Servers : Receive(s)
  PROVE  Mild
<1>1. ASSUME NEW s \in Servers, NEW c \in Clients, SendFrame(s, c)
      PROVE  Mild
  BY <1>1, SendViews, SendSteadfast DEF Mild, Steadfast
<1>2. ASSUME NEW s \in Servers, Receive(s)
      PROVE  Mild
  <2>1. ChangesKept /\ UNCHANGED <<presence, moved>>
    BY <1>2, ReceiveViews, IssuedUnchanged
  <2> QED
    BY <1>2, <2>1, ReceiveSteadfast DEF Mild, Steadfast
<1>3. CASE Faded
  <2>1. ChangesKept
    BY <1>3, IssuedUnchanged DEF Faded
  <2> QED
    BY <1>3, <2>1 DEF Mild, Faded, Restated
<1>4. ASSUME NEW c, Idle(c)
      PROVE  Mild
  <2>1. \A k \in Sockets : conns[k].client \in Clients
    BY ConnFields
  <2>2. ASSUME NEW k \in Sockets, conns[k].st \in {"open", "lost"}
        PROVE  presence'[conns[k].client] = presence[conns[k].client]
    BY <1>4, <2>1, <2>2 DEF Idle, SocketsOf
  <2> QED
    BY <1>4, <2>2 DEF Mild, Idle, SameSockets, Alive
<1> QED
  BY <1>1, <1>2, <1>3, <1>4

\* The newest sockets stay the newest while none is opened.
LEMMA SameHere ==
  ASSUME Types, SameSockets
  PROVE  /\ Sockets' = Sockets
         /\ \A k \in Sockets : Last(k)' <=> Last(k)
         /\ \A s, c : Here(s, c)' = Here(s, c) /\ Here(s, c) \subseteq Sockets
         /\ \A k \in Sockets : conns'[k].client = conns[k].client /\ conns'[k].server = conns[k].server
<1>1. Sockets' = Sockets
  BY DEF SameSockets, Sockets
<1> QED
  BY <1>1 DEF SameSockets, Last, Here

LEMMA PresenceWhenMild ==
  ASSUME Types, Presence, Mild
  PROVE  Presence'
<1>1. SameSockets /\ \A s \in Servers : \A c : (NoChange(s, c)' <=> NoChange(s, c)) /\ (EndsSet(s, c)' <=> EndsSet(s, c))
  BY DEF Mild, ChangesKept, NoChange, EndsSet, ChangeAt
<1>2. ASSUME NEW k \in Sockets, Last(k), conns[k].client \notin moved
      PROVE  Held(k)'
  <2>1. Held(k)
    BY <1>2 DEF Presence
  <2>2. PICK s \in Servers, c \in Clients : s = conns[k].server /\ c = conns[k].client
    BY ConnFields
  <2>3. Alone(s, c)'
    BY <1>1, <2>1, <2>2, SameHere DEF Held, Alone, Mild
  <2>4. conns'[k].st \in {"open", "lost"} => Named(s, c)'
    BY <1>1, <2>1, <2>2 DEF Held, Named, Mild
  <2> QED
    BY <1>1, <2>2, <2>3, <2>4, SameHere DEF Held
<1> QED
  BY <1>1, <1>2, SameHere DEF Presence, Mild

LEMMA PresenceWhenConnect ==
  ASSUME Types, Presence, NEW s \in Servers, NEW c \in Clients, Connect(s, c)
  PROVE  Presence'
<1>0. PICK n, end : n = Len(conns) + 1 /\ end = Len(issued[s]) + 1
  OBVIOUS
<1>1. /\ Sockets = 1..Len(conns) /\ Len(conns) \in Nat /\ Len(issued[s]) \in Nat /\ n \in Nat /\ end \in Nat
      /\ \A k \in Sockets : conns[k].client \in Clients /\ conns[k].server \in Servers
  BY <1>0, ConnFields, Lengths
<1>2. /\ Sockets' = 1..n /\ \A k \in Sockets : conns'[k] = conns[k]
      /\ conns'[n].client = c /\ conns'[n].server = s
  BY <1>0, ConnectOpens DEF Opened, Sockets
<1>3. /\ \A t \in Servers, i \in Nat : \A d :
           /\ IsSet(t, i, d)' <=> IsSet(t, i, d) \/ (t = s /\ i = end /\ d = c)
           /\ IsDel(t, i, d)' <=> IsDel(t, i, d)
      /\ moved' = IF Overlaps(s, c) THEN moved \union {c} ELSE moved \ {c}
      /\ UNCHANGED presence
  BY <1>0, ConnectOpens
<1>4. ASSUME NEW t \in Servers, NEW d, <<t, d>> # <<s, c>>
      PROVE  /\ NoChange(t, d)' <=> NoChange(t, d)
             /\ EndsSet(t, d)' <=> EndsSet(t, d)
             /\ Here(t, d)' = Here(t, d)
             /\ \A j \in Here(t, d) : Alive(j)' <=> Alive(j)
  <2>1. \A i \in Nat : (IsSet(t, i, d)' <=> IsSet(t, i, d)) /\ (ChangeAt(t, i, d)' <=> ChangeAt(t, i, d))
    BY <1>3, <1>4 DEF ChangeAt
  <2>2. Here(t, d)' = Here(t, d) /\ Here(t, d) \subseteq Sockets
    BY <1>0, <1>1, <1>2, <1>4 DEF Here
  <2> QED
    BY <1>2, <2>1, <2>2 DEF NoChange, EndsSet, Alive
<1>5. ASSUME NEW k \in Sockets, Last(k)', conns[k].client \notin moved'
      PROVE  Held(k)'
  <2>1. conns[k].client # c
    BY <1>0, <1>1, <1>2, <1>5 DEF Last
  <2>2. Last(k) /\ conns[k].client \notin moved
    BY <1>0, <1>1, <1>2, <1>3, <1>5, <2>1 DEF Last
  <2>3. Held(k)
    BY <2>2 DEF Presence
  <2>4. PICK t \in Servers, d \in Clients : t = conns[k].server /\ d = conns[k].client
    BY ConnFields
  <2>5. Alone(t, d)'
    BY <1>4, <2>1, <2>3, <2>4 DEF Held, Alone
  <2>6. Named(t, d) => Named(t, d)'
    BY <1>3, <1>4, <2>1, <2>4 DEF Named
  <2> QED
    BY <1>2, <2>3, <2>4, <2>5, <2>6 DEF Held
<1>6. ASSUME c \notin moved'
      PROVE  Held(n)'
  <2>1. ~Overlaps(s, c)
    BY <1>3, <1>6
  <2>2. ASSUME NEW t \in Servers \ {s}
        PROVE  NoChange(t, c)' /\ \A j \in Here(t, c)' : ~Alive(j)'
    <3>1. NoChange(t, c)
      BY <2>1, ChangesIs DEF Overlaps
    <3>2. \A j \in Here(t, c) : ~Alive(j)
      BY <2>1 DEF Overlaps, Here, SocketsOf
    <3> QED
      BY <1>4, <3>1, <3>2
  <2>3. EndsSet(s, c)'
    <3>1. IsSet(s, end, c)'
      BY <1>1, <1>3
    <3>2. ASSUME NEW j \in Nat, ChangeAt(s, j, c)'
          PROVE  j <= end
      <4>1. j = end \/ ChangeAt(s, j, c)
        BY <1>3, <3>2 DEF ChangeAt
      <4>2. ChangeAt(s, j, c) => j \in 1..Len(issued[s])
        BY OneAtATime DEF ChangeAt
      <4> QED
        BY <1>0, <1>1, <4>1, <4>2
    <3> QED
      BY <1>1, <3>1, <3>2 DEF EndsSet
  <2> QED
    BY <1>2, <2>2, <2>3 DEF Held, Alone, Named
<1>7. ASSUME NEW k \in Sockets', Last(k)', conns'[k].client \notin moved'
      PROVE  Held(k)'
  <2>1. CASE k = n
    BY <1>2, <1>6, <1>7, <2>1
  <2>2. CASE k # n
    BY <1>0, <1>1, <1>2, <1>5, <1>7, <2>2
  <2> QED
    BY <2>1, <2>2
<1> QED
  BY <1>7 DEF Presence

LEMMA PresenceWhenClose ==
  ASSUME Types, Registry, Presence, NEW k \in Sockets, Close(k)
  PROVE  Presence'
<1> DEFINE s == conns[k].server
           c == conns[k].client
<1>1. /\ Restated /\ conns[k].st = "closing" /\ conns'[k].st = "closed"
      /\ \A j \in Sockets \ {k} : conns'[j] = conns[j]
      /\ \A t \in Servers, i \in Nat : \A d :
           /\ IsSet(t, i, d)' <=> IsSet(t, i, d)
           /\ IsDel(t, i, d)' <=> IsDel(t, i, d) \/ (/\ localMap[s][c] = k /\ t = s /\ d = c
                                                     /\ i = Len(issued[s]) + 1)
      /\ UNCHANGED <<presence, moved>>
  BY CloseCloses
<1>2. /\ s \in Servers /\ c \in Clients /\ k \in Here(s, c) /\ Alive(k) /\ Sockets \subseteq Nat
      /\ \A j \in Sockets : conns[j].server \in Servers /\ conns[j].client \in Clients
      /\ 0 \notin Sockets
  BY <1>1, ConnFields DEF Here, Alive
<1> HIDE DEF s, c
<1>3. SameSockets /\ \A j \in Sockets : Alive(j)' => Alive(j)
  BY <1>1 DEF Restated, Alive
<1>4. ASSUME NEW t \in Servers, NEW d, ~(localMap[s][c] = k /\ t = s /\ d = c)
      PROVE  (NoChange(t, d)' <=> NoChange(t, d)) /\ (EndsSet(t, d)' <=> EndsSet(t, d))
  BY <1>1, <1>4 DEF NoChange, EndsSet, ChangeAt
<1>5. ASSUME NEW j \in Sockets, Last(j), conns[j].client \notin moved
      PROVE  Held(j)'
  <2>1. Held(j)
    BY <1>5 DEF Presence
  <2>0. PICK u \in Servers, d \in Clients : u = conns[j].server /\ d = conns[j].client
    BY ConnFields
  <2>2. Alone(u, d)'
    <3>1. ASSUME NEW t \in Servers \ {u}
          PROVE  ~(localMap[s][c] = k /\ t = s /\ d = c)
      BY <1>2, <2>0, <2>1 DEF Held, Alone
    <3>2. Alone(u, d)
      BY <2>0, <2>1 DEF Held
    <3>3. \A t \in Servers \ {u} : NoChange(t, d)'
      BY <1>4, <3>1, <3>2 DEF Alone
    <3>4. \A t \in Servers : Here(t, d)' = Here(t, d) /\ Here(t, d) \subseteq Sockets
      BY <1>3, SameHere
    <3>5. \A t \in Servers \ {u} : \A i \in Here(t, d)' : ~Alive(i)'
      BY <1>3, <3>2, <3>4 DEF Alone
    <3> QED
      BY <3>3, <3>5 DEF Alone
  <2>3. ASSUME conns'[j].st \in {"open", "lost"}
        PROVE  Named(u, d)'
    <3>1. j # k /\ conns[j].st \in {"open", "lost"}
      BY <1>1, <2>3
    <3>2. ~(localMap[s][c] = k /\ conns[j].server = s /\ conns[j].client = c)
      <4>1. SUFFICES ASSUME localMap[s][c] = k, conns[j].server = s, conns[j].client = c
                     PROVE  FALSE
        OBVIOUS
      <4>2. j \in Here(s, c) /\ k # 0
        BY <1>2, <4>1 DEF Here
      <4>3. j <= k
        BY <1>2, <4>1, <4>2 DEF Registry, Registered
      <4>4. k <= j
        BY <1>2, <1>5, <4>1 DEF Last, Here
      <4> QED
        BY <1>2, <3>1, <4>3, <4>4
    <3> QED
      BY <1>1, <1>2, <1>4, <2>0, <2>1, <3>1, <3>2 DEF Held, Named
  <2> QED
    BY <1>3, <2>0, <2>2, <2>3, SameHere DEF Held
<1> QED
  BY <1>1, <1>3, <1>5, SameHere DEF Presence

LEMMA PresenceWhenCrash ==
  ASSUME Types, Presence, NEW s \in Servers, Crash(s)
  PROVE  Presence'
<1>1. /\ Restated /\ AllGone(s)
      /\ \A k \in Sockets : conns[k].server = s => conns'[k].st = "closed"
      /\ \A k \in Sockets : conns[k].server # s => conns'[k] = conns[k]
      /\ UNCHANGED <<presence, moved>>
  BY CrashCloses
<1>2. SameSockets /\ \A j \in Sockets : Alive(j)' => Alive(j)
  BY <1>1 DEF Restated, Alive
<1>3. \A t \in Servers : \A d : NoChange(t, d) => NoChange(t, d)'
  BY <1>1 DEF AllGone, NoChange, ChangeAt
<1>4. \A t \in Servers \ {s} : \A d : EndsSet(t, d) => EndsSet(t, d)'
  BY <1>1 DEF AllGone, EndsSet, ChangeAt
<1>5. ASSUME NEW j \in Sockets, Last(j), conns[j].client \notin moved
      PROVE  Held(j)'
  <2>1. Held(j)
    BY <1>5 DEF Presence
  <2>2. PICK t \in Servers, d \in Clients : t = conns[j].server /\ d = conns[j].client
    BY ConnFields
  <2>3. Alone(t, d)'
    BY <1>2, <1>3, <2>1, <2>2, SameHere DEF Held, Alone
  <2>4. conns'[j].st \in {"open", "lost"} => Named(t, d)'
    BY <1>1, <1>3, <1>4, <2>1, <2>2 DEF Held, Named
  <2> QED
    BY <1>2, <2>2, <2>3, <2>4, SameHere DEF Held
<1> QED
  BY <1>1, <1>2, <1>5, SameHere DEF Presence

\* Redis is done with a command, or was asked in vain.
Done(s) ==
  /\ FirstDone(s) /\ UNCHANGED conns /\ moved \subseteq moved'
  /\ \A d \in Clients :
       /\ \/ presence'[d] = presence[d]
          \/ IsSet(s, 1, d) /\ presence'[d] = s
          \/ IsDel(s, 1, d)
       /\ IsSet(s, 1, d) => d \in moved' \/ presence'[d] = s

LEMMA PresenceWhenDone ==
  ASSUME Types, Presence, NEW s \in Servers, Done(s)
  PROVE  Presence'
<1> USE DEF Done
<1>1. SameSockets /\ \A j \in Sockets : Alive(j)' <=> Alive(j)
  BY DEF SameSockets, Alive
<1>2. ASSUME NEW j \in Sockets, Last(j), conns[j].client \notin moved'
      PROVE  Held(j)'
  <2>1. PICK c \in Clients : c = conns[j].client
    BY ConnFields
  <2>2. PICK t \in Servers : t = conns[j].server
    BY ConnFields
  <2>3. Held(j)
    BY <1>2 DEF Presence
  <2>4. Alone(t, c)'
    BY <1>1, <2>1, <2>2, <2>3, SameHere, ShiftNamed DEF Held, Alone
  <2>5. ASSUME conns[j].st \in {"open", "lost"}
        PROVE  Named(t, c)'
    <3>1. Alone(t, c) /\ Named(t, c)
      BY <2>1, <2>2, <2>3, <2>5 DEF Held
    <3>2. t # s => ~IsSet(s, 1, c) /\ ~IsDel(s, 1, c)
      BY <3>1 DEF Alone, NoChange, ChangeAt
    <3>3. CASE NoChange(t, c) /\ presence[c] = t
      <4>1. ~IsSet(s, 1, c) /\ ~IsDel(s, 1, c)
        BY <3>2, <3>3 DEF NoChange, ChangeAt
      <4> QED
        BY <3>3, <4>1, ShiftNamed DEF Named
    <3>4. CASE EndsSet(t, c) /\ ~(t = s /\ IsSet(s, 1, c))
      BY <3>4, ShiftNamed DEF Named
    <3>5. CASE EndsSet(t, c) /\ t = s /\ IsSet(s, 1, c)
      <4>1. presence'[c] = s
        BY <1>2, <2>1, <3>5
      <4> QED
        BY <3>5, <4>1, ShiftNamed DEF Named
    <3> QED
      BY <3>1, <3>3, <3>4, <3>5 DEF Named
  <2> QED
    BY <1>1, <2>1, <2>2, <2>4, <2>5 DEF Held, Alone, Named, Here
<1> QED
  BY <1>1, <1>2, SameHere DEF Presence

LEMMA PresenceStep ==
  ASSUME Types, Bounds, Registry, Presence, [Next]_vars
  PROVE  Presence'
<1>1. ASSUME NEW s \in Servers, Execute(s)
      PROVE  Presence'
  <2>1. FirstDone(s) /\ UNCHANGED <<conns, moved>>
    BY <1>1, ExecuteViews
  <2> DEFINE Told == \A d \in Clients :
                       /\ \/ presence'[d] = presence[d]
                          \/ IsSet(s, 1, d) /\ presence'[d] = s
                          \/ IsDel(s, 1, d)
                       /\ IsSet(s, 1, d) => presence'[d] = s
  <2>2. Told
    <3>1. \A c, d : IsSet(s, 1, c) /\ IsSet(s, 1, d) => c = d
      BY OneAtATime
    <3>2. /\ \A c, d : ~(IsDel(s, 1, c) /\ IsSet(s, 1, d))
          /\ \A m, d : ~((IsRoute(s, 1, m) \/ IsHook(s, 1, m)) /\ IsSet(s, 1, d))
      BY OneAtATime
    <3>3. CASE \E c \in Clients : Sets(s, c)
      BY <3>1, <3>3 DEF Sets
    <3>4. CASE \E c \in Clients : Deletes(s, c)
      BY <3>2, <3>4 DEF Deletes
    <3>5. CASE UNCHANGED presence /\ \E m : IsRoute(s, 1, m) \/ IsHook(s, 1, m)
      BY <3>2, <3>5
    <3>6. /\ \A m, t : Publishes(s, m, t) => UNCHANGED presence /\ IsRoute(s, 1, m)
          /\ \A m : FindsNone(s, m) => UNCHANGED presence /\ IsRoute(s, 1, m)
          /\ \A m : Decides(s, m) => UNCHANGED presence /\ IsHook(s, 1, m)
      BY DEF Publishes, FindsNone, Decides
    <3>7. \/ \E c \in Clients : Sets(s, c)
          \/ \E c \in Clients : Deletes(s, c)
          \/ \E m \in 1..Len(msgs), t \in Servers : Publishes(s, m, t)
          \/ \E m \in 1..Len(msgs) : FindsNone(s, m)
          \/ \E m \in 1..Len(msgs) : Decides(s, m)
      BY <1>1, ExecuteViews
    <3>8. \/ \E c \in Clients : Sets(s, c)
          \/ \E c \in Clients : Deletes(s, c)
          \/ UNCHANGED presence /\ \E m : IsRoute(s, 1, m) \/ IsHook(s, 1, m)
      BY <3>6, <3>7
    <3> HIDE DEF Told
    <3> QED
      BY <3>3, <3>4, <3>5, <3>8
  <2> QED
    BY <2>1, <2>2, PresenceWhenDone DEF Done
<1>2. ASSUME NEW s \in Servers, ExecuteFails(s)
      PROVE  Presence'
  <2>1. FirstDone(s) /\ UNCHANGED <<conns, presence>> /\ moved \subseteq moved'
    BY <1>2, FailViews
  <2>2. \A d \in Clients : IsSet(s, 1, d) => d \in moved'
    BY <1>2, FailViews, OneAtATime
  <2> QED
    BY <2>1, <2>2, PresenceWhenDone DEF Done
<1> QED
  BY <1>1, <1>2, StepKinds, MildSteps, PresenceWhenMild, PresenceWhenConnect, PresenceWhenClose, PresenceWhenCrash

LEMMA MaxInSet ==
  ASSUME NEW S \in SUBSET Nat, IsFiniteSet(S), S # {}
  PROVE  Max(S) \in S /\ \A y \in S : y <= Max(S)
<1> DEFINE Above(x) == {y \in S : y > x}
           Aboves == {Above(x) : x \in S}
<1>1. IsWellFoundedOn(StrictSubsetOrdering(S), SUBSET S)
  BY FS_StrictSubsetOrderingWellFounded, FS_FiniteSubsetsOfFinite
<1>2. Aboves \subseteq SUBSET S /\ Aboves # {}
  OBVIOUS
<1>3. PICK B \in Aboves : \A C \in Aboves : <<C, B>> \notin StrictSubsetOrdering(S)
  BY <1>1, <1>2, WFMin
<1>4. PICK x \in S : B = Above(x)
  BY <1>3
<1>5. \A y \in S : x >= y
  <2> SUFFICES ASSUME NEW y \in S, y > x PROVE FALSE
    OBVIOUS
  <2>1. \A z \in S : z \in Nat
    OBVIOUS
  <2>2. \A z \in Above(y) : z \in Above(x)
    <3> SUFFICES ASSUME NEW z \in S, z > y PROVE z > x
      OBVIOUS
    <3> QED
      BY <2>1
  <2>3. y \in Above(x) /\ y \notin Above(y)
    BY <2>1
  <2>4. Above(x) \subseteq S /\ Above(y) \subseteq S /\ Above(y) \in Aboves
    OBVIOUS
  <2> HIDE DEF Above, Aboves
  <2>5. <<Above(y), Above(x)>> \in StrictSubsetOrdering(S)
    BY <2>2, <2>3, <2>4 DEF StrictSubsetOrdering
  <2> QED
    BY <1>3, <1>4, <2>4, <2>5
<1>6. Max(S) \in S /\ \A y \in S : Max(S) >= y
  BY <1>5 DEF Max
<1> QED
  BY <1>6

LEMMA NewestIn ==
  ASSUME Types, NEW ks \in SUBSET Sockets
  PROVE  /\ ks = {} => Newest(ks) = 0
         /\ ks # {} => Newest(ks) \in ks /\ Newest(ks) # 0 /\ \A j \in ks : j <= Newest(ks)
<1>1. Sockets = 1..Len(conns) /\ Len(conns) \in Nat
  BY ConnFields
<1>2. IsFiniteSet(ks)
  <2>1. IsFiniteSet(1..Len(conns))
    BY <1>1, FS_Interval
  <2> QED
    BY <1>1, <2>1, FS_Subset
<1>3. ks # {} => Max(ks) \in ks /\ \A j \in ks : j <= Max(ks)
  <2>1. ks \in SUBSET Nat
    BY <1>1
  <2> QED
    BY <1>2, <2>1, MaxInSet
<1>4. 0 \notin ks
  BY <1>1
<1> QED
  BY <1>3, <1>4 DEF Newest

LEMMA RegistriesImplied ==
  ASSUME Types, Registry, Presence
  PROVE  RegistriesKeepNewest
<1>1. Sockets \subseteq Nat /\ 0 \notin Sockets /\ \A k \in Sockets : conns[k].server \in Servers
  BY ConnFields
<1>2. ASSUME NEW s \in Servers, NEW c \in Clients
      PROVE  LET newest == Newest({k \in SocketsOf(c) : conns[k].server = s})
             IN  localMap[s][c] = IF newest # 0 /\ Alive(newest) THEN newest ELSE 0
  <2>1. Here(s, c) = {k \in SocketsOf(c) : conns[k].server = s}
    BY DEF Here, SocketsOf
  <2>2. PICK newest : newest = Newest(Here(s, c))
    OBVIOUS
  <2>3. /\ Here(s, c) = {} => newest = 0
        /\ Here(s, c) # {} => newest \in Here(s, c) /\ newest # 0 /\ \A j \in Here(s, c) : j <= newest
    BY <2>2, NewestIn, MapNames
  <2>4. /\ Registered(s, c) /\ Here(s, c) \subseteq Nat
        /\ localMap[s][c] # 0 => localMap[s][c] \in Here(s, c)
    BY <1>1, MapNames DEF Registry
  <2>5. CASE localMap[s][c] = 0
    <3>1. \A j \in Here(s, c) : Alive(j) => \E i \in Here(s, c) : i > j
      BY <2>4, <2>5 DEF Registered
    <3>2. ~(newest # 0 /\ Alive(newest))
      BY <2>3, <2>4, <3>1
    <3> QED
      BY <2>1, <2>2, <2>5, <3>2
  <2>6. CASE localMap[s][c] # 0
    <3>1. Alive(localMap[s][c]) /\ \A j \in Here(s, c) : j <= localMap[s][c]
      BY <2>4, <2>6 DEF Registered
    <3>2. newest = localMap[s][c]
      BY <2>3, <2>4, <2>6, <3>1
    <3> QED
      BY <2>1, <2>2, <2>6, <3>1, <3>2
  <2> QED
    BY <2>5, <2>6
<1>3. ASSUME NEW c \in Clients
      PROVE  LET newest == Newest(SocketsOf(c))
             IN  (newest # 0 /\ conns[newest].st \in {"open", "lost"} /\ c \notin moved /\ Settled(c))
                   => presence[c] = conns[newest].server
  <2>1. PICK newest : newest = Newest(SocketsOf(c))
    OBVIOUS
  <2>2. SUFFICES ASSUME newest # 0, conns[newest].st \in {"open", "lost"}, c \notin moved, Settled(c)
                 PROVE  presence[c] = conns[newest].server
    BY <2>1
  <2>3. newest \in SocketsOf(c) /\ \A j \in SocketsOf(c) : j <= newest
    BY <2>1, <2>2, NewestIn DEF SocketsOf
  <2>4. newest \in Sockets /\ conns[newest].client = c /\ Last(newest)
    BY <2>3 DEF SocketsOf, Last
  <2>5. Named(conns[newest].server, c)
    BY <2>2, <2>4 DEF Presence, Held
  <2>6. NoChange(conns[newest].server, c)
    BY <1>1, <2>2, <2>4, ChangesIs DEF Settled
  <2> QED
    BY <2>5, <2>6 DEF Named, EndsSet, NoChange, ChangeAt
<1> QED
  BY <1>2, <1>3 DEF RegistriesKeepNewest, LocalMapIsNewest, PresenceKeptUnlessMoved

LEMMA InitRegistries ==
  ASSUME Init
  PROVE  Registry /\ Presence
  BY InitEmpty DEF Registry, Registered, Here, Presence

\* However closes, losses, crashes and reconnects are ordered, and however the commands of the
\* servers are, the local map of a server names its newest socket of a client, and the cache
\* the server of the newest socket there is, unless the client moved between servers.
THEOREM NewestIsKept == Spec => []RegistriesKeepNewest
<1> DEFINE Inv == Types /\ Bounds /\ Registry /\ Presence
<1>1. Init => Inv
  BY InitEmpty, InitRegistries
<1>2. Inv /\ [Next]_vars => Inv'
  BY TypesStep, BoundsStep, RegistryStep, PresenceStep
<1>3. Inv => RegistriesKeepNewest
  BY RegistriesImplied
<1> QED
  BY <1>1, <1>2, <1>3, PTL DEF Spec

-----------------------------------------------------------------------------
(* The order of the frames. *)

\* A frame is in one place: with its look-up to come, on a channel, or with a client.
RouteOnce ==
  \A s, t \in Servers, i, j \in Nat : \A m : IsRoute(s, i, m) /\ IsRoute(t, j, m) => s = t /\ i = j
BusOnce ==
  \A s, t \in Servers, i, j \in Nat : \A m : OnBus(s, i, m) /\ OnBus(t, j, m) => s = t /\ i = j
GotOnce ==
  \A k, l, i, j \in Nat : \A m : Got(k, i, m) /\ Got(l, j, m) => k = l /\ i = j
RouteNotBus == \A s, t \in Servers, i, j \in Nat : \A m : ~(IsRoute(s, i, m) /\ OnBus(t, j, m))
RouteNotGot == \A s \in Servers, k, i, j \in Nat : \A m : ~(IsRoute(s, i, m) /\ Got(k, j, m))
BusNotGot == \A s \in Servers, k, i, j \in Nat : \A m : ~(OnBus(s, i, m) /\ Got(k, j, m))

OnePlace == RouteOnce /\ BusOnce /\ GotOnce /\ RouteNotBus /\ RouteNotGot /\ BusNotGot

\* The frames of one server are in order along the way they take: those on a socket of another
\* server, those on a channel, those whose look-up is to come.
RouteHome == \A s \in Servers, i \in Nat : \A m : IsRoute(s, i, m) => msgs[m].via = s
RoutesInOrder ==
  \A s \in Servers, i, j \in Nat : \A m, n : IsRoute(s, i, m) /\ IsRoute(s, j, n) /\ i < j => m < n
BusInOrder ==
  \A t \in Servers, i, j \in Nat : \A m, n :
    OnBus(t, i, m) /\ OnBus(t, j, n) /\ i < j /\ msgs[m].via = msgs[n].via => m < n
BusBeforeRoutes ==
  \A s, t \in Servers, i, j \in Nat : \A m, n :
    OnBus(t, i, m) /\ IsRoute(s, j, n) /\ msgs[m].via = s => m < n
GotBeforeRoutes ==
  \A s \in Servers, k, i, j \in Nat : \A m, n :
    Got(k, i, m) /\ IsRoute(s, j, n) /\ msgs[m].via = s /\ conns[k].server # s => m < n
GotBeforeBus ==
  \A t \in Servers, k, i, j \in Nat : \A m, n :
    Got(k, i, m) /\ OnBus(t, j, n) /\ conns[k].server = t /\ msgs[m].via = msgs[n].via /\ msgs[n].via # t => m < n

InOrder == RouteHome /\ RoutesInOrder /\ BusInOrder /\ BusBeforeRoutes /\ GotBeforeRoutes /\ GotBeforeBus

\* What a server sends itself over its channel, because it held no socket of the recipient, was
\* sent before any socket of the recipient it holds now was opened.
Before(s, m) == localMap[s][msgs[m].to] # 0 => m <= conns[localMap[s][msgs[m].to]].born
RoutesNotOvertaken == \A s \in Servers, i \in Nat : \A m : IsRoute(s, i, m) => Before(s, m)
BusNotOvertaken == \A s \in Servers, i \in Nat : \A m : OnBus(s, i, m) /\ msgs[m].via = s => Before(s, m)

SocketsInOrder ==
  \A k, i, j \in Nat : \A m, n :
    (/\ Got(k, i, m) /\ Got(k, j, n) /\ i < j /\ msgs[m].via = msgs[n].via
     /\ m > conns[k].born /\ n > conns[k].born) => m < n

Order == OnePlace /\ InOrder /\ RoutesNotOvertaken /\ BusNotOvertaken /\ SocketsInOrder

\* Everything in one of these places is a frame that was sent.
LEMMA AllSent ==
  ASSUME Types, Bounds
  PROVE  /\ \A s \in Servers, i \in Nat : \A m : IsRoute(s, i, m) \/ OnBus(s, i, m) =>
              m \in 1..Len(msgs) /\ m \in Nat /\ msgs[m].to \in Clients /\ msgs[m].via \in Servers
         /\ \A k \in Nat, i \in Nat : \A m : Got(k, i, m) =>
              m \in 1..Len(msgs) /\ m \in Nat /\ msgs[m].via \in Servers /\ k \in Sockets
         /\ Len(msgs) \in Nat /\ Sockets \subseteq Nat /\ 0 \notin Sockets
         /\ \A k \in Sockets : conns[k].born \in Nat /\ conns[k].born <= Len(msgs) /\ conns[k].server \in Servers
  BY Lengths, ConnFields DEF Bounds, Sent, Got

\* The frames there are and the sockets there are stay what they are.
Lasting ==
  /\ \A n \in 1..Len(msgs) : msgs'[n] = msgs[n]
  /\ \A k \in Sockets : k \in Sockets' /\ conns'[k].server = conns[k].server /\ conns'[k].born = conns[k].born

MapsLast == \A s \in Servers, c \in Clients :
  \/ localMap'[s][c] \in {0, localMap[s][c]}
  \/ conns'[localMap'[s][c]].born = Len(msgs)

\* Nothing is queued, published or delivered: what is left of a queue moves up, from the places
\* f and g give.
MovesUp(f) ==
  /\ \A s \in Servers, i \in Nat : f[s][i] \in Nat
  /\ \A s \in Servers, i, j \in Nat : (f[s][i] = f[s][j] => i = j) /\ (i < j => f[s][i] < f[s][j])
Thinned(f, g) ==
  /\ MovesUp(f) /\ MovesUp(g)
  /\ \A s \in Servers, i \in Nat : \A m :
       (IsRoute(s, i, m)' => IsRoute(s, f[s][i], m)) /\ (OnBus(s, i, m)' => OnBus(s, g[s][i], m))
  /\ \A k \in Nat, i \in Nat : \A m : Got(k, i, m)' => Got(k, i, m)
  /\ Lasting /\ MapsLast

LEMMA BeforeLasts ==
  ASSUME Types, Bounds, Lasting, MapsLast, NEW s \in Servers, NEW m \in 1..Len(msgs), Before(s, m)
  PROVE  Before(s, m)'
<1>1. /\ msgs[m].to \in Clients /\ msgs'[m] = msgs[m] /\ m <= Len(msgs)
      /\ localMap[s][msgs[m].to] # 0 => localMap[s][msgs[m].to] \in Sockets
  BY Lengths, MapNames DEF Lasting
<1>2. CASE localMap'[s][msgs[m].to] = 0
  BY <1>1, <1>2 DEF Before
<1>3. CASE localMap'[s][msgs[m].to] = localMap[s][msgs[m].to]
  BY <1>1, <1>3 DEF Before, Lasting
<1>4. CASE conns'[localMap'[s][msgs[m].to]].born = Len(msgs)
  BY <1>1, <1>4 DEF Before
<1> QED
  BY <1>1, <1>2, <1>3, <1>4 DEF MapsLast

LEMMA OrderWhenThinned ==
  ASSUME Types, Bounds, Order, NEW f, NEW g, Thinned(f, g)
  PROVE  Order'
<1>1. /\ \A s \in Servers, i \in Nat : f[s][i] \in Nat /\ g[s][i] \in Nat
      /\ \A s \in Servers, i, j \in Nat : (f[s][i] = f[s][j] => i = j) /\ (g[s][i] = g[s][j] => i = j)
      /\ \A s \in Servers, i, j \in Nat : i < j => f[s][i] < f[s][j] /\ g[s][i] < g[s][j]
  BY DEF Thinned, MovesUp
<1>2. \A s \in Servers, i \in Nat : \A m :
        /\ IsRoute(s, i, m)' => IsRoute(s, f[s][i], m)
        /\ OnBus(s, i, m)' => OnBus(s, g[s][i], m)
  BY DEF Thinned
<1>3. \A k \in Nat, i \in Nat : \A m : Got(k, i, m)' => Got(k, i, m)
  BY DEF Thinned
<1>4. /\ \A s \in Servers, i \in Nat : \A m : IsRoute(s, i, m)' \/ OnBus(s, i, m)' =>
           m \in 1..Len(msgs) /\ msgs'[m] = msgs[m]
      /\ \A k \in Nat, i \in Nat : \A m : Got(k, i, m)' =>
           /\ m \in 1..Len(msgs) /\ msgs'[m] = msgs[m] /\ k \in Sockets
           /\ conns'[k].server = conns[k].server /\ conns'[k].born = conns[k].born
  BY <1>1, <1>2, <1>3, AllSent DEF Thinned, Lasting
<1>5. OnePlace'
  <2>1. RouteOnce'
    <3> SUFFICES ASSUME NEW s \in Servers, NEW t \in Servers, NEW i \in Nat, NEW j \in Nat, NEW m,
                        IsRoute(s, i, m)', IsRoute(t, j, m)'
                 PROVE  s = t /\ i = j
      BY DEF RouteOnce
    <3>1. IsRoute(s, f[s][i], m) /\ IsRoute(t, f[t][j], m) /\ f[s][i] \in Nat /\ f[t][j] \in Nat
      BY <1>1, <1>2
    <3>2. s = t /\ f[s][i] = f[t][j]
      BY <3>1 DEF Order, OnePlace, RouteOnce
    <3> QED
      BY <1>1, <3>2
  <2>2. BusOnce'
    <3> SUFFICES ASSUME NEW s \in Servers, NEW t \in Servers, NEW i \in Nat, NEW j \in Nat, NEW m,
                        OnBus(s, i, m)', OnBus(t, j, m)'
                 PROVE  s = t /\ i = j
      BY DEF BusOnce
    <3>1. OnBus(s, g[s][i], m) /\ OnBus(t, g[t][j], m) /\ g[s][i] \in Nat /\ g[t][j] \in Nat
      BY <1>1, <1>2
    <3>2. s = t /\ g[s][i] = g[t][j]
      BY <3>1 DEF Order, OnePlace, BusOnce
    <3> QED
      BY <1>1, <3>2
  <2>3. GotOnce'
    BY <1>3 DEF Order, OnePlace, GotOnce
  <2>4. RouteNotBus'
    BY <1>1, <1>2 DEF Order, OnePlace, RouteNotBus
  <2>5. RouteNotGot'
    BY <1>1, <1>2, <1>3 DEF Order, OnePlace, RouteNotGot
  <2>6. BusNotGot'
    BY <1>1, <1>2, <1>3 DEF Order, OnePlace, BusNotGot
  <2> QED
    BY <2>1, <2>2, <2>3, <2>4, <2>5, <2>6 DEF OnePlace
<1>6. InOrder'
  <2>1. RouteHome'
    <3> SUFFICES ASSUME NEW s \in Servers, NEW i \in Nat, NEW m, IsRoute(s, i, m)'
                 PROVE  msgs'[m].via = s
      BY DEF RouteHome
    <3>1. IsRoute(s, f[s][i], m) /\ f[s][i] \in Nat /\ msgs'[m] = msgs[m]
      BY <1>1, <1>2, <1>4
    <3> QED
      BY <3>1 DEF Order, InOrder, RouteHome
  <2>2. RoutesInOrder'
    <3> SUFFICES ASSUME NEW s \in Servers, NEW i \in Nat, NEW j \in Nat, NEW m, NEW n,
                        IsRoute(s, i, m)', IsRoute(s, j, n)', i < j
                 PROVE  m < n
      BY DEF RoutesInOrder
    <3>1. /\ IsRoute(s, f[s][i], m) /\ IsRoute(s, f[s][j], n)
          /\ f[s][i] \in Nat /\ f[s][j] \in Nat /\ f[s][i] < f[s][j]
      BY <1>1, <1>2
    <3> QED
      BY <3>1 DEF Order, InOrder, RoutesInOrder
  <2>3. BusInOrder'
    <3> SUFFICES ASSUME NEW t \in Servers, NEW i \in Nat, NEW j \in Nat, NEW m, NEW n,
                        OnBus(t, i, m)', OnBus(t, j, n)', i < j, msgs'[m].via = msgs'[n].via
                 PROVE  m < n
      BY DEF BusInOrder
    <3>1. OnBus(t, g[t][i], m) /\ OnBus(t, g[t][j], n)
      BY <1>2
    <3>2. g[t][i] \in Nat /\ g[t][j] \in Nat /\ g[t][i] < g[t][j]
      BY <1>1
    <3>3. msgs[m].via = msgs[n].via
      BY <1>4
    <3> QED
      BY <3>1, <3>2, <3>3 DEF Order, InOrder, BusInOrder
  <2>4. BusBeforeRoutes'
    <3> SUFFICES ASSUME NEW s \in Servers, NEW t \in Servers, NEW i \in Nat, NEW j \in Nat, NEW m, NEW n,
                        OnBus(t, i, m)', IsRoute(s, j, n)', msgs'[m].via = s
                 PROVE  m < n
      BY DEF BusBeforeRoutes
    <3>1. /\ OnBus(t, g[t][i], m) /\ IsRoute(s, f[s][j], n) /\ msgs[m].via = s
          /\ g[t][i] \in Nat /\ f[s][j] \in Nat
      BY <1>1, <1>2, <1>4
    <3> QED
      BY <3>1 DEF Order, InOrder, BusBeforeRoutes
  <2>5. GotBeforeRoutes'
    <3> SUFFICES ASSUME NEW s \in Servers, NEW k \in Nat, NEW i \in Nat, NEW j \in Nat, NEW m, NEW n,
                        Got(k, i, m)', IsRoute(s, j, n)', msgs'[m].via = s, conns'[k].server # s
                 PROVE  m < n
      BY DEF GotBeforeRoutes
    <3>1. /\ Got(k, i, m) /\ IsRoute(s, f[s][j], n) /\ msgs[m].via = s /\ conns[k].server # s
          /\ f[s][j] \in Nat
      BY <1>1, <1>2, <1>3, <1>4
    <3> QED
      BY <3>1 DEF Order, InOrder, GotBeforeRoutes
  <2>6. GotBeforeBus'
    BY <1>1, <1>2, <1>3, <1>4 DEF Order, InOrder, GotBeforeBus
  <2> QED
    BY <2>1, <2>2, <2>3, <2>4, <2>5, <2>6 DEF InOrder
<1>7. RoutesNotOvertaken'
  BY <1>1, <1>2, <1>4, BeforeLasts DEF Order, RoutesNotOvertaken, Thinned
<1>8. BusNotOvertaken'
  BY <1>1, <1>2, <1>4, BeforeLasts DEF Order, BusNotOvertaken, Thinned
<1>9. SocketsInOrder'
  BY <1>3, <1>4 DEF Order, SocketsInOrder
<1> QED
  BY <1>5, <1>6, <1>7, <1>8, <1>9 DEF Order

\* Redis says that the recipient is at t: the frame goes from the head of the queue of s to the
\* channel of t.
Published(f, s, m, t) ==
  /\ s \in Servers /\ t \in Servers /\ IsRoute(s, 1, m) /\ MovesUp(f)
  /\ \A u \in Servers, i \in Nat : \A n :
       /\ IsRoute(u, i, n)' => IsRoute(u, f[u][i], n) /\ (u = s => f[u][i] > 1)
       /\ OnBus(u, i, n)' => OnBus(u, i, n) \/ (u = t /\ i = Len(bus[t]) + 1 /\ n = m)
  /\ \A k \in Nat, i \in Nat : \A n : Got(k, i, n)' => Got(k, i, n)
  /\ Lasting /\ MapsLast

LEMMA OrderWhenPublished ==
  ASSUME Types, Bounds, Order, NEW f, NEW s, NEW m, NEW t, Published(f, s, m, t)
  PROVE  Order'
<1>1. /\ s \in Servers /\ t \in Servers /\ IsRoute(s, 1, m) /\ m \in Nat
      /\ \A u \in Servers, i \in Nat : f[u][i] \in Nat
      /\ \A u \in Servers, i, j \in Nat : f[u][i] = f[u][j] => i = j
      /\ \A u \in Servers, i, j \in Nat : i < j => f[u][i] < f[u][j]
  BY AllSent DEF Published, MovesUp
<1>2. /\ \A u \in Servers, i \in Nat : \A n : IsRoute(u, i, n)' => IsRoute(u, f[u][i], n) /\ (u = s => f[u][i] > 1)
      /\ \A u \in Servers, i \in Nat : \A n :
           OnBus(u, i, n)' => OnBus(u, i, n) \/ (u = t /\ i = Len(bus[t]) + 1 /\ n = m)
      /\ \A k \in Nat, i \in Nat : \A n : Got(k, i, n)' => Got(k, i, n)
  BY DEF Published
<1>3. /\ Len(bus[t]) \in Nat
      /\ \A i \in Nat : \A n : OnBus(t, i, n) => i <= Len(bus[t])
  BY <1>1, Lengths, Places
<1>4. /\ \A u \in Servers, i \in Nat : \A n : IsRoute(u, i, n) \/ OnBus(u, i, n) =>
           n \in 1..Len(msgs) /\ n \in Nat /\ msgs'[n] = msgs[n]
      /\ \A k \in Nat, i \in Nat : \A n : Got(k, i, n) =>
           /\ n \in 1..Len(msgs) /\ n \in Nat /\ msgs'[n] = msgs[n] /\ k \in Sockets
           /\ conns'[k].server = conns[k].server /\ conns'[k].born = conns[k].born
  BY AllSent DEF Published, Lasting
<1>5. OnePlace'
  <2>1. RouteOnce'
    <3> SUFFICES ASSUME NEW u \in Servers, NEW v \in Servers, NEW i \in Nat, NEW j \in Nat, NEW n,
                        IsRoute(u, i, n)', IsRoute(v, j, n)'
                 PROVE  u = v /\ i = j
      BY DEF RouteOnce
    <3>1. IsRoute(u, f[u][i], n) /\ IsRoute(v, f[v][j], n) /\ f[u][i] \in Nat /\ f[v][j] \in Nat
      BY <1>1, <1>2
    <3>2. u = v /\ f[u][i] = f[v][j]
      BY <3>1 DEF Order, OnePlace, RouteOnce
    <3> QED
      BY <1>1, <3>2
  <2>2. BusOnce'
    <3> SUFFICES ASSUME NEW u \in Servers, NEW v \in Servers, NEW i \in Nat, NEW j \in Nat, NEW n,
                        OnBus(u, i, n)', OnBus(v, j, n)'
                 PROVE  u = v /\ i = j
      BY DEF BusOnce
    <3>1. ~OnBus(u, i, m) /\ ~OnBus(v, j, m)
      BY <1>1 DEF Order, OnePlace, RouteNotBus
    <3> QED
      BY <1>2, <3>1 DEF Order, OnePlace, BusOnce
  <2>3. GotOnce'
    BY <1>2 DEF Order, OnePlace, GotOnce
  <2>4. RouteNotBus'
    <3> SUFFICES ASSUME NEW u \in Servers, NEW v \in Servers, NEW i \in Nat, NEW j \in Nat, NEW n,
                        IsRoute(u, i, n)', OnBus(v, j, n)'
                 PROVE  FALSE
      BY DEF RouteNotBus
    <3>1. IsRoute(u, f[u][i], n) /\ f[u][i] \in Nat /\ (u = s => f[u][i] > 1)
      BY <1>1, <1>2
    <3>2. n = m
      BY <1>2, <3>1 DEF Order, OnePlace, RouteNotBus
    <3>3. u = s /\ f[u][i] = 1
      BY <1>1, <3>1, <3>2 DEF Order, OnePlace, RouteOnce
    <3> QED
      BY <3>1, <3>3
  <2>5. RouteNotGot'
    BY <1>1, <1>2 DEF Order, OnePlace, RouteNotGot
  <2>6. BusNotGot'
    BY <1>1, <1>2 DEF Order, OnePlace, BusNotGot, RouteNotGot
  <2> QED
    BY <2>1, <2>2, <2>3, <2>4, <2>5, <2>6 DEF OnePlace
<1>6. msgs[m].via = s
  BY <1>1 DEF Order, InOrder, RouteHome
<1>7. InOrder'
  <2>1. RouteHome'
    <3> SUFFICES ASSUME NEW u \in Servers, NEW i \in Nat, NEW n, IsRoute(u, i, n)'
                 PROVE  msgs'[n].via = u
      BY DEF RouteHome
    <3>1. IsRoute(u, f[u][i], n) /\ f[u][i] \in Nat /\ msgs'[n] = msgs[n]
      BY <1>1, <1>2, <1>4
    <3> QED
      BY <3>1 DEF Order, InOrder, RouteHome
  <2>2. RoutesInOrder'
    <3> SUFFICES ASSUME NEW u \in Servers, NEW i \in Nat, NEW j \in Nat, NEW n, NEW o,
                        IsRoute(u, i, n)', IsRoute(u, j, o)', i < j
                 PROVE  n < o
      BY DEF RoutesInOrder
    <3>1. /\ IsRoute(u, f[u][i], n) /\ IsRoute(u, f[u][j], o)
          /\ f[u][i] \in Nat /\ f[u][j] \in Nat /\ f[u][i] < f[u][j]
      BY <1>1, <1>2
    <3> QED
      BY <3>1 DEF Order, InOrder, RoutesInOrder
  <2>3. BusInOrder'
    <3> SUFFICES ASSUME NEW u \in Servers, NEW i \in Nat, NEW j \in Nat, NEW n, NEW o,
                        OnBus(u, i, n)', OnBus(u, j, o)', i < j, msgs'[n].via = msgs'[o].via
                 PROVE  n < o
      BY DEF BusInOrder
    <3>1. msgs'[n] = msgs[n] /\ msgs'[o] = msgs[o]
      BY <1>1, <1>2, <1>4
    <3>2. OnBus(u, i, n)
      <4>1. OnBus(u, j, o) \/ (u = t /\ j = Len(bus[t]) + 1)
        BY <1>2
      <4>2. u = t => j <= Len(bus[t]) + 1
        BY <1>3, <4>1
      <4>3. OnBus(u, i, n) \/ (u = t /\ i = Len(bus[t]) + 1)
        BY <1>2
      <4> QED
        BY <1>3, <4>2, <4>3
    <3>3. CASE OnBus(u, j, o)
      BY <3>1, <3>2, <3>3 DEF Order, InOrder, BusInOrder
    <3>4. CASE o = m
      BY <1>1, <1>6, <3>1, <3>2, <3>4 DEF Order, InOrder, BusBeforeRoutes
    <3>5. OnBus(u, j, o) \/ o = m
      BY <1>2
    <3> QED
      BY <3>3, <3>4, <3>5
  <2>4. BusBeforeRoutes'
    <3> SUFFICES ASSUME NEW u \in Servers, NEW v \in Servers, NEW i \in Nat, NEW j \in Nat, NEW n, NEW o,
                        OnBus(v, i, n)', IsRoute(u, j, o)', msgs'[n].via = u
                 PROVE  n < o
      BY DEF BusBeforeRoutes
    <3>1. IsRoute(u, f[u][j], o) /\ f[u][j] \in Nat /\ (u = s => f[u][j] > 1) /\ msgs'[n] = msgs[n]
      BY <1>1, <1>2, <1>4
    <3>2. CASE OnBus(v, i, n)
      BY <3>1, <3>2 DEF Order, InOrder, BusBeforeRoutes
    <3>3. CASE n = m
      <4>1. u = s /\ 1 < f[u][j] /\ 1 \in Nat /\ IsRoute(s, 1, n) /\ IsRoute(s, f[u][j], o)
        BY <1>1, <1>6, <3>1, <3>3
      <4>2. RoutesInOrder
        BY DEF Order, InOrder
      <4> QED
        BY <1>1, <3>1, <4>1, <4>2 DEF RoutesInOrder
    <3>4. OnBus(v, i, n) \/ n = m
      BY <1>2
    <3> QED
      BY <3>2, <3>3, <3>4
  <2>5. GotBeforeRoutes'
    <3> SUFFICES ASSUME NEW u \in Servers, NEW k \in Nat, NEW i \in Nat, NEW j \in Nat, NEW n, NEW o,
                        Got(k, i, n)', IsRoute(u, j, o)', msgs'[n].via = u, conns'[k].server # u
                 PROVE  n < o
      BY DEF GotBeforeRoutes
    <3>1. /\ Got(k, i, n) /\ IsRoute(u, f[u][j], o) /\ msgs[n].via = u /\ conns[k].server # u
          /\ f[u][j] \in Nat
      BY <1>1, <1>2, <1>4
    <3> QED
      BY <3>1 DEF Order, InOrder, GotBeforeRoutes
  <2>6. GotBeforeBus'
    <3> SUFFICES ASSUME NEW u \in Servers, NEW k \in Nat, NEW i \in Nat, NEW j \in Nat, NEW n, NEW o,
                        Got(k, i, n)', OnBus(u, j, o)', conns'[k].server = u,
                        msgs'[n].via = msgs'[o].via, msgs'[o].via # u
                 PROVE  n < o
      BY DEF GotBeforeBus
    <3>1. /\ Got(k, i, n) /\ conns[k].server = u /\ msgs'[o] = msgs[o]
          /\ msgs[n].via = msgs[o].via /\ msgs[o].via # u
      BY <1>1, <1>2, <1>4
    <3>2. CASE OnBus(u, j, o)
      BY <3>1, <3>2 DEF Order, InOrder, GotBeforeBus
    <3>3. CASE o = m
      BY <1>1, <1>6, <3>1, <3>3 DEF Order, InOrder, GotBeforeRoutes
    <3> QED
      BY <1>2, <3>2, <3>3
  <2> QED
    BY <2>1, <2>2, <2>3, <2>4, <2>5, <2>6 DEF InOrder
<1>8. RoutesNotOvertaken'
  BY <1>1, <1>2, <1>4, BeforeLasts DEF Order, RoutesNotOvertaken, Published
<1>9. BusNotOvertaken'
  <2> SUFFICES ASSUME NEW u \in Servers, NEW i \in Nat, NEW n, OnBus(u, i, n)', msgs'[n].via = u
               PROVE  Before(u, n)'
    BY DEF BusNotOvertaken
  <2>1. n \in 1..Len(msgs) /\ msgs[n].via = u
    BY <1>1, <1>2, <1>4
  <2>2. Before(u, n)
    <3>1. CASE OnBus(u, i, n)
      BY <2>1, <3>1 DEF Order, BusNotOvertaken
    <3>2. CASE n = m
      BY <1>1, <1>6, <2>1, <3>2 DEF Order, RoutesNotOvertaken
    <3> QED
      BY <1>2, <3>1, <3>2
  <2> QED
    BY <2>1, <2>2, BeforeLasts DEF Published
<1>10. SocketsInOrder'
  BY <1>2, <1>4 DEF Order, SocketsInOrder
<1> QED
  BY <1>5, <1>7, <1>8, <1>9, <1>10 DEF Order

\* The frame at the head of the channel of s goes to the client, on socket k.
Arrives(g, s, m, k) ==
  /\ s \in Servers /\ k \in Sockets /\ OnBus(s, 1, m) /\ MovesUp(g)
  /\ \A u \in Servers, i \in Nat : \A n :
       /\ OnBus(u, i, n)' => OnBus(u, g[u][i], n) /\ (u = s => g[u][i] > 1)
       /\ IsRoute(u, i, n)' => IsRoute(u, i, n)
  /\ \A j \in Nat, i \in Nat : \A n : Got(j, i, n)' => Got(j, i, n) \/ (j = k /\ i = Len(conns[k].got) + 1 /\ n = m)
  /\ Lasting /\ MapsLast
  /\ conns[k].server = s /\ (msgs[m].via = s => m <= conns[k].born)

LEMMA OrderWhenArrives ==
  ASSUME Types, Bounds, Order, NEW g, NEW s, NEW m, NEW k, Arrives(g, s, m, k)
  PROVE  Order'
<1>1. /\ s \in Servers /\ k \in Sockets /\ OnBus(s, 1, m) /\ m \in Nat /\ conns[k].server = s
      /\ \A u \in Servers, i \in Nat : g[u][i] \in Nat
      /\ \A u \in Servers, i, j \in Nat : g[u][i] = g[u][j] => i = j
      /\ \A u \in Servers, i, j \in Nat : i < j => g[u][i] < g[u][j]
  BY AllSent DEF Arrives, MovesUp
<1>2. /\ \A u \in Servers, i \in Nat : \A n : OnBus(u, i, n)' => OnBus(u, g[u][i], n) /\ (u = s => g[u][i] > 1)
      /\ \A u \in Servers, i \in Nat : \A n : IsRoute(u, i, n)' => IsRoute(u, i, n)
      /\ \A j \in Nat, i \in Nat : \A n :
           Got(j, i, n)' => Got(j, i, n) \/ (j = k /\ i = Len(conns[k].got) + 1 /\ n = m)
  BY DEF Arrives
<1>3. /\ Len(conns[k].got) \in Nat /\ conns[k].born \in Nat
      /\ \A i \in Nat : \A n : Got(k, i, n) => i <= Len(conns[k].got)
  BY <1>1, ConnFields DEF Got
<1>4. /\ \A u \in Servers, i \in Nat : \A n : IsRoute(u, i, n) \/ OnBus(u, i, n) =>
           n \in 1..Len(msgs) /\ n \in Nat /\ msgs'[n] = msgs[n]
      /\ \A j \in Nat, i \in Nat : \A n : Got(j, i, n) =>
           n \in 1..Len(msgs) /\ n \in Nat /\ msgs'[n] = msgs[n] /\ j \in Sockets
      /\ \A j \in Sockets : j \in Nat /\ conns'[j].server = conns[j].server /\ conns'[j].born = conns[j].born
  BY AllSent DEF Arrives, Lasting
<1>5. OnePlace'
  <2>1. RouteOnce'
    BY <1>2 DEF Order, OnePlace, RouteOnce
  <2>2. BusOnce'
    <3> SUFFICES ASSUME NEW u \in Servers, NEW v \in Servers, NEW i \in Nat, NEW j \in Nat, NEW n,
                        OnBus(u, i, n)', OnBus(v, j, n)'
                 PROVE  u = v /\ i = j
      BY DEF BusOnce
    <3>1. OnBus(u, g[u][i], n) /\ OnBus(v, g[v][j], n) /\ g[u][i] \in Nat /\ g[v][j] \in Nat
      BY <1>1, <1>2
    <3>2. u = v /\ g[u][i] = g[v][j]
      BY <3>1 DEF Order, OnePlace, BusOnce
    <3> QED
      BY <1>1, <3>2
  <2>3. GotOnce'
    <3>1. \A j, i \in Nat : ~Got(j, i, m)
      BY <1>1 DEF Order, OnePlace, BusNotGot
    <3>2. \A j, i \in Nat : \A n : Got(j, i, n)' => (Got(j, i, n) /\ n # m) \/ (j = k /\ i = Len(conns[k].got) + 1 /\ n = m)
      BY <1>2, <3>1
    <3> QED
      BY <3>2 DEF Order, OnePlace, GotOnce
  <2>4. RouteNotBus'
    <3>1. \A u, v \in Servers, i, j \in Nat : \A n : ~(IsRoute(u, i, n) /\ OnBus(v, g[v][j], n))
      BY <1>1 DEF Order, OnePlace, RouteNotBus
    <3> QED
      BY <1>2, <3>1 DEF RouteNotBus
  <2>5. RouteNotGot'
    BY <1>1, <1>2 DEF Order, OnePlace, RouteNotGot, RouteNotBus
  <2>6. BusNotGot'
    <3> SUFFICES ASSUME NEW u \in Servers, NEW j \in Nat, NEW i \in Nat, NEW l \in Nat, NEW n,
                        OnBus(u, i, n)', Got(j, l, n)'
                 PROVE  FALSE
      BY DEF BusNotGot
    <3>1. OnBus(u, g[u][i], n) /\ g[u][i] \in Nat /\ (u = s => g[u][i] > 1)
      BY <1>1, <1>2
    <3>2. n = m
      <4>1. ~Got(j, l, n)
        BY <3>1 DEF Order, OnePlace, BusNotGot
      <4>2. \A p, q \in Nat : \A o : Got(p, q, o)' => Got(p, q, o) \/ o = m
        BY DEF Arrives
      <4> QED
        BY <4>1, <4>2
    <3>3. u = s /\ g[u][i] = 1
      BY <1>1, <3>1, <3>2 DEF Order, OnePlace, BusOnce
    <3> QED
      BY <3>1, <3>3
  <2> QED
    BY <2>1, <2>2, <2>3, <2>4, <2>5, <2>6 DEF OnePlace
<1>6. m \in 1..Len(msgs) /\ msgs'[m] = msgs[m]
  BY <1>1, <1>4
<1>7. InOrder'
  <2>1. RouteHome'
    BY <1>2, <1>4 DEF Order, InOrder, RouteHome
  <2>2. RoutesInOrder'
    BY <1>2 DEF Order, InOrder, RoutesInOrder
  <2>3. BusInOrder'
    <3> SUFFICES ASSUME NEW t \in Servers, NEW i \in Nat, NEW j \in Nat, NEW n, NEW o,
                        OnBus(t, i, n)', OnBus(t, j, o)', i < j, msgs'[n].via = msgs'[o].via
                 PROVE  n < o
      BY DEF BusInOrder
    <3>1. OnBus(t, g[t][i], n) /\ OnBus(t, g[t][j], o)
      BY <1>2
    <3>2. g[t][i] \in Nat /\ g[t][j] \in Nat /\ g[t][i] < g[t][j]
      BY <1>1
    <3>3. msgs[n].via = msgs[o].via
      BY <1>4, <3>1, <3>2
    <3> QED
      BY <3>1, <3>2, <3>3 DEF Order, InOrder, BusInOrder
  <2>4. BusBeforeRoutes'
    <3> SUFFICES ASSUME NEW u \in Servers, NEW v \in Servers, NEW i \in Nat, NEW j \in Nat, NEW n, NEW o,
                        OnBus(v, i, n)', IsRoute(u, j, o)', msgs'[n].via = u
                 PROVE  n < o
      BY DEF BusBeforeRoutes
    <3>1. OnBus(v, g[v][i], n) /\ g[v][i] \in Nat /\ IsRoute(u, j, o) /\ msgs[n].via = u
      BY <1>1, <1>2, <1>4
    <3> QED
      BY <3>1 DEF Order, InOrder, BusBeforeRoutes
  <2>5. GotBeforeRoutes'
    <3> SUFFICES ASSUME NEW u \in Servers, NEW l \in Nat, NEW i \in Nat, NEW j \in Nat, NEW n, NEW o,
                        Got(l, i, n)', IsRoute(u, j, o)', msgs'[n].via = u, conns'[l].server # u
                 PROVE  n < o
      BY DEF GotBeforeRoutes
    <3>1. Got(l, i, n) \/ n = m
      BY <1>2
    <3>2. IsRoute(u, j, o)
      BY <1>2
    <3>3. CASE Got(l, i, n)
      BY <1>4, <3>2, <3>3 DEF Order, InOrder, GotBeforeRoutes
    <3>4. CASE n = m
      BY <1>1, <1>6, <3>2, <3>4 DEF Order, InOrder, BusBeforeRoutes
    <3> QED
      BY <3>1, <3>3, <3>4
  <2>6. GotBeforeBus'
    <3> SUFFICES ASSUME NEW t \in Servers, NEW l \in Nat, NEW i \in Nat, NEW j \in Nat, NEW n, NEW o,
                        Got(l, i, n)', OnBus(t, j, o)', conns'[l].server = t,
                        msgs'[n].via = msgs'[o].via, msgs'[o].via # t
                 PROVE  n < o
      BY DEF GotBeforeBus
    <3>1. OnBus(t, g[t][j], o) /\ g[t][j] \in Nat /\ (t = s => g[t][j] > 1) /\ msgs'[o] = msgs[o]
      BY <1>1, <1>2, <1>4
    <3>2. Got(l, i, n) \/ (l = k /\ n = m)
      <4>1. Got(l, i, n)' => Got(l, i, n) \/ (l = k /\ i = Len(conns[k].got) + 1 /\ n = m)
        BY <1>2
      <4> QED
        BY <4>1
    <3>3. CASE Got(l, i, n)
      BY <1>4, <3>1, <3>3 DEF Order, InOrder, GotBeforeBus
    <3>4. CASE l = k /\ n = m
      <4>1. t = s /\ 1 < g[s][j] /\ OnBus(s, g[s][j], o) /\ msgs[m].via = msgs[o].via
        BY <1>1, <1>4, <1>6, <3>1, <3>4
      <4>2. BusInOrder /\ 1 \in Nat
        BY DEF Order, InOrder
      <4> QED
        BY <1>1, <3>1, <3>4, <4>1, <4>2 DEF BusInOrder
    <3> QED
      BY <3>2, <3>3, <3>4
  <2> QED
    BY <2>1, <2>2, <2>3, <2>4, <2>5, <2>6 DEF InOrder
<1>8. RoutesNotOvertaken'
  BY <1>2, <1>4, BeforeLasts DEF Order, RoutesNotOvertaken, Arrives
<1>9. BusNotOvertaken'
  <2> SUFFICES ASSUME NEW u \in Servers, NEW i \in Nat, NEW n, OnBus(u, i, n)', msgs'[n].via = u
               PROVE  Before(u, n)'
    BY DEF BusNotOvertaken
  <2>1. n \in 1..Len(msgs) /\ msgs[n].via = u /\ OnBus(u, g[u][i], n) /\ g[u][i] \in Nat
    BY <1>1, <1>2, <1>4
  <2>2. Before(u, n)
    BY <2>1 DEF Order, BusNotOvertaken
  <2> QED
    BY <2>1, <2>2, BeforeLasts DEF Arrives
<1>10. SocketsInOrder'
  <2> SUFFICES ASSUME NEW l \in Nat, NEW i \in Nat, NEW j \in Nat, NEW n, NEW o,
                      Got(l, i, n)', Got(l, j, o)', i < j, msgs'[n].via = msgs'[o].via,
                      n > conns'[l].born, o > conns'[l].born
               PROVE  n < o
    BY DEF SocketsInOrder
  <2>1. (Got(l, i, n) \/ (l = k /\ i = Len(conns[k].got) + 1 /\ n = m))
    BY <1>2
  <2>2. (Got(l, j, o) \/ (l = k /\ j = Len(conns[k].got) + 1 /\ o = m))
    BY <1>2
  <2>3. Got(l, i, n)
    BY <1>3, <2>1, <2>2
  <2>4. msgs'[n] = msgs[n] /\ l \in Sockets /\ conns'[l].born = conns[l].born
    BY <1>4, <2>3
  <2>5. CASE Got(l, j, o)
    BY <1>4, <2>3, <2>4, <2>5 DEF Order, SocketsInOrder
  <2>6. CASE l = k /\ o = m
    <3>1. msgs[m].via # s
      BY <1>3, <2>4, <2>6, <1>1 DEF Arrives
    <3>2. Got(k, i, n) /\ OnBus(s, 1, m) /\ conns[k].server = s /\ msgs[n].via = msgs[m].via /\ 1 \in Nat /\ k \in Nat
      BY <1>1, <1>4, <1>6, <2>3, <2>4, <2>6
    <3>3. GotBeforeBus
      BY DEF Order, InOrder
    <3> QED
      BY <1>1, <2>6, <3>1, <3>2, <3>3 DEF GotBeforeBus
  <2> QED
    BY <2>2, <2>5, <2>6
<1> QED
  BY <1>5, <1>7, <1>8, <1>9, <1>10 DEF Order

\* A new frame goes to socket k of the server it came in at.
GoesOut(s, m, k) ==
  /\ s \in Servers /\ k \in Sockets /\ m = Len(msgs) + 1 /\ conns[k].server = s /\ msgs'[m].via = s
  /\ \A u \in Servers, i \in Nat : \A n : (OnBus(u, i, n)' => OnBus(u, i, n)) /\ (IsRoute(u, i, n)' => IsRoute(u, i, n))
  /\ \A j \in Nat, i \in Nat : \A n : Got(j, i, n)' => Got(j, i, n) \/ (j = k /\ i = Len(conns[k].got) + 1 /\ n = m)
  /\ Lasting /\ MapsLast

LEMMA OrderWhenGoesOut ==
  ASSUME Types, Bounds, Order, NEW s, NEW m, NEW k, GoesOut(s, m, k)
  PROVE  Order'
<1>1. s \in Servers /\ k \in Sockets /\ conns[k].server = s /\ msgs'[m].via = s
  BY DEF GoesOut
<1>2. /\ \A u \in Servers, i \in Nat : \A n : OnBus(u, i, n)' => OnBus(u, i, n)
      /\ \A u \in Servers, i \in Nat : \A n : IsRoute(u, i, n)' => IsRoute(u, i, n)
      /\ \A j \in Nat, i \in Nat : \A n :
           Got(j, i, n)' => Got(j, i, n) \/ (j = k /\ i = Len(conns[k].got) + 1 /\ n = m)
  BY DEF GoesOut
<1>3. /\ Len(conns[k].got) \in Nat
      /\ \A i \in Nat : \A n : Got(k, i, n) => i <= Len(conns[k].got)
  BY <1>1, ConnFields DEF Got
<1>4. /\ m \in Nat
      /\ \A u \in Servers, i \in Nat : \A n : IsRoute(u, i, n) \/ OnBus(u, i, n) =>
           n \in 1..Len(msgs) /\ n \in Nat /\ n < m /\ n # m /\ msgs'[n] = msgs[n]
      /\ \A j \in Nat, i \in Nat : \A n : Got(j, i, n) =>
           n \in 1..Len(msgs) /\ n \in Nat /\ n < m /\ n # m /\ msgs'[n] = msgs[n] /\ j \in Sockets
      /\ \A j \in Sockets : j \in Nat /\ conns'[j].server = conns[j].server /\ conns'[j].born = conns[j].born
  <2>1. m = Len(msgs) + 1 /\ Lasting
    BY DEF GoesOut
  <2> QED
    BY <2>1, AllSent DEF Lasting
<1>5. OnePlace'
  <2>1. RouteOnce'
    BY <1>2 DEF Order, OnePlace, RouteOnce
  <2>2. BusOnce'
    BY <1>2 DEF Order, OnePlace, BusOnce
  <2>3. GotOnce'
    <3>1. \A j, i \in Nat : \A n : Got(j, i, n)' => (Got(j, i, n) /\ n # m) \/ (j = k /\ i = Len(conns[k].got) + 1 /\ n = m)
      BY <1>2, <1>4
    <3> QED
      BY <3>1 DEF Order, OnePlace, GotOnce
  <2>4. RouteNotBus'
    BY <1>2 DEF Order, OnePlace, RouteNotBus
  <2>5. RouteNotGot'
    <3>1. \A u \in Servers, i \in Nat : \A n : IsRoute(u, i, n)' => IsRoute(u, i, n) /\ n # m
      BY <1>2, <1>4
    <3> QED
      BY <1>2, <3>1 DEF Order, OnePlace, RouteNotGot
  <2>6. BusNotGot'
    <3>1. \A u \in Servers, i \in Nat : \A n : OnBus(u, i, n)' => OnBus(u, i, n) /\ n # m
      BY <1>2, <1>4
    <3> QED
      BY <1>2, <3>1 DEF Order, OnePlace, BusNotGot
  <2> QED
    BY <2>1, <2>2, <2>3, <2>4, <2>5, <2>6 DEF OnePlace
<1>7. InOrder'
  <2>1. RouteHome'
    BY <1>2, <1>4 DEF Order, InOrder, RouteHome
  <2>2. RoutesInOrder'
    BY <1>2 DEF Order, InOrder, RoutesInOrder
  <2>3. BusInOrder'
    <3>1. \A u \in Servers, i \in Nat : \A n : OnBus(u, i, n)' => OnBus(u, i, n) /\ msgs'[n].via = msgs[n].via
      BY <1>2, <1>4
    <3> QED
      BY <3>1 DEF Order, InOrder, BusInOrder
  <2>4. BusBeforeRoutes'
    <3>1. \A u \in Servers, i \in Nat : \A n : OnBus(u, i, n)' => OnBus(u, i, n) /\ msgs'[n].via = msgs[n].via
      BY <1>2, <1>4
    <3> QED
      BY <1>2, <3>1 DEF Order, InOrder, BusBeforeRoutes
  <2>5. GotBeforeRoutes'
    <3> SUFFICES ASSUME NEW u \in Servers, NEW l \in Nat, NEW i \in Nat, NEW j \in Nat, NEW n, NEW o,
                        Got(l, i, n)', IsRoute(u, j, o)', msgs'[n].via = u, conns'[l].server # u
                 PROVE  n < o
      BY DEF GotBeforeRoutes
    <3>0. Got(l, i, n) \/ (l = k /\ n = m)
      BY DEF GoesOut
    <3>1. IsRoute(u, j, o)
      BY <1>2
    <3>2. Got(l, i, n)
      BY <1>1, <1>4, <3>0
    <3> QED
      BY <1>4, <3>1, <3>2 DEF Order, InOrder, GotBeforeRoutes
  <2>6. GotBeforeBus'
    <3> SUFFICES ASSUME NEW t \in Servers, NEW l \in Nat, NEW i \in Nat, NEW j \in Nat, NEW n, NEW o,
                        Got(l, i, n)', OnBus(t, j, o)', conns'[l].server = t,
                        msgs'[n].via = msgs'[o].via, msgs'[o].via # t
                 PROVE  n < o
      BY DEF GotBeforeBus
    <3>1. OnBus(t, j, o) /\ msgs'[o] = msgs[o] /\ (Got(l, i, n) \/ (l = k /\ n = m))
      BY <1>2, <1>4
    <3>2. Got(l, i, n)
      BY <1>1, <1>4, <3>1
    <3> QED
      BY <1>4, <3>1, <3>2 DEF Order, InOrder, GotBeforeBus
  <2> QED
    BY <2>1, <2>2, <2>3, <2>4, <2>5, <2>6 DEF InOrder
<1>8. RoutesNotOvertaken'
  BY <1>2, <1>4, BeforeLasts DEF Order, RoutesNotOvertaken, GoesOut
<1>9. BusNotOvertaken'
  BY <1>2, <1>4, BeforeLasts DEF Order, BusNotOvertaken, GoesOut
<1>10. SocketsInOrder'
  <2> SUFFICES ASSUME NEW l \in Nat, NEW i \in Nat, NEW j \in Nat, NEW n, NEW o,
                      Got(l, i, n)', Got(l, j, o)', i < j, msgs'[n].via = msgs'[o].via,
                      n > conns'[l].born, o > conns'[l].born
               PROVE  n < o
    BY DEF SocketsInOrder
  <2>1. (Got(l, i, n) \/ (l = k /\ i = Len(conns[k].got) + 1 /\ n = m))
    BY <1>2
  <2>2. (Got(l, j, o) \/ (l = k /\ j = Len(conns[k].got) + 1 /\ o = m))
    BY <1>2
  <2>3. Got(l, i, n)
    BY <1>3, <2>1, <2>2
  <2>4. n < m /\ msgs'[n] = msgs[n] /\ l \in Sockets /\ conns'[l].born = conns[l].born
    BY <1>4, <2>3
  <2>5. CASE Got(l, j, o)
    BY <1>4, <2>3, <2>4, <2>5 DEF Order, SocketsInOrder
  <2> QED
    BY <2>2, <2>4, <2>5
<1> QED
  BY <1>5, <1>7, <1>8, <1>9, <1>10 DEF Order

\* A new frame waits for the look-up of its recipient, whom its server does not hold.
WaitsForRoute(s, m) ==
  /\ s \in Servers /\ m = Len(msgs) + 1 /\ msgs'[m].via = s /\ localMap'[s][msgs'[m].to] = 0
  /\ \A u \in Servers, i \in Nat : \A n :
       /\ OnBus(u, i, n)' => OnBus(u, i, n)
       /\ IsRoute(u, i, n)' => IsRoute(u, i, n) \/ (u = s /\ i = Len(issued[s]) + 1 /\ n = m)
  /\ \A j \in Nat, i \in Nat : \A n : Got(j, i, n)' => Got(j, i, n)
  /\ Lasting /\ MapsLast

LEMMA OrderWhenWaits ==
  ASSUME Types, Bounds, Order, NEW s, NEW m, WaitsForRoute(s, m)
  PROVE  Order'
<1>1. s \in Servers /\ msgs'[m].via = s /\ localMap'[s][msgs'[m].to] = 0
  BY DEF WaitsForRoute
<1>2. /\ \A u \in Servers, i \in Nat : \A n : OnBus(u, i, n)' => OnBus(u, i, n)
      /\ \A u \in Servers, i \in Nat : \A n :
           IsRoute(u, i, n)' => IsRoute(u, i, n) \/ (u = s /\ i = Len(issued[s]) + 1 /\ n = m)
      /\ \A j \in Nat, i \in Nat : \A n : Got(j, i, n)' => Got(j, i, n)
  BY DEF WaitsForRoute
<1>3. /\ Len(issued[s]) \in Nat
      /\ \A i \in Nat : \A n : IsRoute(s, i, n) => i <= Len(issued[s])
  BY <1>1, Lengths, Places DEF IsRoute
<1>4. /\ m \in Nat
      /\ \A u \in Servers, i \in Nat : \A n : IsRoute(u, i, n) \/ OnBus(u, i, n) =>
           n \in 1..Len(msgs) /\ n \in Nat /\ n < m /\ n # m /\ msgs'[n] = msgs[n]
      /\ \A j \in Nat, i \in Nat : \A n : Got(j, i, n) =>
           /\ n \in 1..Len(msgs) /\ n \in Nat /\ n < m /\ n # m /\ msgs'[n] = msgs[n] /\ j \in Sockets
           /\ conns'[j].server = conns[j].server /\ conns'[j].born = conns[j].born
  <2>1. m = Len(msgs) + 1 /\ Lasting
    BY DEF WaitsForRoute
  <2>2. m \in Nat /\ \A n \in 1..Len(msgs) : n \in Nat /\ n < m /\ n # m /\ msgs'[n] = msgs[n]
    BY <2>1, AllSent DEF Lasting
  <2>3. \A j \in Sockets : conns'[j].server = conns[j].server /\ conns'[j].born = conns[j].born
    BY <2>1 DEF Lasting
  <2> QED
    BY <2>2, <2>3, AllSent
<1>5. OnePlace'
  <2>1. RouteOnce'
    <3>1. \A u \in Servers, i \in Nat : \A n :
            IsRoute(u, i, n)' => (IsRoute(u, i, n) /\ n # m) \/ (u = s /\ i = Len(issued[s]) + 1 /\ n = m)
      BY <1>2, <1>4
    <3> QED
      BY <3>1 DEF Order, OnePlace, RouteOnce
  <2>2. BusOnce'
    BY <1>2 DEF Order, OnePlace, BusOnce
  <2>3. GotOnce'
    BY <1>2 DEF Order, OnePlace, GotOnce
  <2>4. RouteNotBus'
    <3>1. \A u \in Servers, i \in Nat : \A n : OnBus(u, i, n)' => OnBus(u, i, n) /\ n # m
      BY <1>2, <1>4
    <3> QED
      BY <1>2, <3>1 DEF Order, OnePlace, RouteNotBus
  <2>5. RouteNotGot'
    <3>1. \A j, i \in Nat : \A n : Got(j, i, n)' => Got(j, i, n) /\ n # m
      BY <1>2, <1>4
    <3> QED
      BY <1>2, <3>1 DEF Order, OnePlace, RouteNotGot
  <2>6. BusNotGot'
    BY <1>2 DEF Order, OnePlace, BusNotGot
  <2> QED
    BY <2>1, <2>2, <2>3, <2>4, <2>5, <2>6 DEF OnePlace
<1>7. InOrder'
  <2>0. /\ \A u \in Servers, i \in Nat : \A n : OnBus(u, i, n)' => OnBus(u, i, n) /\ n < m /\ msgs'[n].via = msgs[n].via
        /\ \A u \in Servers, i \in Nat : \A n : IsRoute(u, i, n)' =>
             \/ IsRoute(u, i, n) /\ n < m /\ msgs'[n].via = msgs[n].via
             \/ u = s /\ i = Len(issued[s]) + 1 /\ n = m
        /\ \A j \in Nat, i \in Nat : \A n : Got(j, i, n)' => Got(j, i, n) /\ n < m /\ msgs'[n].via = msgs[n].via
    BY <1>2, <1>4
  <2>1. RouteHome'
    BY <1>1, <2>0 DEF Order, InOrder, RouteHome
  <2>2. RoutesInOrder'
    <3> SUFFICES ASSUME NEW u \in Servers, NEW i \in Nat, NEW j \in Nat, NEW n, NEW o,
                        IsRoute(u, i, n)', IsRoute(u, j, o)', i < j
                 PROVE  n < o
      BY DEF RoutesInOrder
    <3>1. IsRoute(u, j, o) \/ (u = s /\ j = Len(issued[s]) + 1 /\ o = m)
      BY <2>0
    <3>2. IsRoute(u, i, n) /\ n < m
      BY <1>3, <2>0, <3>1
    <3>3. CASE IsRoute(u, j, o)
      BY <3>2, <3>3 DEF Order, InOrder, RoutesInOrder
    <3> QED
      BY <3>1, <3>2, <3>3
  <2>3. BusInOrder'
    BY <2>0 DEF Order, InOrder, BusInOrder
  <2>4. BusBeforeRoutes'
    <3> SUFFICES ASSUME NEW u \in Servers, NEW v \in Servers, NEW i \in Nat, NEW j \in Nat, NEW n, NEW o,
                        OnBus(v, i, n)', IsRoute(u, j, o)', msgs'[n].via = u
                 PROVE  n < o
      BY DEF BusBeforeRoutes
    <3>1. OnBus(v, i, n) /\ n < m /\ msgs[n].via = u /\ (IsRoute(u, j, o) \/ o = m)
      BY <2>0
    <3> QED
      BY <3>1 DEF Order, InOrder, BusBeforeRoutes
  <2>5. GotBeforeRoutes'
    <3> SUFFICES ASSUME NEW u \in Servers, NEW l \in Nat, NEW i \in Nat, NEW j \in Nat, NEW n, NEW o,
                        Got(l, i, n)', IsRoute(u, j, o)', msgs'[n].via = u, conns'[l].server # u
                 PROVE  n < o
      BY DEF GotBeforeRoutes
    <3>1. /\ Got(l, i, n) /\ n < m /\ msgs[n].via = u /\ (IsRoute(u, j, o) \/ o = m)
          /\ conns[l].server # u
      BY <1>4, <2>0
    <3> QED
      BY <3>1 DEF Order, InOrder, GotBeforeRoutes
  <2>6. GotBeforeBus'
    <3> SUFFICES ASSUME NEW t \in Servers, NEW l \in Nat, NEW i \in Nat, NEW j \in Nat, NEW n, NEW o,
                        Got(l, i, n)', OnBus(t, j, o)', conns'[l].server = t,
                        msgs'[n].via = msgs'[o].via, msgs'[o].via # t
                 PROVE  n < o
      BY DEF GotBeforeBus
    <3>1. /\ Got(l, i, n) /\ OnBus(t, j, o) /\ conns[l].server = t
          /\ msgs[n].via = msgs[o].via /\ msgs[o].via # t
      BY <1>4, <2>0
    <3> QED
      BY <3>1 DEF Order, InOrder, GotBeforeBus
  <2> QED
    BY <2>1, <2>2, <2>3, <2>4, <2>5, <2>6 DEF InOrder
<1>8. RoutesNotOvertaken'
  <2> SUFFICES ASSUME NEW u \in Servers, NEW i \in Nat, NEW n, IsRoute(u, i, n)'
               PROVE  Before(u, n)'
    BY DEF RoutesNotOvertaken
  <2>1. CASE IsRoute(u, i, n)
    <3>1. Before(u, n) /\ n \in 1..Len(msgs)
      BY <1>4, <2>1 DEF Order, RoutesNotOvertaken
    <3> QED
      BY <3>1, BeforeLasts DEF WaitsForRoute
  <2>2. CASE u = s /\ n = m
    BY <1>1, <2>2 DEF Before
  <2> QED
    BY <1>2, <2>1, <2>2
<1>9. BusNotOvertaken'
  <2> SUFFICES ASSUME NEW u \in Servers, NEW i \in Nat, NEW n, OnBus(u, i, n)', msgs'[n].via = u
               PROVE  Before(u, n)'
    BY DEF BusNotOvertaken
  <2>1. OnBus(u, i, n) /\ n \in 1..Len(msgs) /\ msgs'[n] = msgs[n]
    BY <1>2, <1>4
  <2>2. Before(u, n)
    BY <2>1 DEF Order, BusNotOvertaken
  <2> QED
    BY <2>1, <2>2, BeforeLasts DEF WaitsForRoute
<1>10. SocketsInOrder'
  <2>1. \A k, i \in Nat : \A n : Got(k, i, n) => msgs'[n].via = msgs[n].via /\ conns'[k].born = conns[k].born
    BY <1>4
  <2>2. \A k, i \in Nat : \A n : Got(k, i, n)' => Got(k, i, n)
    BY <1>2
  <2>3. \A k, i \in Nat : \A n : Got(k, i, n)' =>
          Got(k, i, n) /\ msgs'[n].via = msgs[n].via /\ conns'[k].born = conns[k].born
    BY <2>1, <2>2
  <2> QED
    BY <2>3 DEF Order, SocketsInOrder
<1> QED
  BY <1>5, <1>7, <1>8, <1>9, <1>10 DEF Order

\* The places stay, or those of one server move up by one.
Stay == [u \in Servers |-> [i \in Nat |-> i]]
Up(s) == [u \in Servers |-> [i \in Nat |-> IF u = s THEN i + 1 ELSE i]]

LEMMA Moves ==
  ASSUME NEW s \in Servers
  PROVE  /\ MovesUp(Stay) /\ MovesUp(Up(s))
         /\ \A u \in Servers, i \in Nat : Stay[u][i] = i /\ Up(s)[u][i] = IF u = s THEN i + 1 ELSE i
  BY DEF Stay, Up, MovesUp

LEMMA UpMoves ==
  ASSUME NEW s \in Servers
  PROVE  \E f : /\ MovesUp(f)
                /\ \A i \in Nat : f[s][i] = i + 1
                /\ \A u \in Servers \ {s}, i \in Nat : f[u][i] = i
  BY Moves

LEMMA SocketsLast ==
  ASSUME Types, SameSockets, \A n \in 1..Len(msgs) : msgs'[n] = msgs[n]
  PROVE  Lasting
  BY DEF SameSockets, Lasting, Sockets

\* Steps that leave queues and channels alone, or do one command of s that publishes nothing, or
\* drop all there is at s.
Quiet ==
  /\ GotKept /\ Lasting /\ MapsLast
  /\ \A u \in Servers, i \in Nat : \A m : (IsRoute(u, i, m)' => IsRoute(u, i, m)) /\ (OnBus(u, i, m)' => OnBus(u, i, m))

LEMMA OrderWhenQuiet ==
  ASSUME Types, Bounds, Order, Quiet
  PROVE  Order'
<1>0. MovesUp(Stay) /\ \A u \in Servers, i \in Nat : Stay[u][i] = i
  BY DEF MovesUp, Stay
<1>1. Thinned(Stay, Stay)
  BY <1>0 DEF Quiet, GotKept, Thinned
<1> QED
  BY <1>1, OrderWhenThinned

LEMMA OrderWhenDone ==
  ASSUME Types, Bounds, Order, NEW s \in Servers, FirstDone(s), GotKept, BusKept, UNCHANGED <<conns, localMap, msgs>>
  PROVE  Order'
<1>1. Lasting /\ MapsLast
  BY DEF Lasting, MapsLast, Sockets
<1>2. Thinned(Up(s), Stay)
  <2>1. /\ MovesUp(Stay) /\ MovesUp(Up(s))
        /\ \A u \in Servers, i \in Nat : Stay[u][i] = i /\ Up(s)[u][i] = IF u = s THEN i + 1 ELSE i
    BY Moves
  <2>2. \A u \in Servers, i \in Nat : \A m : IsRoute(u, i, m)' => IsRoute(u, Up(s)[u][i], m)
    BY <2>1 DEF FirstDone
  <2> QED
    BY <1>1, <2>1, <2>2 DEF GotKept, BusKept, Thinned
<1> QED
  BY <1>2, OrderWhenThinned

LEMMA OrderWhenExecuted ==
  ASSUME Types, Bounds, Order, NEW s \in Servers, Execute(s)
  PROVE  Order'
<1>1. GotKept /\ FirstDone(s) /\ UNCHANGED <<conns, localMap, msgs>>
  BY ExecuteViews
<1>2. BusKept \/ \E m \in 1..Len(msgs), t \in Servers : Publishes(s, m, t)
  BY ExecuteViews DEF Sets, Deletes, FindsNone, Decides
<1>3. CASE BusKept
  BY <1>1, <1>3, OrderWhenDone
<1>4. ASSUME NEW m \in 1..Len(msgs), NEW t \in Servers, Publishes(s, m, t)
      PROVE  Order'
  <2>1. Lasting /\ MapsLast
    BY <1>1 DEF Lasting, MapsLast, Sockets
  <2>2. PICK f : /\ MovesUp(f)
                 /\ \A i \in Nat : f[s][i] = i + 1
                 /\ \A u \in Servers \ {s}, i \in Nat : f[u][i] = i
    BY UpMoves
  <2>3. ASSUME NEW u \in Servers, NEW i \in Nat, NEW n, IsRoute(u, i, n)'
        PROVE  IsRoute(u, f[u][i], n) /\ (u = s => f[u][i] > 1)
    <3>1. CASE u = s
      <4>1. i # 0 /\ IsRoute(s, i + 1, n)
        BY <1>1, <2>3, <3>1 DEF FirstDone
      <4>2. f[u][i] = i + 1
        BY <2>2, <3>1
      <4>3. i + 1 > 1
        BY <4>1
      <4> QED
        BY <3>1, <4>1, <4>2, <4>3
    <3>2. CASE u # s
      <4>1. IsRoute(u, i, n)
        BY <1>1, <2>3, <3>2 DEF FirstDone
      <4>2. f[u][i] = i
        BY <2>2, <3>2
      <4> QED
        BY <3>2, <4>1, <4>2
    <3> QED
      BY <3>1, <3>2
  <2>4. /\ s \in Servers /\ t \in Servers /\ IsRoute(s, 1, m)
        /\ \A u \in Servers, i \in Nat : \A n :
             OnBus(u, i, n)' => OnBus(u, i, n) \/ (u = t /\ i = Len(bus[t]) + 1 /\ n = m)
        /\ \A k \in Nat, i \in Nat : \A n : Got(k, i, n)' => Got(k, i, n)
    BY <1>1, <1>4 DEF Publishes, GotKept
  <2>5. Published(f, s, m, t)
    BY <2>1, <2>2, <2>3, <2>4 DEF Published
  <2> QED
    BY <2>5, OrderWhenPublished
<1> QED
  BY <1>2, <1>3, <1>4

LEMMA OrderWhenReceived ==
  ASSUME Types, Bounds, Order, NEW s \in Servers, Receive(s)
  PROVE  Order'
<1>1. /\ SameSockets /\ UNCHANGED <<localMap, issued, msgs>>
      /\ \A t \in Servers, i \in Nat : \A n :
           OnBus(t, i, n)' <=> IF t = s THEN i # 0 /\ OnBus(t, i + 1, n) ELSE OnBus(t, i, n)
  BY ReceiveViews
<1>2. PICK m \in 1..Len(msgs) :
        /\ OnBus(s, 1, m) /\ msgs[m].to \in Clients
        /\ LET k == localMap[s][msgs[m].to]
           IN  IF k # 0 /\ conns[k].st = "open" THEN Reaches(k, m) ELSE UNCHANGED conns
  BY ReceiveViews
<1>3. Lasting /\ MapsLast
  BY <1>1, SocketsLast DEF MapsLast
<1>4. PICK g : /\ MovesUp(g)
               /\ \A i \in Nat : g[s][i] = i + 1
               /\ \A u \in Servers \ {s}, i \in Nat : g[u][i] = i
  BY UpMoves
<1>5. ASSUME NEW u \in Servers, NEW i \in Nat, NEW n
      PROVE  /\ OnBus(u, i, n)' => OnBus(u, g[u][i], n) /\ (u = s => g[u][i] > 1)
             /\ IsRoute(u, i, n)' => IsRoute(u, i, n)
  <2>1. CASE u = s
    <3>1. OnBus(u, i, n)' => i # 0 /\ OnBus(s, i + 1, n)
      BY <1>1, <2>1
    <3>2. g[u][i] = i + 1
      BY <1>4, <2>1
    <3>3. i # 0 => i + 1 > 1
      OBVIOUS
    <3> QED
      BY <1>1, <2>1, <3>1, <3>2, <3>3, IssuedUnchanged DEF RoutesKept
  <2>2. CASE u # s
    BY <1>1, <1>4, <2>2, IssuedUnchanged DEF RoutesKept
  <2> QED
    BY <2>1, <2>2
<1>6. PICK k : k = localMap[s][msgs[m].to]
  OBVIOUS
<1>7. CASE k # 0 /\ conns[k].st = "open"
  <2>1. Reaches(k, m)
    BY <1>2, <1>6, <1>7
  <2>2. conns[k].server = s
    BY <1>2, <1>6, <1>7 DEF Types, MapTyped
  <2>3. msgs[m].via = s => m <= conns[k].born
    <3>1. 1 \in Nat /\ BusNotOvertaken
      BY DEF Order
    <3>2. msgs[m].via = s => Before(s, m)
      BY <1>2, <3>1 DEF BusNotOvertaken
    <3> QED
      BY <1>6, <1>7, <3>2 DEF Before
  <2>4. Arrives(g, s, m, k)
    BY <1>2, <1>3, <1>4, <1>5, <2>1, <2>2, <2>3 DEF Arrives, Reaches
  <2> QED
    BY <2>4, OrderWhenArrives
<1>8. CASE ~(k # 0 /\ conns[k].st = "open")
  <2>1. UNCHANGED conns
    BY <1>2, <1>6, <1>8
  <2>2. \A j \in Nat, i \in Nat : \A n : Got(j, i, n)' => Got(j, i, n)
    BY <2>1 DEF Got, Sockets
  <2>3. MovesUp(Stay) /\ \A u \in Servers, i \in Nat : Stay[u][i] = i
    BY DEF MovesUp, Stay
  <2>4. Thinned(Stay, g)
    BY <1>3, <1>4, <1>5, <2>2, <2>3 DEF Thinned
  <2> QED
    BY <2>4, OrderWhenThinned
<1> QED
  BY <1>7, <1>8

LEMMA OrderWhenSent ==
  ASSUME Types, Bounds, Order, NEW s \in Servers, NEW c \in Clients, SendFrame(s, c)
  PROVE  Order'
<1>1. PICK m, k : m = Len(msgs) + 1 /\ k = localMap[s][c]
  OBVIOUS
<1>2. /\ SameSockets /\ (\A n \in 1..Len(msgs) : msgs'[n] = msgs[n]) /\ msgs'[m].via = s /\ msgs'[m].to = c
      /\ UNCHANGED <<localMap, bus>>
      /\ IF k = 0
           THEN UNCHANGED conns /\ BothQueued(s, m)
           ELSE RoutesKept /\ IF conns[k].st = "open" THEN Reaches(k, m) ELSE UNCHANGED conns
  BY <1>1, SendViews
<1>3. Lasting /\ MapsLast /\ BusKept
  BY <1>2, SocketsLast, BusUnchanged DEF MapsLast
<1>4. CASE k = 0
  <2>1. \A j \in Nat, i \in Nat : \A n : Got(j, i, n)' => Got(j, i, n)
    BY <1>2, <1>4 DEF Got, Sockets
  <2>2. localMap'[s][msgs'[m].to] = 0
    BY <1>1, <1>2, <1>4
  <2>3. WaitsForRoute(s, m)
    BY <1>1, <1>2, <1>3, <1>4, <2>1, <2>2 DEF WaitsForRoute, BothQueued, BusKept
  <2> QED
    BY <2>3, OrderWhenWaits
<1>5. CASE k # 0 /\ conns[k].st = "open"
  <2>1. Reaches(k, m) /\ RoutesKept /\ conns[k].server = s
    BY <1>1, <1>2, <1>5 DEF Types, MapTyped
  <2>2. GoesOut(s, m, k)
    BY <1>1, <1>2, <1>3, <2>1 DEF GoesOut, Reaches, BusKept, RoutesKept
  <2> QED
    BY <2>2, OrderWhenGoesOut
<1>6. CASE k # 0 /\ conns[k].st # "open"
  <2>1. UNCHANGED conns /\ RoutesKept
    BY <1>2, <1>6
  <2>2. GotKept
    BY <2>1 DEF GotKept, Got, Sockets
  <2> QED
    BY <1>3, <2>1, <2>2, OrderWhenQuiet DEF Quiet, RoutesKept, BusKept
<1> QED
  BY <1>4, <1>5, <1>6

LEMMA OrderStep ==
  ASSUME Types, Bounds, Order, [Next]_vars
  PROVE  Order'
<1>0. Sockets = 1..Len(conns) /\ Len(conns) \in Nat
  BY ConnFields
<1>1. ASSUME NEW s \in Servers, NEW c \in Clients, Connect(s, c)
      PROVE  Order'
  <2>1. /\ Opened(s, c) /\ GotKept /\ RoutesKept /\ UNCHANGED <<bus, msgs>>
        /\ localMap'[s][c] = Len(conns) + 1
        /\ \A t \in Servers, d \in Clients : <<t, d>> # <<s, c>> => localMap'[t][d] = localMap[t][d]
    BY <1>1, ConnectOpens
  <2>2. Lasting
    BY <1>0, <2>1 DEF Lasting, Opened, Sockets
  <2>3. MapsLast
    BY <2>1 DEF MapsLast, Opened
  <2>4. BusKept
    BY <2>1, BusUnchanged
  <2> QED
    BY <2>1, <2>2, <2>3, <2>4, OrderWhenQuiet DEF Quiet, RoutesKept, BusKept
<1>2. ASSUME Faded
      PROVE  Order'
  <2>1. UNCHANGED <<localMap, issued, bus, msgs>> /\ SameSockets /\ GotKept
    BY <1>2, GotWhenRestated DEF Faded, Restated, Types
  <2>2. Lasting /\ MapsLast
    BY <2>1, SocketsLast DEF MapsLast
  <2>3. BusKept /\ RoutesKept
    BY <2>1, BusUnchanged, IssuedUnchanged
  <2> QED
    BY <2>1, <2>2, <2>3, OrderWhenQuiet DEF Quiet, RoutesKept, BusKept
<1>3. ASSUME NEW k \in Sockets, Close(k)
      PROVE  Order'
  <2>1. /\ Types' /\ Restated /\ RoutesKept /\ UNCHANGED <<bus, msgs>>
        /\ conns[k].server \in Servers /\ conns[k].client \in Clients
    BY <1>3, CloseCloses, ConnFields
  <2>2. \A t \in Servers, d \in Clients : localMap'[t][d] \in {0, localMap[t][d]}
    <3>1. PICK s, c : s = conns[k].server /\ c = conns[k].client
      OBVIOUS
    <3>2. /\ \A t \in Servers, d \in Clients : <<t, d>> # <<s, c>> => localMap'[t][d] = localMap[t][d]
          /\ localMap'[s][c] = IF localMap[s][c] = k THEN 0 ELSE localMap[s][c]
      BY <1>3, <3>1, CloseCloses
    <3> QED
      BY <3>2
  <2>3. SameSockets /\ GotKept /\ BusKept
    BY <2>1, GotWhenRestated, BusUnchanged DEF Restated, Types
  <2>4. Lasting /\ MapsLast
    BY <2>1, <2>2, <2>3, SocketsLast DEF MapsLast
  <2> QED
    BY <2>1, <2>3, <2>4, OrderWhenQuiet DEF Quiet, RoutesKept, BusKept
<1>4. ASSUME NEW s \in Servers, Crash(s)
      PROVE  Order'
  <2>1. /\ Types' /\ Restated /\ AllGone(s) /\ UNCHANGED msgs
        /\ \A c \in Clients : localMap'[s][c] = 0
        /\ \A t \in Servers \ {s} : localMap'[t] = localMap[t]
        /\ \A t \in Servers, i \in Nat : \A m : OnBus(t, i, m)' <=> t # s /\ OnBus(t, i, m)
    BY <1>4, CrashCloses
  <2>2. SameSockets /\ GotKept
    BY <2>1, GotWhenRestated DEF Restated, Types
  <2>3. Lasting /\ MapsLast
    BY <2>1, <2>2, SocketsLast DEF MapsLast
  <2> QED
    BY <2>1, <2>2, <2>3, OrderWhenQuiet DEF Quiet, AllGone
<1>5. ASSUME NEW c, Idle(c)
      PROVE  Order'
  <2>1. GotKept /\ BusKept /\ RoutesKept /\ UNCHANGED <<conns, localMap, msgs>>
    BY <1>5 DEF Idle
  <2>2. Lasting /\ MapsLast
    BY <2>1 DEF Lasting, MapsLast, Sockets
  <2> QED
    BY <2>1, <2>2, OrderWhenQuiet DEF Quiet, RoutesKept, BusKept
<1>6. ASSUME NEW s \in Servers, ExecuteFails(s)
      PROVE  Order'
  <2>1. GotKept /\ FirstDone(s) /\ BusKept /\ UNCHANGED <<conns, localMap, msgs>>
    BY <1>6, FailViews, BusUnchanged
  <2> QED
    BY <2>1, OrderWhenDone
<1> QED
  BY <1>1, <1>2, <1>3, <1>4, <1>5, <1>6, OrderWhenSent, OrderWhenExecuted, OrderWhenReceived, StepKinds

-----------------------------------------------------------------------------
\* Order leaves nothing to arrive twice, or out of turn.
LEMMA OrderImplied ==
  ASSUME Types, Order
  PROVE  ArrivesOnceInOrder
<1>1. Sockets \subseteq Nat /\ \A k \in Sockets : DOMAIN conns[k].got \subseteq Nat
  BY ConnFields
<1>2. AtMostOnce
  BY <1>1 DEF AtMostOnce, Order, OnePlace, GotOnce, Got
<1>3. ArrivesInOrder
  BY <1>1 DEF ArrivesInOrder, Order, SocketsInOrder, Got
<1> QED
  BY <1>2, <1>3 DEF ArrivesOnceInOrder

LEMMA InitOrder ==
  ASSUME Init
  PROVE  Order
<1>1. /\ \A s \in Servers : \A i, m : ~IsRoute(s, i, m) /\ ~OnBus(s, i, m)
      /\ \A k, i, m : ~Got(k, i, m)
  BY InitEmpty DEF IsRoute
<1> QED
  BY <1>1 DEF Order, OnePlace, RouteOnce, BusOnce, GotOnce, RouteNotBus, RouteNotGot, BusNotGot, InOrder,
     RouteHome, RoutesInOrder, BusInOrder, BusBeforeRoutes, GotBeforeRoutes, GotBeforeBus, RoutesNotOvertaken,
     BusNotOvertaken, SocketsInOrder

\* Whatever way a frame goes, and although the way for one recipient changes as it comes and
\* goes, it comes at most once, and on a socket after those that were sent to it before.
THEOREM FramesOnceInOrder == Spec => []ArrivesOnceInOrder
<1> DEFINE Inv == Types /\ Bounds /\ Order
<1>1. Init => Inv
  BY InitEmpty, InitOrder
<1>2. Inv /\ [Next]_vars => Inv'
  BY TypesStep, BoundsStep, OrderStep
<1>3. Inv => ArrivesOnceInOrder
  BY OrderImplied
<1> QED
  BY <1>1, <1>2, <1>3, PTL DEF Spec

-----------------------------------------------------------------------------
(* The outcome of a frame. *)

\* Where a frame is: its look-ups are to come, it is on a channel, or it has reached its recipient.
Waits(m) == \E s \in Servers, i \in Nat : IsRoute(s, i, m)
Asks(m) == \E s \in Servers, i \in Nat : IsHook(s, i, m)
OnWay(t, m) == \E i \in Nat : OnBus(t, i, m)
Reached(m) == \E k, i \in Nat : Got(k, i, m)
Unsettled(m) == Waits(m) \/ Asks(m) \/ \E t \in Servers : OnWay(t, m)

LEMMA PendingIs == Types => \A m : (Pending(m) <=> Unsettled(m)) /\ (Received(m) <=> Reached(m))
<1> SUFFICES ASSUME Types, NEW m
             PROVE  (Pending(m) <=> Unsettled(m)) /\ (Received(m) <=> Reached(m))
  OBVIOUS
<1>1. \A s \in Servers : DOMAIN issued[s] \subseteq Nat /\ DOMAIN bus[s] \subseteq Nat
  BY Lengths
<1>2. Sockets \subseteq Nat /\ \A k \in Sockets : DOMAIN conns[k].got \subseteq Nat
  BY ConnFields
<1>3. Received(m) <=> Reached(m)
  BY <1>2 DEF Received, Reached, Got
<1>4. Waits(m) \/ Asks(m) <=> \E s \in Servers : \E i \in DOMAIN issued[s] : issued[s][i] \in {RouteGet(m), HookGet(m)}
  BY <1>1 DEF Waits, Asks, IsRoute, IsHook, At
<1>5. (\E t \in Servers : OnWay(t, m)) <=> \E s \in Servers : \E i \in DOMAIN bus[s] : bus[s][i] = m
  BY <1>1 DEF OnWay, OnBus
<1> QED
  BY <1>3, <1>4, <1>5 DEF Pending, Unsettled

\* The two look-ups of a frame stand behind each other, the hook's last.
HookOnce ==
  \A s, t \in Servers, i, j \in Nat : \A m : IsHook(s, i, m) /\ IsHook(t, j, m) => s = t /\ i = j
HookLast ==
  \A s \in Servers, i \in Nat : \A m : IsRoute(s, i, m) => \E j \in Nat : j > i /\ IsHook(s, j, m)
Hooks == HookOnce /\ HookLast

LEMMA HooksStep ==
  ASSUME Types, Bounds, Hooks, [Next]_vars
  PROVE  Hooks'
<1>1. CASE RoutesKept
  BY <1>1 DEF Hooks, HookOnce, HookLast, RoutesKept
<1>2. ASSUME NEW s \in Servers, FirstDone(s)
      PROVE  Hooks'
  <2>1. /\ \A i \in Nat : \A m : (IsRoute(s, i, m)' => i # 0 /\ IsRoute(s, i + 1, m))
        /\ \A i \in Nat : \A m : (IsHook(s, i, m)' <=> i # 0 /\ IsHook(s, i + 1, m))
        /\ \A t \in Servers \ {s}, i \in Nat : \A m : (IsRoute(t, i, m)' => IsRoute(t, i, m))
        /\ \A t \in Servers \ {s}, i \in Nat : \A m : (IsHook(t, i, m)' <=> IsHook(t, i, m))
    BY <1>2 DEF FirstDone
  <2>2. HookOnce'
    <3> SUFFICES ASSUME NEW t \in Servers, NEW u \in Servers, NEW i \in Nat, NEW j \in Nat, NEW m,
                        IsHook(t, i, m)', IsHook(u, j, m)'
                 PROVE  t = u /\ i = j
      BY DEF HookOnce
    <3>1. PICK f \in Nat : IsHook(t, f, m) /\ f = IF t = s THEN i + 1 ELSE i
      BY <2>1
    <3>2. PICK g \in Nat : IsHook(u, g, m) /\ g = IF u = s THEN j + 1 ELSE j
      BY <2>1
    <3>3. t = u /\ f = g
      BY <3>1, <3>2 DEF Hooks, HookOnce
    <3> QED
      BY <3>1, <3>2, <3>3
  <2>3. HookLast'
    <3> SUFFICES ASSUME NEW t \in Servers, NEW i \in Nat, NEW m, IsRoute(t, i, m)'
                 PROVE  \E j \in Nat : j > i /\ IsHook(t, j, m)'
      BY DEF HookLast
    <3>1. CASE t = s
      <4>1. i # 0 /\ i + 1 \in Nat /\ IsRoute(s, i + 1, m)
        BY <2>1, <3>1
      <4>2. PICK j \in Nat : j > i + 1 /\ IsHook(s, j, m)
        BY <4>1 DEF Hooks, HookLast
      <4>3. j - 1 \in Nat /\ j - 1 > i /\ j - 1 # 0 /\ (j - 1) + 1 = j
        BY <4>2
      <4>4. IsHook(s, j - 1, m)'
        BY <2>1, <4>2, <4>3
      <4> QED
        BY <3>1, <4>3, <4>4
    <3>2. CASE t # s
      <4>1. PICK j \in Nat : j > i /\ IsHook(t, j, m)
        BY <2>1, <3>2 DEF Hooks, HookLast
      <4> QED
        BY <2>1, <3>2, <4>1
    <3> QED
      BY <3>1, <3>2
  <2> QED
    BY <2>2, <2>3 DEF Hooks
<1>3. ASSUME NEW s \in Servers, AllGone(s)
      PROVE  Hooks'
  BY <1>3 DEF Hooks, HookOnce, HookLast, AllGone
<1>4. ASSUME NEW s \in Servers, NEW m, m = Len(msgs) + 1, BothQueued(s, m)
      PROVE  Hooks'
  <2>1. PICK n \in Nat : n = Len(issued[s])
    BY Lengths
  <2>2. \A t \in Servers, i \in Nat : ~IsHook(t, i, m)
    BY <1>4, Lengths DEF Bounds, Sent
  <2>3. \A t \in Servers, i \in Nat : \A o :
          /\ IsRoute(t, i, o)' <=> IsRoute(t, i, o) \/ (t = s /\ i = n + 1 /\ o = m)
          /\ IsHook(t, i, o)' <=> IsHook(t, i, o) \/ (t = s /\ i = n + 2 /\ o = m)
    BY <1>4, <2>1 DEF BothQueued
  <2>4. HookOnce'
    BY <2>2, <2>3 DEF Hooks, HookOnce
  <2>5. HookLast'
    <3> SUFFICES ASSUME NEW t \in Servers, NEW i \in Nat, NEW o, IsRoute(t, i, o)'
                 PROVE  \E j \in Nat : j > i /\ IsHook(t, j, o)'
      BY DEF HookLast
    <3>1. CASE IsRoute(t, i, o)
      <4>1. PICK j \in Nat : j > i /\ IsHook(t, j, o)
        BY <3>1 DEF Hooks, HookLast
      <4> QED
        BY <2>3, <4>1
    <3>2. CASE t = s /\ i = n + 1 /\ o = m
      <4>1. n + 2 \in Nat /\ n + 2 > i
        BY <3>2
      <4>2. IsHook(s, n + 2, m)'
        BY <2>3, <4>1
      <4> QED
        BY <3>2, <4>1, <4>2
    <3> QED
      BY <2>3, <3>1, <3>2
  <2> QED
    BY <2>4, <2>5 DEF Hooks
<1>5. ASSUME NEW s \in Servers, NEW c \in Clients, SendFrame(s, c)
      PROVE  Hooks'
  <2>1. RoutesKept \/ BothQueued(s, Len(msgs) + 1)
    BY <1>5, SendViews
  <2> QED
    BY <1>1, <1>4, <2>1
<1>6. ASSUME Faded
      PROVE  Hooks'
  BY <1>1, <1>6, IssuedUnchanged DEF Faded
<1>7. ASSUME NEW c, Idle(c)
      PROVE  Hooks'
  BY <1>1, <1>7 DEF Idle
<1>8. ASSUME NEW s \in Servers, Receive(s)
      PROVE  Hooks'
  BY <1>1, <1>8, ReceiveViews, IssuedUnchanged
<1>9. ASSUME NEW s \in Servers, NEW c \in Clients, Connect(s, c)
      PROVE  Hooks'
  BY <1>1, <1>9, ConnectOpens
<1>10. ASSUME NEW k \in Sockets, Close(k)
       PROVE  Hooks'
  BY <1>1, <1>10, CloseCloses
<1>11. ASSUME NEW s \in Servers, Execute(s) \/ ExecuteFails(s)
       PROVE  Hooks'
  BY <1>2, <1>11, ExecuteViews, FailViews
<1>12. ASSUME NEW s \in Servers, Crash(s)
       PROVE  Hooks'
  BY <1>3, <1>12, CrashCloses
<1> QED
  BY <1>5, <1>6, <1>7, <1>8, <1>9, <1>10, <1>11, <1>12, StepKinds

\* While the frame is under way nothing changes for its recipient c, the router's answer stands
\* when the hook asks, and what the hook stores is what the router did not deliver.
Tracked(m, c) ==
  /\ Unsettled(m) => Steady(c) /\ m \notin notified
  /\ ~Waits(m) /\ Asks(m) => (presence[c] # None <=> Reached(m) \/ \E t \in Servers : OnWay(t, m))
  /\ \A t \in Servers : OnWay(t, m) => presence[c] = t
  /\ ~Unsettled(m) => (Reached(m) <=> m \notin notified)

Clean == \A m \in clean : \A c \in Clients : msgs[m].to = c => Tracked(m, c)

\* Nothing changes for c.
SteadyFor(c) ==
  /\ SocketsOf(c)' = SocketsOf(c) /\ presence'[c] = presence[c]
  /\ \A k \in SocketsOf(c) : conns'[k].st = conns[k].st /\ conns'[k].server = conns[k].server
  /\ \A s \in Servers : localMap'[s][c] = localMap[s][c]
  /\ \A s \in Servers : NoChange(s, c) => NoChange(s, c)'

\* k is the one socket of c, and everybody knows it.
LiveAt(k, c) ==
  /\ k \in SocketsOf(c) /\ Alive(k) /\ \A j \in SocketsOf(c) : Alive(j) => j = k
  /\ conns[k].st = "open" /\ localMap[conns[k].server][c] = k /\ presence[c] = conns[k].server
Stands(c) ==
  /\ \A s \in Servers : NoChange(s, c)
  /\ \/ (\A k \in SocketsOf(c) : ~Alive(k)) /\ presence[c] = None
     \/ \E k \in Nat : LiveAt(k, c)
SteadyMeans == \A c \in Clients : Steady(c) <=> Stands(c)

LEMMA SteadyIs == Types => SteadyMeans
<1> SUFFICES ASSUME Types, NEW c \in Clients
             PROVE  Steady(c) <=> Stands(c)
  BY DEF SteadyMeans
<1>1. Settled(c) <=> \A s \in Servers : NoChange(s, c)
  BY ChangesIs DEF Settled
<1>2. PICK live : live = {k \in SocketsOf(c) : Alive(k)}
  OBVIOUS
<1>3. Steady(c) <=> /\ Settled(c)
                    /\ \/ live = {} /\ presence[c] = None
                       \/ \E k \in live : live = {k} /\ conns[k].st = "open"
                                            /\ localMap[conns[k].server][c] = k /\ presence[c] = conns[k].server
  BY <1>2 DEF Steady
<1>4. live = {} <=> \A k \in SocketsOf(c) : ~Alive(k)
  BY <1>2
<1>5. \A k : k \in live /\ live = {k} <=> k \in SocketsOf(c) /\ Alive(k) /\ \A j \in SocketsOf(c) : Alive(j) => j = k
  BY <1>2
<1>6. (\E k \in live : live = {k} /\ conns[k].st = "open"
                         /\ localMap[conns[k].server][c] = k /\ presence[c] = conns[k].server)
        <=> \E k \in Nat : LiveAt(k, c)
  <2>1. SocketsOf(c) \subseteq Nat
    BY ConnFields DEF SocketsOf
  <2> QED
    BY <1>5, <2>1 DEF LiveAt
<1> QED
  BY <1>1, <1>3, <1>4, <1>6 DEF Stands

LEMMA SteadyKept ==
  ASSUME Types, Types', NEW c \in Clients, Steady(c), SteadyFor(c)
  PROVE  Steady(c)'
<1>1. \A k \in SocketsOf(c) : Alive(k)' <=> Alive(k)
  BY DEF SteadyFor, Alive
<1>2. Stands(c)
  BY SteadyIs DEF SteadyMeans
<1>3. \A s \in Servers : NoChange(s, c)'
  BY <1>2 DEF SteadyFor, Stands
<1>4. (Types => SteadyMeans)'
  BY SteadyIs, PTL
<1>5. CASE (\A k \in SocketsOf(c) : ~Alive(k)) /\ presence[c] = None
  <2>1. (\A k \in SocketsOf(c)' : ~Alive(k)') /\ presence'[c] = None
    BY <1>1, <1>5 DEF SteadyFor
  <2> QED
    BY <1>3, <1>4, <2>1 DEF SteadyMeans, Stands
<1>6. ASSUME NEW k \in Nat, LiveAt(k, c)
      PROVE  Steady(c)'
  <2>1. conns[k].server \in Servers
    BY <1>6, ConnFields DEF SocketsOf, LiveAt
  <2>2. LiveAt(k, c)'
    BY <1>1, <1>6, <2>1 DEF SteadyFor, LiveAt
  <2> QED
    BY <1>3, <1>4, <2>2 DEF SteadyMeans, Stands
<1> QED
  BY <1>2, <1>5, <1>6 DEF Stands

\* What a step leaves as it was for a frame.
Untouched(m, c) ==
  /\ (Waits(m)' <=> Waits(m)) /\ (Asks(m)' <=> Asks(m)) /\ (Reached(m)' <=> Reached(m))
  /\ \A t \in Servers : OnWay(t, m)' <=> OnWay(t, m)
  /\ m \in notified' <=> m \in notified
  /\ Unsettled(m) => SteadyFor(c)

LEMMA TrackedKept ==
  ASSUME Types, Types', NEW m, NEW c \in Clients, Tracked(m, c), Untouched(m, c)
  PROVE  Tracked(m, c)'
<1>1. Unsettled(m)' <=> Unsettled(m)
  BY DEF Untouched, Unsettled
<1>2. Unsettled(m) => Steady(c)' /\ presence'[c] = presence[c]
  BY SteadyKept DEF Untouched, Tracked, SteadyFor
<1>3. Unsettled(m)' => Steady(c)' /\ m \notin notified'
  BY <1>1, <1>2 DEF Untouched, Tracked
<1>4. ~Waits(m)' /\ Asks(m)' => (presence'[c] # None <=> Reached(m)' \/ \E t \in Servers : OnWay(t, m)')
  BY <1>2 DEF Untouched, Tracked, Unsettled
<1>5. ASSUME NEW t \in Servers, OnWay(t, m)'
      PROVE  presence'[c] = t
  BY <1>2, <1>5 DEF Untouched, Tracked, Unsettled
<1>6. ~Unsettled(m)' => (Reached(m)' <=> m \notin notified')
  BY <1>1 DEF Untouched, Tracked
<1> QED
  BY <1>3, <1>4, <1>5, <1>6 DEF Tracked

\* Where the frames are when nothing is sent on, and when a command is done.
LEMMA PlacesKept ==
  ASSUME RoutesKept \/ UNCHANGED issued, BusKept \/ UNCHANGED bus, GotKept, NEW m
  PROVE  /\ (Waits(m)' <=> Waits(m)) /\ (Asks(m)' <=> Asks(m)) /\ (Reached(m)' <=> Reached(m))
         /\ \A t \in Servers : OnWay(t, m)' <=> OnWay(t, m)
<1>1. RoutesKept
  BY IssuedUnchanged
<1>2. BusKept
  BY DEF BusKept, OnBus
<1>3. (Waits(m)' <=> Waits(m)) /\ (Asks(m)' <=> Asks(m))
  BY <1>1 DEF RoutesKept, Waits, Asks
<1>4. Reached(m)' <=> Reached(m)
  BY DEF GotKept, Reached
<1>5. \A t \in Servers : OnWay(t, m)' <=> OnWay(t, m)
  BY <1>2 DEF BusKept, OnWay
<1> QED
  BY <1>3, <1>4, <1>5

LEMMA PlacesShift ==
  ASSUME Types, NEW s \in Servers, FirstDone(s), NEW m
  PROVE  /\ Waits(m)' => Waits(m)
         /\ Asks(m)' => Asks(m)
         /\ ~IsRoute(s, 1, m) => (Waits(m) => Waits(m)')
         /\ ~IsHook(s, 1, m) => (Asks(m) => Asks(m)')
<1>1. Waits(m)' => Waits(m)
  BY DEF FirstDone, Waits
<1>2. Asks(m)' => Asks(m)
  BY DEF FirstDone, Asks
<1>3. ASSUME ~IsRoute(s, 1, m), Waits(m)
      PROVE  Waits(m)'
  <2>1. PICK t \in Servers, i \in Nat : IsRoute(t, i, m)
    BY <1>3 DEF Waits
  <2>2. CASE t # s
    BY <2>1, <2>2 DEF FirstDone, Waits
  <2>3. CASE t = s
    <3>1. i # 0 /\ i # 1
      BY <1>3, <2>1, <2>3, OneAtATime
    <3>2. i - 1 \in Nat /\ i - 1 # 0 /\ (i - 1) + 1 = i
      BY <3>1
    <3>3. IsRoute(s, i - 1, m)'
      BY <2>1, <2>3, <3>2 DEF FirstDone
    <3> QED
      BY <3>2, <3>3 DEF Waits
  <2> QED
    BY <2>2, <2>3
<1>4. ASSUME ~IsHook(s, 1, m), Asks(m)
      PROVE  Asks(m)'
  <2>1. PICK t \in Servers, i \in Nat : IsHook(t, i, m)
    BY <1>4 DEF Asks
  <2>2. CASE t # s
    BY <2>1, <2>2 DEF FirstDone, Asks
  <2>3. CASE t = s
    <3>1. i # 0 /\ i # 1
      BY <1>4, <2>1, <2>3, OneAtATime
    <3>2. i - 1 \in Nat /\ i - 1 # 0 /\ (i - 1) + 1 = i
      BY <3>1
    <3>3. IsHook(s, i - 1, m)'
      BY <2>1, <2>3, <3>2 DEF FirstDone
    <3> QED
      BY <3>2, <3>3 DEF Asks
  <2> QED
    BY <2>2, <2>3
<1> QED
  BY <1>1, <1>2, <1>3, <1>4

\* What nothing changed for c comes to: one command is done, or a frame is handed on.
LEMMA SteadyForDone ==
  ASSUME Types, NEW s \in Servers, FirstDone(s), UNCHANGED <<conns, localMap>>,
         NEW c \in Clients, presence'[c] = presence[c]
  PROVE  SteadyFor(c)
<1>1. SocketsOf(c)' = SocketsOf(c)
  BY DEF SocketsOf, Sockets
<1>2. \A t \in Servers : NoChange(t, c) => NoChange(t, c)'
  <2> SUFFICES ASSUME NEW t \in Servers, NoChange(t, c), NEW i \in Nat, ChangeAt(t, i, c)'
               PROVE  FALSE
    BY DEF NoChange
  <2>1. PICK j \in Nat : j = IF t = s THEN i + 1 ELSE i
    OBVIOUS
  <2>2. ChangeAt(t, j, c)
    BY <2>1 DEF ChangeAt, FirstDone
  <2> QED
    BY <2>2 DEF NoChange
<1> QED
  BY <1>1, <1>2 DEF SteadyFor

LEMMA SteadyForCarried ==
  ASSUME Types, SameSockets, ChangesKept, UNCHANGED localMap, \A k \in Sockets : conns'[k].st = conns[k].st,
         NEW c \in Clients, presence'[c] = presence[c]
  PROVE  SteadyFor(c)
<1>1. Sockets' = Sockets /\ SocketsOf(c)' = SocketsOf(c)
  BY DEF SocketsOf, Sockets, SameSockets
<1>2. \A t \in Servers : NoChange(t, c) => NoChange(t, c)'
  BY DEF NoChange, ChangeAt, ChangesKept
<1> QED
  BY <1>1, <1>2 DEF SteadyFor, SameSockets, SocketsOf

\* A step that leaves alone every frame that stays clean.
LeftAlone ==
  /\ UNCHANGED msgs
  /\ \A m \in clean' : \A c \in Clients : msgs[m].to = c => m \in clean /\ Untouched(m, c)

LEMMA CleanWhenLeftAlone ==
  ASSUME Types, Types', Clean, LeftAlone
  PROVE  Clean'
<1> SUFFICES ASSUME NEW m \in clean', NEW c \in Clients, msgs[m].to = c
             PROVE  Tracked(m, c)'
  BY DEF Clean, LeftAlone
<1>1. m \in clean /\ Untouched(m, c)
  BY DEF LeftAlone
<1> QED
  BY <1>1, TrackedKept DEF Clean

LEMMA CleanWhenConnect ==
  ASSUME Types, Clean, NEW s \in Servers, NEW d \in Clients, Connect(s, d)
  PROVE  Clean'
<1>1. /\ Types' /\ Opened(s, d) /\ GotKept /\ RoutesKept
      /\ \A t \in Servers, e \in Clients : <<t, e>> # <<s, d>> => localMap'[t][e] = localMap[t][e]
      /\ \A t \in Servers, i \in Nat : \A e :
           /\ IsSet(t, i, e)' => IsSet(t, i, e) \/ e = d
           /\ IsDel(t, i, e)' => IsDel(t, i, e)
      /\ clean' = {m \in clean : ~(msgs[m].to = d /\ Pending(m))}
      /\ UNCHANGED <<presence, msgs, bus, notified>>
  BY ConnectOpens
<1>2. Sockets' = 1..(Len(conns) + 1) /\ Sockets = 1..Len(conns) /\ Len(conns) \in Nat
  BY <1>1, ConnFields DEF Sockets, Opened
<1> SUFFICES ASSUME NEW m \in clean', NEW c \in Clients, msgs[m].to = c
             PROVE  m \in clean /\ Untouched(m, c)
  BY <1>1, CleanWhenLeftAlone DEF LeftAlone
<1>3. m \in clean /\ (Unsettled(m) => c # d)
  BY <1>1, PendingIs
<1>4. ASSUME c # d
      PROVE  SteadyFor(c)
  <2>1. SocketsOf(c)' = SocketsOf(c)
    BY <1>1, <1>2, <1>4 DEF SocketsOf, Opened
  <2>2. \A t \in Servers : NoChange(t, c) => NoChange(t, c)'
    BY <1>1, <1>4 DEF NoChange, ChangeAt
  <2> QED
    BY <1>1, <1>4, <2>1, <2>2 DEF SteadyFor, Opened, SocketsOf
<1> QED
  BY <1>1, <1>3, <1>4, PlacesKept DEF Untouched

LEMMA CleanWhenClose ==
  ASSUME Types, Clean, NEW k \in Sockets, Close(k)
  PROVE  Clean'
<1>0. PICK s, d : s = conns[k].server /\ d = conns[k].client
  OBVIOUS
<1>1. /\ Types' /\ Restated /\ RoutesKept
      /\ \A j \in Sockets \ {k} : conns'[j] = conns[j]
      /\ \A t \in Servers, e \in Clients : <<t, e>> # <<s, d>> => localMap'[t][e] = localMap[t][e]
      /\ \A t \in Servers, i \in Nat : \A e :
           /\ IsSet(t, i, e)' => IsSet(t, i, e)
           /\ IsDel(t, i, e)' => IsDel(t, i, e) \/ e = d
      /\ clean' = {m \in clean : ~(msgs[m].to = d /\ Pending(m))}
      /\ UNCHANGED <<presence, msgs, bus, notified>>
  BY <1>0, CloseCloses
<1>2. GotKept /\ Sockets' = Sockets
  BY <1>1, GotWhenRestated DEF Types
<1> SUFFICES ASSUME NEW m \in clean', NEW c \in Clients, msgs[m].to = c
             PROVE  m \in clean /\ Untouched(m, c)
  BY <1>1, CleanWhenLeftAlone DEF LeftAlone
<1>3. m \in clean /\ (Unsettled(m) => c # d)
  BY <1>1, PendingIs
<1>4. ASSUME c # d
      PROVE  SteadyFor(c)
  <2>1. SocketsOf(c)' = SocketsOf(c)
    BY <1>1, <1>2 DEF SocketsOf, Restated, SameSockets
  <2>2. \A t \in Servers : NoChange(t, c) => NoChange(t, c)'
    BY <1>1, <1>4 DEF NoChange, ChangeAt
  <2>3. \A j \in SocketsOf(c) : conns'[j] = conns[j]
    BY <1>0, <1>1, <1>4 DEF SocketsOf
  <2> QED
    BY <1>1, <1>4, <2>1, <2>2, <2>3 DEF SteadyFor
<1> QED
  BY <1>1, <1>2, <1>3, <1>4, PlacesKept DEF Untouched

LEMMA CleanWhenFaded ==
  ASSUME Types, Bounds, Clean, Faded
  PROVE  Clean'
<1>1. /\ Types' /\ SameSockets /\ Restated
      /\ UNCHANGED <<localMap, presence, issued, bus, msgs, notified>>
  BY DEF Faded, Restated
<1>2. GotKept /\ Sockets' = Sockets /\ RoutesKept /\ ChangesKept
  BY <1>1, GotWhenRestated, IssuedUnchanged DEF Types
<1> SUFFICES ASSUME NEW m \in clean', NEW c \in Clients, msgs[m].to = c
             PROVE  m \in clean /\ Untouched(m, c)
  BY <1>1, CleanWhenLeftAlone DEF LeftAlone
<1>3. m \in clean /\ (Unsettled(m) => \A k \in SocketsOf(c) : conns'[k].st = conns[k].st)
  BY PendingIs DEF Faded
<1>4. ASSUME \A k \in SocketsOf(c) : conns'[k].st = conns[k].st
      PROVE  SteadyFor(c)
  <2>1. SocketsOf(c)' = SocketsOf(c)
    BY <1>1, <1>2 DEF SocketsOf, SameSockets
  <2>2. \A t \in Servers : NoChange(t, c) => NoChange(t, c)'
    BY <1>2 DEF NoChange, ChangeAt, ChangesKept
  <2> QED
    BY <1>1, <1>4, <2>1, <2>2 DEF SteadyFor, SameSockets, SocketsOf
<1> QED
  BY <1>1, <1>2, <1>3, <1>4, PlacesKept DEF Untouched

LEMMA CleanWhenCrash ==
  ASSUME Types, Clean, NEW s \in Servers, Crash(s)
  PROVE  Clean'
<1>1. /\ Types' /\ Restated /\ AllGone(s)
      /\ \A t \in Servers, i \in Nat : \A m : OnBus(t, i, m)' <=> t # s /\ OnBus(t, i, m)
      /\ clean' = {m \in clean : ~Pending(m)}
      /\ UNCHANGED <<presence, msgs, notified>>
  BY CrashCloses
<1>2. GotKept
  BY <1>1, GotWhenRestated DEF Types
<1> SUFFICES ASSUME NEW m \in clean', NEW c \in Clients, msgs[m].to = c
             PROVE  m \in clean /\ Untouched(m, c)
  BY <1>1, CleanWhenLeftAlone DEF LeftAlone
<1>3. m \in clean /\ ~Unsettled(m)
  BY <1>1, PendingIs
<1>4. /\ (Waits(m)' <=> Waits(m)) /\ (Asks(m)' <=> Asks(m))
      /\ \A t \in Servers : OnWay(t, m)' <=> OnWay(t, m)
  BY <1>1, <1>3 DEF Unsettled, Waits, Asks, OnWay, AllGone
<1>5. Reached(m)' <=> Reached(m)
  BY <1>2 DEF GotKept, Reached
<1> QED
  BY <1>1, <1>3, <1>4, <1>5 DEF Untouched

LEMMA CleanWhenIdle ==
  ASSUME Types, Clean, NEW d, Idle(d)
  PROVE  Clean'
<1>1. Types' /\ GotKept /\ BusKept /\ RoutesKept /\ ChangesKept /\ UNCHANGED <<conns, localMap, msgs, notified, clean>>
  BY DEF Idle
<1> SUFFICES ASSUME NEW m \in clean', NEW c \in Clients, msgs[m].to = c
             PROVE  m \in clean /\ Untouched(m, c)
  BY <1>1, CleanWhenLeftAlone DEF LeftAlone
<1>2. ASSUME Unsettled(m)
      PROVE  presence'[c] = presence[c]
  <2>1. Stands(c)
    BY <1>1, <1>2, SteadyIs DEF Clean, Tracked, SteadyMeans
  <2>2. presence[c] # None => \E k \in SocketsOf(c) : conns[k].st = "open"
    BY <2>1 DEF Stands, LiveAt
  <2> QED
    BY <2>2 DEF Idle
<1>3. ASSUME presence'[c] = presence[c]
      PROVE  SteadyFor(c)
  <2>1. SameSockets /\ \A k \in Sockets : conns'[k].st = conns[k].st
    BY <1>1 DEF SameSockets
  <2> QED
    BY <1>1, <1>3, <2>1, SteadyForCarried
<1> QED
  BY <1>1, <1>2, <1>3, PlacesKept DEF Untouched

\* A frame that is not the one the first command of s is about.
LEMMA NotFirst ==
  ASSUME Types, NEW s \in Servers, NEW m
  PROVE  /\ \A c : IsSet(s, 1, c) \/ IsDel(s, 1, c) => ~IsRoute(s, 1, m) /\ ~IsHook(s, 1, m)
         /\ \A n : n # m /\ (IsRoute(s, 1, n) \/ IsHook(s, 1, n)) => ~IsRoute(s, 1, m) /\ ~IsHook(s, 1, m)
<1>1. \A c : IsSet(s, 1, c) \/ IsDel(s, 1, c) => ~IsRoute(s, 1, m) /\ ~IsHook(s, 1, m)
  BY OneAtATime
<1>2. ASSUME NEW n, n # m, IsRoute(s, 1, n)
      PROVE  ~IsRoute(s, 1, m) /\ ~IsHook(s, 1, m)
  <2>1. ~IsRoute(s, 1, m)
    BY <1>2, CommandsDiffer DEF IsRoute, At
  <2> QED
    BY <1>2, <2>1, OneAtATime
<1>3. ASSUME NEW n, n # m, IsHook(s, 1, n)
      PROVE  ~IsRoute(s, 1, m) /\ ~IsHook(s, 1, m)
  <2>1. ~IsHook(s, 1, m)
    BY <1>3, CommandsDiffer DEF IsHook, At
  <2> QED
    BY <1>3, <2>1, OneAtATime
<1> QED
  BY <1>1, <1>2, <1>3

LEMMA CleanWhenFails ==
  ASSUME Types, Bounds, Clean, NEW s \in Servers, ExecuteFails(s)
  PROVE  Clean'
<1>1. Types' /\ GotKept /\ FirstDone(s) /\ UNCHANGED <<conns, localMap, presence, msgs, bus>>
  BY FailViews
<1>2. BusKept
  BY <1>1, BusUnchanged
<1> SUFFICES ASSUME NEW m \in clean', NEW c \in Clients, msgs[m].to = c
             PROVE  m \in clean /\ Untouched(m, c)
  BY <1>1, CleanWhenLeftAlone DEF LeftAlone
<1>3. m \in clean /\ (m \in notified' <=> m \in notified) /\ ~IsRoute(s, 1, m) /\ ~IsHook(s, 1, m)
  <2>1. CASE \E d \in Clients : (IsSet(s, 1, d) \/ IsDel(s, 1, d)) /\ UNCHANGED <<notified, clean>>
    BY <2>1, NotFirst
  <2>2. CASE \E n \in 1..Len(msgs) : IsRoute(s, 1, n) /\ clean' = clean \ {n} /\ UNCHANGED notified
    BY <2>2, NotFirst
  <2>3. CASE \E n \in 1..Len(msgs) : IsHook(s, 1, n) /\ notified' = notified \union {n} /\ clean' = clean \ {n}
    BY <2>3, NotFirst
  <2> QED
    BY <2>1, <2>2, <2>3, FailViews
<1>4. (Waits(m)' <=> Waits(m)) /\ (Asks(m)' <=> Asks(m))
  BY <1>1, <1>3, PlacesShift
<1>5. (Reached(m)' <=> Reached(m)) /\ \A t \in Servers : OnWay(t, m)' <=> OnWay(t, m)
  BY <1>1, <1>2 DEF GotKept, BusKept, Reached, OnWay
<1>6. SteadyFor(c)
  BY <1>1, SteadyForDone
<1> QED
  BY <1>3, <1>4, <1>5, <1>6 DEF Untouched

\* A command is done: what it says of other frames is nothing, and it changes the entry of no
\* client that is steady.
LEMMA OthersWhenExecuted ==
  ASSUME Types, NEW s \in Servers, FirstDone(s), UNCHANGED <<conns, localMap, msgs>>, GotKept,
         NEW m, NEW c \in Clients, ~IsRoute(s, 1, m), ~IsHook(s, 1, m),
         \A t \in Servers, i \in Nat : OnBus(t, i, m)' <=> OnBus(t, i, m),
         m \in notified' <=> m \in notified, Unsettled(m) => presence'[c] = presence[c]
  PROVE  Untouched(m, c)
<1>1. (Waits(m)' <=> Waits(m)) /\ (Asks(m)' <=> Asks(m))
  BY PlacesShift
<1>2. (Reached(m)' <=> Reached(m)) /\ \A t \in Servers : OnWay(t, m)' <=> OnWay(t, m)
  BY DEF GotKept, Reached, OnWay
<1>3. Unsettled(m) => SteadyFor(c)
  BY SteadyForDone
<1> QED
  BY <1>1, <1>2, <1>3 DEF Untouched

\* The router's look-up of m: it is published where its recipient is, or nowhere.
LEMMA TrackedWhenRouted ==
  ASSUME Types, Types', Order, Hooks, NEW s \in Servers, FirstDone(s), UNCHANGED <<conns, localMap, notified, presence>>,
         GotKept, NEW m \in 1..Len(msgs), NEW c \in Clients, msgs[m].to = c, Tracked(m, c),
         (\E t \in Servers : Publishes(s, m, t)) \/ FindsNone(s, m)
  PROVE  Tracked(m, c)'
<1>1. IsRoute(s, 1, m) /\ 1 \in Nat
  BY DEF Publishes, FindsNone
<1>2. Unsettled(m)
  BY <1>1 DEF Unsettled, Waits
<1>3. Steady(c) /\ m \notin notified
  BY <1>2 DEF Tracked
<1>4. Steady(c)'
  BY <1>3, SteadyKept, SteadyForDone
<1>5. ~Waits(m)'
  <2> SUFFICES ASSUME NEW u \in Servers, NEW i \in Nat, IsRoute(u, i, m)'
               PROVE  FALSE
    BY DEF Waits
  <2>1. CASE u = s
    <3>1. i # 0 /\ i + 1 \in Nat /\ IsRoute(s, i + 1, m)
      BY <2>1 DEF FirstDone
    <3>2. i + 1 = 1
      BY <1>1, <3>1 DEF Order, OnePlace, RouteOnce
    <3> QED
      BY <3>1, <3>2
  <2>2. CASE u # s
    <3>1. IsRoute(u, i, m)
      BY <2>2 DEF FirstDone
    <3> QED
      BY <1>1, <2>2, <3>1 DEF Order, OnePlace, RouteOnce
  <2> QED
    BY <2>1, <2>2
<1>6. Asks(m)'
  <2>1. Asks(m)
    BY <1>1 DEF Hooks, HookLast, Asks
  <2>2. ~IsHook(s, 1, m)
    BY <1>1, OneAtATime
  <2> QED
    BY <2>1, <2>2, PlacesShift
<1>7. ~Reached(m)'
  BY <1>1 DEF Order, OnePlace, RouteNotGot, GotKept, Reached
<1>8. \A t \in Servers : ~OnWay(t, m)
  BY <1>1 DEF Order, OnePlace, RouteNotBus, OnWay
<1>9. \/ presence'[c] = None /\ \A t \in Servers : ~OnWay(t, m)'
      \/ \E t \in Servers : presence'[c] = t /\ OnWay(t, m)' /\ \A u \in Servers : OnWay(u, m)' => u = t
  <2>1. ASSUME NEW t \in Servers, Publishes(s, m, t)
        PROVE  presence'[c] = t /\ OnWay(t, m)' /\ \A u \in Servers : OnWay(u, m)' => u = t
    <3>1. Len(bus[t]) + 1 \in Nat
      BY Lengths
    <3>2. presence'[c] = t
      BY <2>1 DEF Publishes
    <3>3. OnWay(t, m)'
      BY <2>1, <3>1 DEF Publishes, OnWay
    <3>4. \A u \in Servers : OnWay(u, m)' => u = t
      BY <1>8, <2>1 DEF Publishes, OnWay
    <3> QED
      BY <3>2, <3>3, <3>4
  <2>2. CASE FindsNone(s, m)
    BY <1>8, <2>2 DEF FindsNone, BusKept, OnWay
  <2> QED
    BY <2>1, <2>2
<1>10. (presence'[c] # None <=> \E t \in Servers : OnWay(t, m)') /\ \A t \in Servers : OnWay(t, m)' => presence'[c] = t
  BY <1>9, RelayAssumption
<1> QED
  BY <1>3, <1>4, <1>5, <1>6, <1>7, <1>10 DEF Tracked, Unsettled

\* The hook's look-up of m, which comes after the router's.
LEMMA TrackedWhenDecided ==
  ASSUME Types, Types', Order, Hooks, NEW s \in Servers, FirstDone(s), UNCHANGED <<conns, localMap>>,
         GotKept, NEW m \in 1..Len(msgs), NEW c \in Clients, msgs[m].to = c, Tracked(m, c), Decides(s, m)
  PROVE  Tracked(m, c)'
<1>1. IsHook(s, 1, m) /\ 1 \in Nat /\ UNCHANGED presence
  BY DEF Decides
<1>2. Asks(m) /\ Unsettled(m)
  BY <1>1 DEF Unsettled, Asks
<1>3. Steady(c) /\ m \notin notified
  BY <1>2 DEF Tracked
<1>4. Steady(c)'
  BY <1>1, <1>3, SteadyKept, SteadyForDone
<1>5. ~Waits(m)
  <2> SUFFICES ASSUME NEW u \in Servers, NEW i \in Nat, IsRoute(u, i, m)
               PROVE  FALSE
    BY DEF Waits
  <2>1. PICK j \in Nat : j > i /\ IsHook(u, j, m)
    BY DEF Hooks, HookLast
  <2>2. u = s /\ j = 1
    BY <1>1, <2>1 DEF Hooks, HookOnce
  <2>3. i # 0
    BY OneAtATime
  <2> QED
    BY <2>1, <2>2, <2>3
<1>6. ~Waits(m)'
  BY <1>5, PlacesShift
<1>7. ~Asks(m)'
  <2> SUFFICES ASSUME NEW u \in Servers, NEW i \in Nat, IsHook(u, i, m)'
               PROVE  FALSE
    BY DEF Asks
  <2>1. CASE u = s
    <3>1. i # 0 /\ i + 1 \in Nat /\ IsHook(s, i + 1, m)
      BY <2>1 DEF FirstDone
    <3>2. i + 1 = 1
      BY <1>1, <3>1 DEF Hooks, HookOnce
    <3> QED
      BY <3>1, <3>2
  <2>2. CASE u # s
    <3>1. IsHook(u, i, m)
      BY <2>2 DEF FirstDone
    <3> QED
      BY <1>1, <2>2, <3>1 DEF Hooks, HookOnce
  <2> QED
    BY <2>1, <2>2
<1>8. (Reached(m)' <=> Reached(m)) /\ \A t \in Servers : OnWay(t, m)' <=> OnWay(t, m)
  BY DEF Decides, GotKept, BusKept, Reached, OnWay
<1>9. /\ presence[c] # None <=> Reached(m) \/ \E t \in Servers : OnWay(t, m)
      /\ \A t \in Servers : OnWay(t, m) => presence[c] = t
  BY <1>2, <1>5 DEF Tracked
<1>10. m \in notified' <=> presence[c] = None
  BY <1>3 DEF Decides
<1>11. Unsettled(m)' => m \notin notified'
  BY <1>6, <1>7, <1>8, <1>9, <1>10 DEF Unsettled
<1>12. ~Unsettled(m)' => (Reached(m)' <=> m \notin notified')
  BY <1>6, <1>7, <1>8, <1>9, <1>10 DEF Unsettled
<1> QED
  BY <1>1, <1>4, <1>7, <1>8, <1>9, <1>11, <1>12 DEF Tracked

LEMMA CleanWhenExecuted ==
  ASSUME Types, Bounds, Order, Hooks, Clean, NEW s \in Servers, Execute(s)
  PROVE  Clean'
<1>1. Types' /\ GotKept /\ FirstDone(s) /\ UNCHANGED <<conns, localMap, msgs, clean>>
  BY ExecuteViews
<1> SUFFICES ASSUME NEW m \in clean, NEW c \in Clients, msgs[m].to = c
             PROVE  Tracked(m, c)'
  BY <1>1 DEF Clean
<1>2. Tracked(m, c) /\ m \in 1..Len(msgs)
  BY DEF Clean, Bounds
<1>3. Unsettled(m) => \A t \in Servers : NoChange(t, c)
  BY <1>2, SteadyIs DEF Tracked, SteadyMeans, Stands
<1>4. ASSUME NEW d \in Clients, Sets(s, d) \/ Deletes(s, d)
      PROVE  Tracked(m, c)'
  <2>1. ~IsRoute(s, 1, m) /\ ~IsHook(s, 1, m)
    BY <1>4, NotFirst DEF Sets, Deletes
  <2>2. Unsettled(m) => presence'[c] = presence[c]
    BY <1>3, <1>4 DEF Sets, Deletes, NoChange, ChangeAt
  <2>3. BusKept /\ UNCHANGED notified
    BY <1>4 DEF Sets, Deletes
  <2>4. Untouched(m, c)
    BY <1>1, <2>1, <2>2, <2>3, OthersWhenExecuted DEF BusKept
  <2> QED
    BY <1>1, <1>2, <2>4, TrackedKept
<1>5. ASSUME NEW n \in 1..Len(msgs), (\E t \in Servers : Publishes(s, n, t)) \/ FindsNone(s, n)
      PROVE  Tracked(m, c)'
  <2>1. IsRoute(s, 1, n) /\ UNCHANGED <<presence, notified>>
    BY <1>5 DEF Publishes, FindsNone
  <2>2. CASE n = m
    BY <1>1, <1>2, <1>5, <2>1, <2>2, TrackedWhenRouted
  <2>3. CASE n # m
    <3>1. ~IsRoute(s, 1, m) /\ ~IsHook(s, 1, m)
      BY <2>1, <2>3, NotFirst
    <3>2. \A t \in Servers, i \in Nat : OnBus(t, i, m)' <=> OnBus(t, i, m)
      BY <1>5, <2>3 DEF Publishes, FindsNone, BusKept
    <3>3. Untouched(m, c)
      BY <1>1, <2>1, <3>1, <3>2, OthersWhenExecuted
    <3> QED
      BY <1>1, <1>2, <3>3, TrackedKept
  <2> QED
    BY <2>2, <2>3
<1>6. ASSUME NEW n \in 1..Len(msgs), Decides(s, n)
      PROVE  Tracked(m, c)'
  <2>1. CASE n = m
    BY <1>1, <1>2, <1>6, <2>1, TrackedWhenDecided
  <2>2. CASE n # m
    <3>1. ~IsRoute(s, 1, m) /\ ~IsHook(s, 1, m)
      BY <1>6, <2>2, NotFirst DEF Decides
    <3>2. BusKept /\ UNCHANGED presence /\ (m \in notified' <=> m \in notified)
      BY <1>6, <2>2 DEF Decides
    <3>3. Untouched(m, c)
      BY <1>1, <3>1, <3>2, OthersWhenExecuted DEF BusKept
    <3> QED
      BY <1>1, <1>2, <3>3, TrackedKept
  <2> QED
    BY <2>1, <2>2
<1> QED
  BY <1>4, <1>5, <1>6, ExecuteViews

LEMMA CleanWhenReceived ==
  ASSUME Types, Bounds, Order, Clean, NEW s \in Servers, Receive(s)
  PROVE  Clean'
<1>1. /\ Types' /\ SameSockets
      /\ UNCHANGED <<localMap, presence, issued, msgs, notified, clean>>
      /\ \A t \in Servers, i \in Nat : \A n :
           OnBus(t, i, n)' <=> IF t = s THEN i # 0 /\ OnBus(t, i + 1, n) ELSE OnBus(t, i, n)
  BY ReceiveViews
<1>2. PICK n \in 1..Len(msgs) :
        /\ OnBus(s, 1, n) /\ msgs[n].to \in Clients
        /\ LET k == localMap[s][msgs[n].to]
           IN  IF k # 0 /\ conns[k].st = "open" THEN Reaches(k, n) ELSE UNCHANGED conns
  BY ReceiveViews
<1>3. RoutesKept /\ ChangesKept /\ \A k \in Sockets : conns'[k].st = conns[k].st
  BY <1>1, IssuedUnchanged, ReceiveSteadfast
<1> SUFFICES ASSUME NEW m \in clean, NEW c \in Clients, msgs[m].to = c
             PROVE  Tracked(m, c)'
  BY <1>1 DEF Clean
<1>4. Tracked(m, c)
  BY DEF Clean
<1>5. SteadyFor(c)
  BY <1>1, <1>3, SteadyForCarried
<1>6. (Waits(m)' <=> Waits(m)) /\ (Asks(m)' <=> Asks(m))
  BY <1>3 DEF RoutesKept, Waits, Asks
<1>7. PICK k : k = localMap[s][msgs[n].to]
  OBVIOUS
<1>8. Reaches(k, n) \/ UNCHANGED conns
  BY <1>2, <1>7
<1>9. CASE n # m
  <2>1. Reached(m)' <=> Reached(m)
    <3>1. CASE Reaches(k, n)
      BY <1>9, <3>1 DEF Reaches, Reached
    <3>2. CASE UNCHANGED conns
      BY <3>2 DEF Reached, Got, Sockets
    <3> QED
      BY <1>8, <3>1, <3>2
  <2>2. ASSUME NEW t \in Servers
        PROVE  OnWay(t, m)' <=> OnWay(t, m)
    <3>1. CASE t # s
      BY <1>1, <3>1 DEF OnWay
    <3>2. CASE t = s
      <4>1. OnWay(t, m)' => OnWay(t, m)
        BY <1>1, <3>2 DEF OnWay
      <4>2. ASSUME NEW i \in Nat, OnBus(s, i, m)
            PROVE  OnWay(t, m)'
        <5>1. i \in 1..Len(bus[s]) /\ i # 1
          BY <1>2, <1>9, <4>2, Places DEF OnBus
        <5>2. i - 1 \in Nat /\ i - 1 # 0 /\ (i - 1) + 1 = i
          BY <5>1
        <5>3. OnBus(s, i - 1, m)'
          BY <1>1, <4>2, <5>2
        <5> QED
          BY <3>2, <5>2, <5>3 DEF OnWay
      <4> QED
        BY <3>2, <4>1, <4>2 DEF OnWay
    <3> QED
      BY <3>1, <3>2
  <2>3. Untouched(m, c)
    BY <1>1, <1>5, <1>6, <2>1, <2>2 DEF Untouched
  <2> QED
    BY <1>1, <1>4, <2>3, TrackedKept
<1>10. CASE n = m
  <2>1. OnWay(s, m) /\ OnBus(s, 1, m) /\ 1 \in Nat
    BY <1>2, <1>10 DEF OnWay
  <2>2. Steady(c) /\ m \notin notified /\ presence[c] = s
    BY <1>4, <2>1 DEF Tracked, Unsettled
  <2>3. Steady(c)'
    BY <1>1, <1>5, <2>2, SteadyKept
  <2>4. Stands(c) /\ presence[c] # None
    BY <2>2, SteadyIs, RelayAssumption DEF SteadyMeans
  <2>5. PICK j \in Nat : LiveAt(j, c)
    BY <2>4 DEF Stands
  <2>6. k = j /\ k # 0 /\ conns[k].st = "open"
    <3>1. j \in Sockets /\ j # 0
      BY <2>5, ConnFields DEF LiveAt, SocketsOf
    <3> QED
      BY <1>7, <1>10, <2>2, <2>5, <3>1 DEF LiveAt
  <2>7. Reaches(k, m)
    BY <1>2, <1>7, <1>10, <2>6
  <2>8. Reached(m)'
    <3>1. k \in Nat /\ Len(conns[k].got) + 1 \in Nat
      BY <2>7, ConnFields DEF Reaches
    <3>2. PICK i \in Nat : i = Len(conns[k].got) + 1
      BY <3>1
    <3>3. Got(k, i, m)'
      BY <2>7, <3>1, <3>2 DEF Reaches
    <3> QED
      BY <3>1, <3>3 DEF Reached
  <2>9. ~Waits(m)
    BY <2>1 DEF Order, OnePlace, RouteNotBus, Waits
  <2>10. ASSUME NEW u \in Servers, NEW i \in Nat, OnBus(u, i, m)'
         PROVE  FALSE
    <3>1. CASE u # s
      <4>1. OnBus(u, i, m)
        BY <1>1, <2>10, <3>1
      <4> QED
        BY <2>1, <3>1, <4>1 DEF Order, OnePlace, BusOnce
    <3>2. CASE u = s
      <4>1. i # 0 /\ i + 1 \in Nat /\ OnBus(s, i + 1, m)
        BY <1>1, <2>10, <3>2
      <4>2. i + 1 = 1
        BY <2>1, <4>1 DEF Order, OnePlace, BusOnce
      <4> QED
        BY <4>1, <4>2
    <3> QED
      BY <3>1, <3>2
  <2>11. \A u \in Servers : ~OnWay(u, m)'
    BY <2>10 DEF OnWay
  <2>12. presence'[c] # None /\ m \notin notified'
    BY <1>1, <2>2, <2>4
  <2> QED
    BY <1>6, <2>3, <2>8, <2>9, <2>11, <2>12 DEF Tracked, Unsettled
<1> QED
  BY <1>9, <1>10

\* A new frame: its recipient is not here and the cache is asked, or its socket is here.
LEMMA TrackedWhenSent ==
  ASSUME Types, Bounds, Registry, NEW s \in Servers, NEW c \in Clients, SendFrame(s, c), Steady(c),
         NEW m \in Nat, m = Len(msgs) + 1
  PROVE  Tracked(m, c)'
<1>1. PICK k : k = localMap[s][c]
  OBVIOUS
<1>2. /\ Types' /\ SameSockets /\ ChangesKept
      /\ UNCHANGED <<localMap, presence, bus, notified>>
      /\ IF k = 0
           THEN UNCHANGED conns /\ BothQueued(s, m)
           ELSE RoutesKept /\ IF conns[k].st = "open" THEN Reaches(k, m) ELSE UNCHANGED conns
  BY <1>1, SendViews
<1>3. ~Sent(m)
  BY Lengths DEF Sent
<1>4. m \notin notified'
  BY <1>2, <1>3 DEF Bounds, Sent
<1>5. SteadyFor(c)
  BY <1>2, SteadyForCarried, SendSteadfast
<1>6. Steady(c)'
  BY <1>2, <1>5, SteadyKept
<1>7. \A t \in Servers : ~OnWay(t, m)'
  BY <1>2, <1>3, BusUnchanged DEF Bounds, BusKept, OnWay
<1>8. CASE k = 0
  <2>1. PICK n \in Nat : n = Len(issued[s]) + 1
    BY Lengths
  <2>2. IsRoute(s, n, m)'
    BY <1>2, <1>8, <2>1 DEF BothQueued
  <2>3. Waits(m)'
    BY <2>2 DEF Waits
  <2> QED
    BY <1>4, <1>6, <1>7, <2>3 DEF Tracked, Unsettled
<1>9. CASE k # 0
  <2>1. RoutesKept /\ IF conns[k].st = "open" THEN Reaches(k, m) ELSE UNCHANGED conns
    BY <1>2, <1>9
  <2>2. ~Waits(m)' /\ ~Asks(m)'
    BY <1>3, <2>1 DEF Bounds, RoutesKept, Waits, Asks
  <2>3. k \in SocketsOf(c) /\ Alive(k)
    BY <1>1, <1>9 DEF Types, MapTyped, Registry, Registered, SocketsOf
  <2>4. Stands(c)
    BY SteadyIs DEF SteadyMeans
  <2>5. PICK j \in Nat : LiveAt(j, c)
    BY <2>3, <2>4 DEF Stands
  <2>6. k = j /\ conns[k].st = "open"
    BY <2>3, <2>5 DEF LiveAt
  <2>7. Reaches(k, m)
    BY <2>1, <2>6
  <2>8. Reached(m)'
    <3>1. k \in Nat /\ Len(conns[k].got) + 1 \in Nat
      BY <2>7, ConnFields DEF Reaches
    <3>2. PICK i \in Nat : i = Len(conns[k].got) + 1
      BY <3>1
    <3>3. Got(k, i, m)'
      BY <2>7, <3>1, <3>2 DEF Reaches
    <3> QED
      BY <3>1, <3>3 DEF Reached
  <2> QED
    BY <1>4, <1>7, <2>2, <2>8 DEF Tracked, Unsettled
<1> QED
  BY <1>8, <1>9

LEMMA CleanWhenSent ==
  ASSUME Types, Bounds, Registry, Clean, NEW s \in Servers, NEW d \in Clients, SendFrame(s, d)
  PROVE  Clean'
<1>1. PICK n, k : n = Len(msgs) + 1 /\ k = localMap[s][d]
  OBVIOUS
<1>2. /\ Types' /\ SameSockets /\ ChangesKept /\ n \in Nat
      /\ (\A m \in 1..Len(msgs) : msgs'[m] = msgs[m]) /\ msgs'[n].to = d
      /\ clean' = IF Steady(d) THEN clean \union {n} ELSE clean
      /\ UNCHANGED <<localMap, presence, bus, notified>>
      /\ IF k = 0
           THEN UNCHANGED conns /\ BothQueued(s, n)
           ELSE RoutesKept /\ IF conns[k].st = "open" THEN Reaches(k, n) ELSE UNCHANGED conns
  BY <1>1, SendViews
<1> SUFFICES ASSUME NEW m \in clean', NEW c \in Clients, msgs'[m].to = c
             PROVE  Tracked(m, c)'
  BY DEF Clean
<1>3. CASE m = n /\ m \notin clean
  <2>1. Steady(d) /\ c = d
    BY <1>2, <1>3
  <2> QED
    BY <1>1, <1>2, <1>3, <2>1, TrackedWhenSent
<1>4. CASE m \in clean
  <2>1. m \in 1..Len(msgs) /\ m # n
    BY <1>1, <1>4, Lengths DEF Bounds
  <2>2. Tracked(m, c)
    BY <1>2, <1>4, <2>1 DEF Clean
  <2>3. SteadyFor(c)
    BY <1>2, SteadyForCarried, SendSteadfast
  <2>4. (Waits(m)' <=> Waits(m)) /\ (Asks(m)' <=> Asks(m))
    <3>1. CASE BothQueued(s, n)
      BY <2>1, <3>1 DEF BothQueued, Waits, Asks
    <3>2. CASE RoutesKept
      BY <3>2 DEF RoutesKept, Waits, Asks
    <3> QED
      BY <1>2, <3>1, <3>2
  <2>5. Reached(m)' <=> Reached(m)
    <3>1. CASE Reaches(k, n)
      BY <2>1, <3>1 DEF Reaches, Reached
    <3>2. CASE UNCHANGED conns
      BY <3>2 DEF Reached, Got, Sockets
    <3> QED
      BY <1>2, <3>1, <3>2
  <2>6. \A t \in Servers : OnWay(t, m)' <=> OnWay(t, m)
    BY <1>2, BusUnchanged DEF BusKept, OnWay
  <2>7. Untouched(m, c)
    BY <1>2, <2>3, <2>4, <2>5, <2>6 DEF Untouched
  <2> QED
    BY <1>2, <2>2, <2>7, TrackedKept
<1> QED
  BY <1>2, <1>3, <1>4

LEMMA CleanStep ==
  ASSUME Types, Bounds, Registry, Order, Hooks, Clean, [Next]_vars
  PROVE  Clean'
  BY StepKinds, CleanWhenConnect, CleanWhenSent, CleanWhenFaded, CleanWhenClose, CleanWhenCrash, CleanWhenIdle,
     CleanWhenExecuted, CleanWhenFails, CleanWhenReceived

LEMMA InitClean ==
  ASSUME Init
  PROVE  Hooks /\ Clean
  BY InitEmpty DEF Hooks, HookOnce, HookLast, IsRoute, IsHook, Clean

LEMMA OutcomeImplied ==
  ASSUME Types, Bounds, Clean
  PROVE  OneOutcomeWhenSteady
<1> SUFFICES ASSUME NEW m \in clean, ~Pending(m)
             PROVE  Received(m) <=> m \notin notified
  BY DEF OneOutcomeWhenSteady
<1>1. m \in 1..Len(msgs)
  BY DEF Bounds
<1>2. PICK c \in Clients : msgs[m].to = c
  BY <1>1, Lengths
<1>3. Tracked(m, c) /\ ~Unsettled(m)
  BY <1>2, PendingIs DEF Clean
<1> QED
  BY <1>3, PendingIs DEF Tracked

\* The router and the hook decide separately, at times of their own, whether the recipient of a
\* frame is there; if it stays as it was, one of them and not the other takes the frame.
THEOREM OutcomeWhenSteady == Spec => []OneOutcomeWhenSteady
<1> DEFINE Inv == Types /\ Bounds /\ Registry /\ Order /\ Hooks /\ Clean
<1>1. Init => Inv
  BY InitEmpty, InitRegistries, InitOrder, InitClean
<1>2. Inv /\ [Next]_vars => Inv'
  BY TypesStep, BoundsStep, RegistryStep, OrderStep, HooksStep, CleanStep
<1>3. Inv => OneOutcomeWhenSteady
  BY OutcomeImplied
<1> QED
  BY <1>1, <1>2, <1>3, PTL DEF Spec
=============================================================================
