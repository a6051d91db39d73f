--------------------------- MODULE WebsocketRelay ---------------------------
(***************************************************************************)
(* The websocket tier of a sandbox system: the relay servers               *)
(* (frontend/server/templates/websocket/server/server.js, one file run by  *)
(* every server), the presence cache that says which server holds a        *)
(* client, the bus with one channel per server, and the hook of the chat   *)
(* app (systems/chat-app/ws-shared/hooks.js) that stores a notification    *)
(* for a recipient who is offline.                                         *)
(* A server issues its presence commands on one connection and does not    *)
(* wait for them: they are executed, and answered, in the order it issued  *)
(* them, and in any order with those of the other servers.                 *)
(* The two redis and the network to the clients are external.              *)
(***************************************************************************)
EXTENDS Naturals, Sequences, FiniteSets, FiniteSetsExt

CONSTANTS Servers, Clients,
          None,           \* no presence entry
          MaxConns,       \* bound: connections each client ever opens
          Entry,          \* bound: the servers that take in frames
          MaxMessages,    \* bound: frames ever sent
          MaxFaults       \* bound: server crashes and failed presence commands

ASSUME RelayAssumption ==
  /\ None \notin Servers /\ Entry \subseteq Servers
  /\ {MaxConns, MaxMessages, MaxFaults} \subseteq Nat

VARIABLES conns,          \* the sockets, oldest first; got: the messages carried to the client
          unanswered,     \* the sockets of wss.clients whose isAlive is false
          localMap,       \* localMap[s][c]: the socket of c at s, 0 when there is none
          presence,       \* the cache: the server that holds each client
          issued,         \* issued[s]: presence commands of s not yet executed
          bus,            \* bus[s]: messages on the channel of s
          msgs,           \* the frames sent, oldest first
          notified,       \* the messages the hook has stored
          faults,
          moved,          \* history: clients whose newest socket overlapped one elsewhere
          clean           \* history: messages whose recipient stayed as it was

cacheVars == <<presence, issued>>
messageVars == <<msgs, bus, notified>>
vars == <<conns, unanswered, localMap, cacheVars, messageVars, faults, moved, clean>>

Sockets == 1..Len(conns)
SocketsOf(c) == {k \in Sockets : conns[k].client = c}
Alive(k) == conns[k].st # "closed"
Newest(ks) == IF ks = {} THEN 0 ELSE Max(ks)
NewestIs(c, st) == SocketsOf(c) # {} /\ conns[Max(SocketsOf(c))].st = st

-----------------------------------------------------------------------------
(* What a handler leaves behind on the server's connections. *)

SetKey(c) == [cmd |-> "set", client |-> c]
DelKey(c) == [cmd |-> "del", client |-> c]
RouteGet(m) == [cmd |-> "routeGet", msg |-> m]
HookGet(m) == [cmd |-> "hookGet", msg |-> m]

Changes(s, c) == \E i \in DOMAIN issued[s] : issued[s][i] \in {SetKey(c), DelKey(c)}
Settled(c) == \A s \in Servers : ~Changes(s, c)

Pending(m) == \E s \in Servers : \/ \E i \in DOMAIN bus[s] : bus[s][i] = m
                                 \/ \E i \in DOMAIN issued[s] : issued[s][i] \in {RouteGet(m), HookGet(m)}

\* The messages on their way to one of the clients are no longer clean.
Disturb(cs) == clean' = {m \in clean : ~(msgs[m].to \in cs /\ Pending(m))}

\* The cache says where c is, and nothing is under way that changes either.
Steady(c) ==
  LET live == {k \in SocketsOf(c) : Alive(k)}
  IN  /\ Settled(c)
      /\ \/ live = {} /\ presence[c] = None
         \/ \E k \in live : live = {k} /\ conns[k].st = "open"
                              /\ localMap[conns[k].server][c] = k /\ presence[c] = conns[k].server

-----------------------------------------------------------------------------
(* Connection lifecycle. *)

\* Another server still holds c, or has not yet told the cache what it last did to c.
Overlaps(s, c) ==
  \/ \E k \in SocketsOf(c) : conns[k].server # s /\ Alive(k)
  \/ \E t \in Servers \ {s} : Changes(t, c)

\* Mutant: the map is set before the socket is there.
ConnectEarly(s, c) ==
  /\ Cardinality(SocketsOf(c)) < MaxConns
  /\ conns' = Append(conns, [client |-> c, server |-> s, st |-> "open",
                             born |-> Len(msgs), got |-> <<>>])
  /\ localMap' = [localMap EXCEPT ![s][c] = Len(conns)]
  /\ issued' = [issued EXCEPT ![s] = Append(@, SetKey(c))]
  /\ moved' = IF Overlaps(s, c) THEN moved \cup {c} ELSE moved \ {c}
  /\ Disturb({c})
  /\ UNCHANGED <<unanswered, presence, messageVars, faults>>

Connect(s, c) ==
  /\ Cardinality(SocketsOf(c)) < MaxConns
  /\ conns' = Append(conns, [client |-> c, server |-> s, st |-> "open",
                             born |-> Len(msgs), got |-> <<>>])
  /\ localMap' = [localMap EXCEPT ![s][c] = Len(conns')]
  /\ issued' = [issued EXCEPT ![s] = Append(@, SetKey(c))]
  /\ moved' = IF Overlaps(s, c) THEN moved \cup {c} ELSE moved \ {c}
  /\ Disturb({c})
  /\ UNCHANGED <<unanswered, presence, messageVars, faults>>

Becomes(k, st) ==
  /\ conns' = [conns EXCEPT ![k].st = st]
  /\ Disturb({conns[k].client})

\* The client hangs up, or the socket fails and is terminated: readyState leaves OPEN
\* before the close event is handled.
HangUp(k) ==
  /\ conns[k].st = "open"
  /\ Becomes(k, "closing")
  /\ UNCHANGED <<unanswered, localMap, cacheVars, messageVars, faults, moved>>

\* The client is gone and the server cannot know.
Lose(k) ==
  /\ conns[k].st = "open"
  /\ Becomes(k, "lost")
  /\ UNCHANGED <<unanswered, localMap, cacheVars, messageVars, faults, moved>>

\* Mutant: only the local map is compared.
CleanUpPresenceAlways(s, c, k) ==
  /\ localMap' = IF localMap[s][c] = k THEN [localMap EXCEPT ![s][c] = 0] ELSE localMap
  /\ issued' = [issued EXCEPT ![s] = Append(@, DelKey(c))]

\* A reconnect may have replaced the entry: then the handler leaves it alone.
CleanUp(s, c, k) ==
  IF localMap[s][c] = k
    THEN /\ localMap' = [localMap EXCEPT ![s][c] = 0]
         /\ issued' = [issued EXCEPT ![s] = Append(@, DelKey(c))]
    ELSE UNCHANGED <<localMap, issued>>

Close(k) ==
  /\ conns[k].st = "closing"
  /\ Becomes(k, "closed")
  /\ unanswered' = unanswered \ {k}
  /\ CleanUp(conns[k].server, conns[k].client, k)
  /\ UNCHANGED <<presence, messageVars, faults, moved>>

\* Mutant: isAlive stays as it is when the ping goes out.
BeatForgetsPing(s) ==
  LET here == {k \in Sockets : conns[k].server = s /\ Alive(k)}
      dead == {k \in here \cap unanswered : conns[k].st # "closing"}
  IN  /\ here # {}
      /\ conns' = [k \in Sockets |->
                     IF k \in dead THEN [conns[k] EXCEPT !.st = "closing"] ELSE conns[k]]
      /\ Disturb({conns[k].client : k \in dead})
      /\ UNCHANGED <<unanswered, localMap, cacheVars, messageVars, faults, moved>>

\* One beat of the server's timer: who has not answered the last ping is terminated.
Beat(s) ==
  LET here == {k \in Sockets : conns[k].server = s /\ Alive(k)}
      dead == {k \in here \cap unanswered : conns[k].st # "closing"}
  IN  /\ here # {}
      /\ conns' = [k \in Sockets |->
                     IF k \in dead THEN [conns[k] EXCEPT !.st = "closing"] ELSE conns[k]]
      /\ unanswered' = unanswered \cup here
      /\ Disturb({conns[k].client : k \in dead})
      /\ UNCHANGED <<localMap, cacheVars, messageVars, faults, moved>>

\* The presence entry lives two beats past the last pong: the expire that a pong sends
\* shows in the guard of Expire.
Pong(k) ==
  /\ conns[k].st = "open" /\ k \in unanswered
  /\ unanswered' = unanswered \ {k}
  /\ UNCHANGED <<conns, localMap, cacheVars, messageVars, faults, moved, clean>>

\* PRESENCE_TTL_S after the last pong of the client, on whichever server.
Expire(c) ==
  /\ presence[c] # None
  /\ \A k \in SocketsOf(c) : conns[k].st \notin {"open", "lost"}
  /\ presence' = [presence EXCEPT ![c] = None]
  /\ UNCHANGED <<conns, unanswered, localMap, issued, messageVars, faults, moved, clean>>

-----------------------------------------------------------------------------
(* Routing. *)

\* Sent while readyState is OPEN; a client that is gone does not get it.
DeliverLocal(s, m) ==
  LET k == localMap[s][msgs'[m].to]
  IN  conns' = IF k # 0 /\ conns[k].st = "open"
                 THEN [conns EXCEPT ![k].got = Append(@, m)]
                 ELSE conns

\* route() and then the hook, in one turn of the event loop: both look at the local map now,
\* and what they ask the cache goes out one after the other.
Route(s, m) ==
  IF localMap[s][msgs'[m].to] # 0
    THEN DeliverLocal(s, m) /\ UNCHANGED issued
    ELSE /\ issued' = [issued EXCEPT ![s] = @ \o <<RouteGet(m), HookGet(m)>>]
         /\ UNCHANGED conns

\* A frame for c reaches s.  All that routing takes from the sender is the server it is
\* connected to, so the sender may be anyone connected there.
SendFrame(s, c) ==
  /\ s \in Entry /\ Len(msgs) < MaxMessages
  /\ msgs' = Append(msgs, [via |-> s, to |-> c])
  /\ Route(s, Len(msgs'))
  /\ clean' = IF Steady(c) THEN clean \cup {Len(msgs')} ELSE clean
  /\ UNCHANGED <<unanswered, localMap, presence, bus, notified, faults, moved>>

\* Mutant: look-ups on a pool of connections.
ReadyFromPool(s, i) == i = 1 \/ issued[s][i].cmd = "routeGet"

\* Mutant: a client of redis that does not come back after an error.
ReadyUntilFault(s, i) == i = 1 /\ faults = 0

\* The commands redis may execute next: those of one connection in their order.
Ready(s, i) == i = 1

Publish(m, t) == bus' = IF t # None THEN [bus EXCEPT ![t] = Append(@, m)] ELSE bus

\* Mutant: the hook looks at the local map only.
StoreIfElsewhere(m, found) == notified' = notified \cup {m}

\* The hook's idea of online: an entry in the cache (the local map had none).
StoreIfOffline(m, found) == notified' = IF found = None THEN notified \cup {m} ELSE notified

\* Redis executes a command and the server goes on with the answer.
Execute(s) ==
  \E i \in DOMAIN issued[s] :
    LET command == issued[s][i]
    IN  /\ Ready(s, i)
        /\ issued' = [issued EXCEPT ![s] = SubSeq(@, 1, i - 1) \o SubSeq(@, i + 1, Len(@))]
        /\ \/ /\ command.cmd = "set"
              /\ presence' = [presence EXCEPT ![command.client] = s]
              /\ UNCHANGED <<bus, notified>>
           \/ /\ command.cmd = "del"
              /\ presence' = [presence EXCEPT ![command.client] = None]
              /\ UNCHANGED <<bus, notified>>
           \/ /\ command.cmd = "routeGet"
              /\ Publish(command.msg, presence[msgs[command.msg].to])
              /\ UNCHANGED <<presence, notified>>
           \/ /\ command.cmd = "hookGet"
              /\ StoreIfOffline(command.msg, presence[msgs[command.msg].to])
              /\ UNCHANGED <<presence, bus>>
        /\ UNCHANGED <<conns, unanswered, localMap, msgs, faults, moved, clean>>

\* The cache is unreachable: a change is lost, a read counts as offline.
ExecuteFails(s) ==
  /\ faults < MaxFaults /\ issued[s] # <<>>
  /\ LET command == Head(issued[s])
     IN  /\ notified' = IF command.cmd = "hookGet" THEN notified \cup {command.msg} ELSE notified
         /\ moved' = IF command.cmd = "set" THEN moved \cup {command.client} ELSE moved
         /\ clean' = IF command.cmd \in {"routeGet", "hookGet"} THEN clean \ {command.msg} ELSE clean
  /\ issued' = [issued EXCEPT ![s] = Tail(@)]
  /\ faults' = faults + 1
  /\ UNCHANGED <<conns, unanswered, localMap, presence, msgs, bus>>

\* sub.on('message'): routing happened on the sending server.
Receive(s) ==
  /\ bus[s] # <<>>
  /\ msgs' = msgs
  /\ DeliverLocal(s, Head(bus[s]))
  /\ bus' = [bus EXCEPT ![s] = Tail(@)]
  /\ UNCHANGED <<unanswered, localMap, cacheVars, notified, faults, moved, clean>>

\* The process dies and compose restarts it: sockets, local map and unsent commands are
\* gone, and nobody was subscribed to its channel meanwhile.
Crash(s) ==
  LET here == {k \in Sockets : conns[k].server = s /\ Alive(k)}
  IN  /\ faults < MaxFaults
      /\ faults' = faults + 1
      /\ conns' = [k \in Sockets |-> IF k \in here THEN [conns[k] EXCEPT !.st = "closed"] ELSE conns[k]]
      /\ unanswered' = unanswered \ here
      /\ localMap' = [localMap EXCEPT ![s] = [c \in Clients |-> 0]]
      /\ issued' = [issued EXCEPT ![s] = <<>>]
      /\ bus' = [bus EXCEPT ![s] = <<>>]
      /\ clean' = {m \in clean : ~Pending(m)}
      /\ UNCHANGED <<presence, msgs, notified, moved>>

-----------------------------------------------------------------------------
Init ==
  /\ conns = <<>> /\ msgs = <<>> /\ unanswered = {}
  /\ localMap = [s \in Servers |-> [c \in Clients |-> 0]]
  /\ presence = [c \in Clients |-> None]
  /\ issued = [s \in Servers |-> <<>>]
  /\ bus = [s \in Servers |-> <<>>]
  /\ notified = {} /\ moved = {} /\ clean = {} /\ faults = 0

Next ==
  \/ \E s \in Servers, c \in Clients : Connect(s, c) \/ SendFrame(s, c)
  \/ \E k \in Sockets : HangUp(k) \/ Lose(k) \/ Close(k) \/ Pong(k)
  \/ \E s \in Servers : Beat(s) \/ Execute(s) \/ ExecuteFails(s) \/ Receive(s) \/ Crash(s)
  \/ \E c \in Clients : Expire(c)

Spec == Init /\ [][Next]_vars

(* The timer fires, sockets that are terminated close, redis answers and expires keys.   *)
(* Nothing is assumed of the clients: they may never connect, pong, hang up or send.     *)
FairSpec ==
  /\ Spec
  /\ \A s \in Servers : WF_vars(Beat(s)) /\ WF_vars(Execute(s)) /\ WF_vars(Receive(s))
  /\ WF_vars(\E k \in Sockets : Close(k))
  /\ \A c \in Clients : WF_vars(Expire(c))

-----------------------------------------------------------------------------
(* Properties. *)

Command == [cmd : {"set", "del"}, client : Clients] \cup [cmd : {"routeGet", "hookGet"}, msg : 1..Len(msgs)]

\* The types of the state: the local map names sockets of that server and client only, and
\* what is queued or carried is a frame some server took in.
TypeOK ==
  /\ conns \in Seq([client : Clients, server : Servers, st : {"open", "lost", "closing", "closed"},
                    born : 0..Len(msgs), got : Seq(1..Len(msgs))])
  /\ \A s \in Servers, c \in Clients :
       localMap[s][c] # 0 => localMap[s][c] \in SocketsOf(c) /\ conns[localMap[s][c]].server = s
  /\ presence \in [Clients -> Servers \cup {None}]
  /\ \A s \in Servers : issued[s] \in Seq(Command) /\ bus[s] \in Seq(1..Len(msgs))
  /\ msgs \in Seq([via : Servers, to : Clients])
  /\ notified \subseteq 1..Len(msgs) /\ clean \subseteq 1..Len(msgs)
  /\ unanswered \subseteq {k \in Sockets : Alive(k)} /\ moved \subseteq Clients /\ faults \in 0..MaxFaults

\* However closes, losses and reconnects of one client are ordered, the local map of a
\* server names its newest socket there until that socket's own close event, and no socket
\* after it: a late close event of a replaced socket does not unregister the new one.
LocalMapIsNewest ==
  \A s \in Servers, c \in Clients :
    LET newest == Newest({k \in SocketsOf(c) : conns[k].server = s})
    IN  localMap[s][c] = IF newest # 0 /\ Alive(newest) THEN newest ELSE 0

\* A client whose newest socket is up is found through the cache once the commands about it
\* have been executed, so that every server can reach it, unless that socket was opened while
\* another server still held the client (moved): that server's close handler deletes whatever
\* entry it finds.
PresenceKeptUnlessMoved ==
  \A c \in Clients :
    LET newest == Newest(SocketsOf(c))
    IN  (newest # 0 /\ conns[newest].st \in {"open", "lost"} /\ c \notin moved /\ Settled(c))
          => presence[c] = conns[newest].server

\* What is known of where a client is names its newest socket, in the local map and, unless
\* the client has moved between servers, in the cache: no late close event and no order of
\* the presence commands takes it away.
RegistriesKeepNewest == LocalMapIsNewest /\ PresenceKeptUnlessMoved

\* No frame reaches its recipient twice, whether it went directly, over the bus, or to a
\* recipient that changed servers on the way.
AtMostOnce ==
  \A m \in DOMAIN msgs :
    \A j, k \in Sockets : \A x \in DOMAIN conns[j].got, y \in DOMAIN conns[k].got :
      conns[j].got[x] = m /\ conns[k].got[y] = m => <<j, x>> = <<k, y>>

\* Frames that one server took in for a recipient after its socket was opened arrive on that
\* socket in the order they were sent, although some went directly and some over the bus.
ArrivesInOrder ==
  \A k \in Sockets :
    \A i, j \in DOMAIN conns[k].got :
      LET m == conns[k].got[i]
          n == conns[k].got[j]
      IN  (/\ i < j
           /\ m > conns[k].born /\ n > conns[k].born
           /\ msgs[m].via = msgs[n].via) => m < n

\* Both, of the two ways a frame may take: whatever way it goes, and although the way for one
\* recipient changes as it comes and goes, it comes at most once and after those sent before it.
ArrivesOnceInOrder == AtMostOnce /\ ArrivesInOrder

Received(m) == \E k \in Sockets : \E i \in DOMAIN conns[k].got : conns[k].got[i] = m

\* A frame has one outcome: route() and the hook decide separately, and the recipient either
\* receives it or has a notification stored, never both and never neither, provided it
\* neither came nor went meanwhile (clean).
OneOutcomeWhenSteady ==
  \A m \in clean : ~Pending(m) => (Received(m) <=> m \notin notified)

\* A frame to a recipient that stays as it was is not left on the way: it gets that outcome.
OutcomeComes == []<>(\A m \in clean : ~Pending(m))

\* The heartbeat finds a client that is gone without a word: its socket is closed and, unless
\* the client has another, no server takes it for connected any more.
LostClientForgotten ==
  \A c \in Clients :
    NewestIs(c, "lost")
      ~> \/ NewestIs(c, "open")
         \/ NewestIs(c, "closed") /\ (presence[c] = None \/ \E k \in SocketsOf(c) : Alive(k))
=============================================================================
