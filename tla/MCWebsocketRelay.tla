---- MODULE MCWebsocketRelay ----
(* Two relay servers and a client that may connect to either of them three times: clients
   share nothing but the order of a server's commands. *)
EXTENDS WebsocketRelay

CONSTANTS s1, s2, bob

MCServers == {s1, s2}
MCClients == {bob}
MCEntry == {s1}
====
