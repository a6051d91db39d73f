----------------------------- MODULE MCConsole -----------------------------
(***************************************************************************)
(* What the console does besides the edits of SystemEdit: the sessions its  *)
(* dialogs launch, the containers, the interviews, the bank of gRPC         *)
(* contracts, the redis and postgres databases, the seed entries, and what  *)
(* the diagram and the chat of an interview show.  They meet in no          *)
(* variable, so that a behaviour is about one of them.                      *)
(***************************************************************************)
EXTENDS Authoring, Runtime, Interview, GrpcBank, RedisConfig, PostgresConfig, DbSeeds, ConsoleViews, InterviewPanel

CONSTANTS s1, s2, lb, n1, n2, n3, e1, e2

VARIABLE part

MCKinds == Kind
MCDraws ==
  [k \in MCKinds |->
    IF k = "registration" THEN 4
    ELSE IF k \in {"endpoint", "listener", "function", "process", "topology", "tables", "capture"} THEN 2 ELSE 3]
MCUpsets ==
  [k \in MCKinds |->
    IF k \in {"consumer", "registration", "contract", "method", "schema"} THEN 0 ELSE IF k \in {"function", "process"} THEN 2 ELSE 1]

Scope(may, edits) ==
  [session |-> may, edits |-> edits, active |-> s1,
   file |-> [s \in System |-> IF s = s1 THEN {lb, n1, n2} ELSE {lb, n1}]]
MCSetups ==
  {Scope({"edits"}, 3), Scope({"edits", "activate", "failures"}, 3),
   Scope({"outages", "reset", "restart"}, 2), Scope({"outages", "edits"}, 1), Scope({"outages", "activate"}, 1),
   Scope({"outages", "failures"}, 1)}

BankScope(what, requests, has, first) == [about |-> what, requests |-> requests, has |-> has, nodes |-> first]
MCBankScopes ==
  {BankScope({"texts"}, 2, {"c1"}, {}), BankScope({"wiring"}, 5, {"c1"}, {"r1", "r2"}),
   BankScope({"wiring", "customs"}, 4, {"c1"}, {"r1"}), BankScope({"wiring", "customs"}, 5, {}, {"r1"}),
   BankScope({"texts", "wiring", "customs"}, 3, {}, {"r1"})}

MCRedisId == {<<"cache">>, <<"cache", "sentinel">>, <<"cache", "2">>}
MCDigit == <<"1", "2", "3", "4", "5">>
RedisScope(what, requests, first, keys) == [topic |-> what, requests |-> requests, backends |-> first, keys |-> keys]
MCRedisScopes ==
  {RedisScope({"topology"}, 5, {}, {"k1"}), RedisScope({"keyspaces"}, 4, {<<"api">>}, {"k1"})}

MCClusterBudgets ==
  {[requests |-> 4, mishaps |-> 1, together |-> 1], [requests |-> 3, mishaps |-> 1, together |-> 2]}

MCSeedBudgets ==
  {[requests |-> 3, mishaps |-> 0, together |-> 2], [requests |-> 3, mishaps |-> 1, together |-> 1],
   [requests |-> 2, mishaps |-> 1, together |-> 2], [requests |-> 2, mishaps |-> 2, together |-> 1]}
MCMaxFigure == [s \in {"plain", "gated", "keyed", "merged", "nodes"} |-> IF s = "keyed" THEN 1 ELSE 2]
MCPlaces == [s \in {"plain", "gated", "keyed", "merged", "nodes"} |-> IF s = "keyed" THEN {e1, e2} ELSE {e1}]
Chat(starts, sent, lines, mishaps, reads) ==
  [starts |-> starts, messages |-> sent, lines |-> lines, mishaps |-> mishaps, polls |-> reads]
MCPanelBudgets == {Chat(0, 2, 1, 1, 1), Chat(0, 1, 2, 1, 1), Chat(1, 1, 1, 0, 2), Chat(2, 1, 0, 0, 1)}

ConsoleInit ==
  /\ part \in {"sessions", "containers", "interviews", "contracts", "redis", "postgres", "seeds", "views", "chat"}
  /\ AuthoringInit /\ (part # "sessions" => kind = "function")
  /\ RuntimeInit /\ (part # "containers" => scope = Scope({"outages", "edits"}, 1))
  /\ InterviewInit
  /\ BankInit /\ (part # "contracts" => about = {"wiring"})
  /\ RedisInit /\ (part # "redis" => topic = {"topology"})
  /\ PostgresInit /\ (part # "postgres" => allowance.together = 1)
  /\ SeedsInit /\ (part # "seeds" => engine = "postgres" /\ purse.together = 2 /\ purse.requests = 3)
  /\ ViewsInit /\ (part # "views" => source = "plain" /\ text.ids = {})
  /\ PanelInit /\ (part # "chat" => ration.lines = 2 /\ transcript = NoTalk)

ConsoleNext ==
  /\ UNCHANGED part
  /\ \/ /\ part = "sessions" /\ AuthoringNext
        /\ UNCHANGED <<runtimeVars, interviewVars, bankVars, redisVars, pgVars, seedVars, viewVars, panelVars>>
     \/ /\ part = "containers" /\ RuntimeNext
        /\ UNCHANGED <<authoringVars, interviewVars, bankVars, redisVars, pgVars, seedVars, viewVars, panelVars>>
     \/ /\ part = "interviews" /\ InterviewNext
        /\ UNCHANGED <<authoringVars, runtimeVars, bankVars, redisVars, pgVars, seedVars, viewVars, panelVars>>
     \/ /\ part = "contracts" /\ BankNext
        /\ UNCHANGED <<authoringVars, runtimeVars, interviewVars, redisVars, pgVars, seedVars, viewVars, panelVars>>
     \/ /\ part = "redis" /\ RedisNext
        /\ UNCHANGED <<authoringVars, runtimeVars, interviewVars, bankVars, pgVars, seedVars, viewVars, panelVars>>
     \/ /\ part = "postgres" /\ PostgresNext
        /\ UNCHANGED <<authoringVars, runtimeVars, interviewVars, bankVars, redisVars, seedVars, viewVars, panelVars>>
     \/ /\ part = "seeds" /\ SeedsNext
        /\ UNCHANGED <<authoringVars, runtimeVars, interviewVars, bankVars, redisVars, pgVars, viewVars, panelVars>>
     \/ /\ part = "views" /\ ViewsNext
        /\ UNCHANGED <<authoringVars, runtimeVars, interviewVars, bankVars, redisVars, pgVars, seedVars, panelVars>>
     \/ /\ part = "chat" /\ PanelNext
        /\ UNCHANGED <<authoringVars, runtimeVars, interviewVars, bankVars, redisVars, pgVars, seedVars, viewVars>>

consoleVars ==
  <<part, authoringVars, runtimeVars, interviewVars, bankVars, redisVars, pgVars, seedVars, viewVars, panelVars>>
ConsoleSpec == ConsoleInit /\ [][ConsoleNext]_consoleVars
-----------------------------------------------------------------------------
\* A database that the console has made is what its files say of it: a postgres cluster whichever
\* standbys, failovers and crashes it has had, and its rows are the seed entries asked for.
DatabasesHold == (part = "postgres" => PostgresHolds) /\ (part = "seeds" => SeedsHold)

\* The browser shows what the server has: the diagram the manifest and the figures of its nodes, and
\* the interview panel the transcript.
ShownHolds == (part = "views" => ViewsHold) /\ (part = "chat" => PanelAgrees)
=============================================================================
