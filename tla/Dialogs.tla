------------------------------ MODULE Dialogs ------------------------------
(***************************************************************************)
(* What each dialog that authors code may save.  A save is a change of the  *)
(* registry (and of the flags and the code that the server changes with     *)
(* it), and a task for a Claude session, or none.  The rules for when there  *)
(* is a session differ from dialog to dialog, and are all here:              *)
(*   endpoint      EndpointsModal          a service's routes                *)
(*   consumer      ConsumerTab             a stream's consumer functions     *)
(*   registration  EtcdKeyspacesTab        services registered with etcd     *)
(*   listener      ServiceSubscribersTab   and those that listen             *)
(*   function      ClientScenarioTab       a client's functions              *)
(*   process       EndToEndModal           end-to-end processes, their runs  *)
(*   method        WsSharedMethodsModal    the websocket tier's hooks        *)
(*   contract      GrpcContractsModal, GrpcServiceModal                      *)
(*   policy        ConnectionResilienceModal, a service's connections        *)
(*   topology      RedisTopologyTab, PgTopologyTab                           *)
(*   schema        EventStreamModal        a topic's message schema          *)
(*   model         ModelsModal             the model bank                    *)
(*   tables        CreateDatabase, DbSchema                                  *)
(*   capture       DbCdc                   a database's capture worker       *)
(* A key stands for what names a record: a path, a function, a database.     *)
(***************************************************************************)
EXTENDS EditQueue

CONSTANTS Key,
          InUse   \* the keys whose databases, topics and models code already uses

VARIABLES
  kind,    \* the kind of record the behaviour is about
  record,  \* the registry
  code,    \* the keys that the code has, and the conversation that wrote each
  marked,  \* the records the sessions have flagged `implemented`
  dialog,  \* the open dialog and its request
  run      \* the end-to-end run the server believes under way

Kind ==
  {"endpoint", "consumer", "registration", "listener", "function", "process", "method", "contract", "policy",
   "topology", "schema", "model", "tables", "capture"}

Shared == None   \* what the code of several keys needs: a policy's wrapper module

Flagged == {"consumer", "registration", "listener"}   \* kinds whose records carry `implemented`

\* A record names the conversation to resume and the one whose text it holds;
\* it is wired if there is to be code for it.
Record(conv, spec, wired) == [conv |-> conv, spec |-> spec, wired |-> wired]
Authored(c) == Record(c, c, TRUE)

Put(k, r) == [x \in DOMAIN record \union {k} |-> IF x = k THEN r ELSE record[x]]
Less(k) == [x \in DOMAIN record \ {k} |-> record[x]]
Renamed(k, to, r) == [x \in (DOMAIN record \ {k}) \union {to} |-> IF x = to THEN r ELSE record[x]]

\* What a session is asked: the keys it is to drop and to write, the text it
\* writes (None: what is there already), and what it expects to find.
Task(drop, write, by, needs) == [drop |-> drop, write |-> write, by |-> by, needs |-> needs, runs |-> {}]
Quiet == Task({}, {}, None, {})
Write(k, c) == Task({}, {k}, c, {})
Move(k, to, c) == Task({k}, {to}, c, {k})
Drop(k) == Task({k}, {}, None, {})
Run(k) == [Quiet EXCEPT !.runs = {k}]

Save(rec, flags, task) ==
  [record |-> rec, marked |-> flags, code |-> code, launch |-> task # Quiet, task |-> task]
Authors(K, c) == {Save(Put(k, Authored(c)), marked, Write(k, c)) : k \in K}
\* Whether there is code to drop is answered by the server, by the flag.
DropsByFlag == {Save(Less(k), marked \ {k}, IF k \in marked THEN Drop(k) ELSE Quiet) : k \in DOMAIN record}
\* The text changes, and code that uses it is to follow, if there is any.
Declares(K, c) ==
  {Save(Put(k, Record(None, c, k \in InUse)), marked, IF k \in InUse THEN Write(k, c) ELSE Quiet) : k \in K}

-----------------------------------------------------------------------------
\* The list shows what the registry has and the routes the running services
\* report, which are `live`: none while the service is rebuilt or down.
EndpointsListed == DOMAIN record \union dialog.listed

EndpointSaves(c) == Authors(Key, c)

\* Mutant of EndpointRenames: the session is for routes flagged as built.
EndpointRenamesMarked(c) ==
  {Save(Renamed(k, to, Authored(c)), marked,
        IF k \in marked THEN Move(k, to, c) ELSE Quiet) : k \in DOMAIN record, to \in Key \ DOMAIN record}

\* Another path is a session's; another alias is the registry's alone.
EndpointRenames(c) ==
  {Save(Renamed(k, to, Authored(c)), marked, Move(k, to, c)) : k \in DOMAIN record, to \in Key \ DOMAIN record}
EndpointAliases(c) == {Save(Put(k, [record[k] EXCEPT !.conv = c]), marked, Quiet) : k \in DOMAIN record}

\* Whether there is code to drop goes by the list as the dialog shows it.
EndpointDeletes ==
  {Save(Less(k), marked, IF k \in dialog.listed THEN Drop(k) ELSE Quiet) : k \in EndpointsListed}

-----------------------------------------------------------------------------
\* A new function has its service created with it; another description is the
\* registry's alone.
ConsumerSaves(c) ==
  Authors(Key, c) \union {Save(Put(k, [record[k] EXCEPT !.conv = c]), marked, Quiet) : k \in DOMAIN record}

ConsumerRenames ==
  {Save(Renamed(k, to, record[k]),
        IF k \in marked THEN (marked \ {k}) \union {to} ELSE marked,
        IF k \in marked THEN Move(k, to, None) ELSE Quiet) : k \in DOMAIN record, to \in Key \ DOMAIN record}

ConsumerDeletes == DropsByFlag

RegistrationSaves(c) == Authors(Key \ DOMAIN record, c)
RegistrationDeletes == DropsByFlag

ListenerAdds(c) == Authors(Key \ DOMAIN record, c)
ListenerEdits(c) == Authors(DOMAIN record, c)
ListenerDeletes == DropsByFlag

-----------------------------------------------------------------------------
FunctionSaves(c) == Authors(Key, c)
\* The client's script is left as it is.
FunctionDeletes == {Save(Less(k), marked, Quiet) : k \in DOMAIN record}

NoRun == [key |-> None, owner |-> None]
RunningNow == IF run = NoRun THEN {} ELSE {run.key}
ProcessSaves == {Save(Put(k, Record(None, None, FALSE)), marked, Quiet) : k \in Key \ RunningNow}
ProcessDeletes == {Save(Less(k), marked, Quiet) : k \in DOMAIN record \ RunningNow}
ProcessStarts == IF run = NoRun THEN {Save(record, marked, Run(k)) : k \in DOMAIN record} ELSE {}

\* What a method has is added to, and the session is given all of it.
MethodSaves(c) == Authors(Key, c)

-----------------------------------------------------------------------------
\* A contract that nobody serves is text only.
ContractCreates(c) == {Save(Put(k, Record(None, c, FALSE)), marked, Quiet) : k \in Key \ DOMAIN record}

\* The staged changes, edits and deletions, are applied at once, and one
\* session carries them to the services the server says are affected.
ContractConfirms(c) ==
  LET Wired(K) == {k \in K : record[k].wired}
      Confirm(E, D) ==
        Save([k \in DOMAIN record \ D |-> IF k \in E THEN [record[k] EXCEPT !.spec = c] ELSE record[k]], marked,
             Task(Wired(D), Wired(E), IF Wired(E) = {} THEN None ELSE c, {}))
  IN {Confirm(p[1], p[2]) : p \in {q \in (SUBSET DOMAIN record) \X (SUBSET DOMAIN record) :
                                     q[1] \intersect q[2] = {} /\ q[1] \union q[2] # {}}}

ContractAttaches(c) ==
  {Save(Put(k, Record(c, record[k].spec, TRUE)), marked, Write(k, record[k].spec)) :
     k \in {x \in DOMAIN record : ~record[x].wired}}
ContractDescribes(c) ==
  {Save(Put(k, Authored(c)), marked, Write(k, c)) : k \in {x \in DOMAIN record : record[x].wired}}
ContractDetaches ==
  {Save(Put(k, [record[k] EXCEPT !.wired = FALSE]), marked, Drop(k)) : k \in {x \in DOMAIN record : record[x].wired}}

-----------------------------------------------------------------------------
\* The first policy of a service brings the wrapper module; that it is the
\* first is told from the manifest.
PolicySaves(c) ==
  {Save(Put(k, Record(None, c, TRUE)), marked,
        IF DOMAIN record = {} THEN Task({}, {k, Shared}, c, {}) ELSE Task({}, {k}, c, {Shared})) : k \in Key}

\* The containers are rearranged by the server; the code that talks to them is
\* the session's, where there is any.
RedisApplies(c) == Declares(Key, c)
PostgresApplies(c) == Declares(Key, c)

\* A topic that has producers or consumers, and whose schema is enforced, needs
\* code; relaxing it again is the registry's alone.
SchemaSaves(c) ==
  Declares(Key, c) \union {Save(Put(k, Record(None, None, FALSE)), marked, Quiet) : k \in Key}

ModelCreates(c) == {Save(Put(k, Record(None, c, FALSE)), marked, Quiet) : k \in Key \ DOMAIN record}
\* The staged edits, with one session for what uses any of the models.
ModelConfirms(c) ==
  {Save([k \in DOMAIN record |-> IF k \in E THEN Record(None, c, k \in InUse) ELSE record[k]], marked,
        IF E \intersect InUse = {} THEN Quiet ELSE Task({}, E \intersect InUse, c, {})) :
     E \in SUBSET DOMAIN record \ {{}}}
ModelDeletes == {Save(Less(k), marked, Quiet) : k \in DOMAIN record \ InUse}

TablesCreated(c) == {Save(Put(k, Record(None, c, TRUE)), marked, Write(k, c)) : k \in Key \ DOMAIN record}
TablesApplied(c) == {Save(Put(k, Record(None, c, TRUE)), marked, Write(k, c)) : k \in DOMAIN record}

\* The first rule has the worker written, which reads the others by itself; the
\* server drops the worker and its code with the last one.
CaptureAdds(c) ==
  {IF k \in DOMAIN record THEN Save(record, marked, Quiet)
   ELSE Save(Put(k, Record(None, c, TRUE)), marked, Write(k, c)) : k \in Key}
CaptureRemoves ==
  {[Save(Less(k), marked, Quiet) EXCEPT !.code = [x \in DOMAIN code \ {k} |-> code[x]]] : k \in DOMAIN record}

-----------------------------------------------------------------------------
Saves(c) ==
  CASE kind = "endpoint" -> EndpointSaves(c) \union EndpointRenames(c) \union EndpointAliases(c) \union EndpointDeletes
    [] kind = "consumer" -> ConsumerSaves(c) \union ConsumerRenames \union ConsumerDeletes
    [] kind = "registration" -> RegistrationSaves(c) \union RegistrationDeletes
    [] kind = "listener" -> ListenerAdds(c) \union ListenerEdits(c) \union ListenerDeletes
    [] kind = "function" -> FunctionSaves(c) \union FunctionDeletes
    [] kind = "process" -> ProcessSaves \union ProcessDeletes \union ProcessStarts
    [] kind = "method" -> MethodSaves(c)
    [] kind = "contract" -> ContractCreates(c) \union ContractConfirms(c) \union ContractAttaches(c)
                              \union ContractDescribes(c) \union ContractDetaches
    [] kind = "policy" -> PolicySaves(c)
    [] kind = "topology" -> RedisApplies(c) \union PostgresApplies(c)
    [] kind = "schema" -> SchemaSaves(c)
    [] kind = "model" -> ModelCreates(c) \union ModelConfirms(c) \union ModelDeletes
    [] kind = "tables" -> TablesCreated(c) \union TablesApplied(c)
    [] kind = "capture" -> CaptureAdds(c) \union CaptureRemoves
=============================================================================
