---------------------------- MODULE MCSystemEdit ----------------------------
EXTENDS SystemEdit

\* Ids are strings, as a derived id is another id and a suffix.
MCSub(a, b) == a \o "-" \o b
MCOrdinals == <<"1", "2", "3">>
Derived == {"a-scaler", "a-1", "a-2", "a-3", "a-exporter", "a-init", "a-cdc", "a-1-exporter",
            "a-2-exporter", "b-exporter", "b-init", "k-exporter", "k-init", "k-1", "k-2", "k-3",
            "a-stream", "a-stream-exporter", "k-w1", "k-w2", "b-1", "b-1-exporter",
            "u-lb", "u-client", "u-server-1", "u-server-2", "u-bus", "u-bus-exporter",
            "u-presence", "u-presence-exporter", "ws-shared"}
MCChosen == {"a", "b", "k", "u", "k-2", "k-init"}
MCName == MCChosen \union Derived

MCPath == {<<"x">>, <<"x", "y">>, <<"z">>}

NoSetup ==
  [session |-> {}, requests |-> 3, kind |-> <<>>, parent |-> <<>>, registry |-> NoRegistry, consumers |-> {},
   models |-> {}, endpoints |-> <<>>, scenarios |-> {}, processes |-> <<>>]

Fun(service, name, group) ==
  [service |-> service, name |-> name, cluster |-> "k", topic |-> "t", group |-> group]
Get(path, alias, internal) ==
  [method |-> "GET", path |-> path, alias |-> alias, models |-> {}, downstream |-> {}, internal |-> internal]
Call(f, service, path) == [fn |-> f, service |-> service, method |-> "GET", path |-> path]

\* A service that is registered and may be load balanced, and an etcd cluster.
Registered ==
  [NoSetup EXCEPT !.session = {"nodes", "etcd"}, !.requests = 4,
                  !.kind = [a |-> "service", k |-> "etcd"],
                  !.registry = [size |-> 1, keyspaces |-> {Discovery("a", {})}]]
\* Both with a role, and values in etcd.
Configured ==
  [NoSetup EXCEPT !.session = {"etcd", "values"},
                  !.kind = [a |-> "lb", b |-> "service", k |-> "etcd"]
                           @@ ("a-1" :> "instance") @@ ("a-2" :> "instance"),
                  !.parent = ("a-1" :> "a") @@ ("a-2" :> "a"),
                  !.registry = [size |-> 1, keyspaces |->
                    {Discovery("a", {"b"}), ConfigSpace("c", [y \in {"y"} |-> "1"])}]]
\* A consumer group and another service that consumes.
Grouped ==
  [NoSetup EXCEPT !.session = {"streams"},
                  !.kind = [a |-> "group", b |-> "service", k |-> "stream"]
                           @@ ("a-scaler" :> "scaler") @@ ("a-2" :> "instance"),
                  !.parent = ("a-scaler" :> "a") @@ ("a-2" :> "a"),
                  !.consumers = {Fun("a", "f", "b-g"), Fun("b", "f", "b-f")}]
\* A service that consumes and may be load balanced.
Balanced ==
  [NoSetup EXCEPT !.session = {"nodes"}, !.requests = 5,
                  !.kind = [a |-> "service", k |-> "stream"],
                  !.consumers = {Fun("a", "f", "a-f")}]
\* Services that call each other, a bank of models, a topic with a schema.
Banked ==
  [NoSetup EXCEPT !.session = {"bank"},
                  !.kind = [a |-> "service", b |-> "external", k |-> "stream"],
                  !.models = {"M"},
                  !.endpoints = [a |-> {Get(<<"x">>, "f", FALSE)}]]
\* A client that calls a service.
Called ==
  [NoSetup EXCEPT !.session = {"calls", "processes"}, !.requests = 5,
                  !.kind = [a |-> "service", u |-> "client"],
                  !.endpoints = [a |-> {Get(<<"x">>, "f", TRUE), Get(<<"x", "y">>, "g", FALSE)}],
                  !.scenarios = {[client |-> "u", name |-> "f", steps |-> {Call("f", "a", <<"x">>)}]}]
\* A database, and two streams to capture it into.
Stored(engine) ==
  [NoSetup EXCEPT !.session = {"data"}, !.kind = [a |-> engine, b |-> "stream", k |-> "stream"]]

\* A worker with its stream and scaler, and a database with a replica.
Streamed ==
  [NoSetup EXCEPT !.session = {"customs"},
                  !.kind = [a |-> "llm", b |-> "mongo"] @@ ("a-scaler" :> "scaler")
                           @@ ("a-stream" :> "tokens") @@ ("b-1" :> "replica"),
                  !.parent = ("a-scaler" :> "a") @@ ("a-stream" :> "a") @@ ("b-1" :> "b")]
\* A service and a stream to connect.
Policied ==
  [NoSetup EXCEPT !.session = {"functions", "policies"}, !.requests = 4,
                  !.kind = [a |-> "service", b |-> "external", k |-> "stream"]]
Customs == [NoSetup EXCEPT !.session = {"customs"}]
Tiered == [NoSetup EXCEPT !.session = {"tier", "nodes"}]

MCSetups == {Streamed, Policied, Customs, Tiered, Registered, Configured, Grouped, Balanced, Banked, Called, Stored("mongo"), Stored("cassandra")}
=============================================================================
