------------------------------ MODULE GrpcBank ------------------------------
(***************************************************************************)
(* The gRPC contracts of a system (server/grpc.js, grpcProto.js,            *)
(* grpcInstall.js) and the services that serve and call them: the registry  *)
(* _registry.json, the .proto files, and the grpc blocks of manifest.json.  *)
(*                                                                         *)
(* A contract made in the form has its text regenerated from the registry   *)
(* at every edit; into one that was uploaded an edit is spliced.  Either    *)
(* way the server generates the bindings in a container, between loading    *)
(* the registry and writing it.  The custom service types bring contracts   *)
(* of their own.  A method's request stands for its reply too.              *)
(***************************************************************************)
EXTENDS Naturals, FiniteSets, SequencesExt

CONSTANTS
  Contract, Method, Field,
  Keyword,      \* fields called as a word of the proto language, `message`
  Service,
  Brought,      \* the contract that the custom types bring
  MaxWaiting,   \* bound: requests whose bindings are generated at a time
  BankScopes    \* what a behaviour begins with, what it is about, and how many requests it has

ASSUME FieldsFinite == IsFiniteSet(Field)

VARIABLES
  bank,     \* the registry: per contract its source and methods
  protos,   \* the .proto files: the rpcs, their message types and the messages
  nodes,    \* the services there are, and their grpc blocks:
  serves,   \*   the <<service, contract>> pairs served
  dials,    \*   and the <<service, contract, target>> called
  waiting,  \* requests awaiting the bindings, with what they loaded
  told,     \* history: the methods that have been described
  bound,    \* history: the field numbers given, while their message lives
  slips,    \* history: what has gone wrong
  about, left

grpcFiles == <<bank, protos, nodes, serves, dials>>
bankVars == <<grpcFiles, waiting, told, bound, slips, about, left>>

Ask == left > 0 /\ left' = left - 1
Wait(r) == Cardinality(waiting) < MaxWaiting /\ waiting' = waiting \union {r}
Put1(f, k, v) == [x \in DOMAIN f \union {k} |-> IF x = k THEN v ELSE f[x]]
Minus(f, K) == [x \in DOMAIN f \ K |-> f[x]]

-----------------------------------------------------------------------------
(* The text of a contract. *)

Blank == [numbers |-> <<>>, reserved |-> {}]

\* A message that has a word of the language in it counts as one that nests
\* others, and shows none of its fields.
Parsed(msg) == IF DOMAIN msg.numbers \intersect Keyword = {} THEN msg ELSE [msg EXCEPT !.numbers = <<>>]

Largest(S) == IF S = {} THEN 0 ELSE CHOOSE n \in S : \A o \in S : o <= n

\* Mutant of BuildMessage: a removed field's number is free again.
BuildMessageAnew(fields, old) ==
  LET prev == Parsed(old)
      fresh == SetToSeq(fields \ DOMAIN prev.numbers)
      kept == {prev.numbers[f] : f \in DOMAIN prev.numbers \intersect fields}
  IN [reserved |-> {},
      numbers |-> [f \in fields |->
        IF f \in DOMAIN prev.numbers THEN prev.numbers[f]
        ELSE Largest(kept) + CHOOSE i \in DOMAIN fresh : fresh[i] = f]]

\* Fields keep their numbers, and those of removed ones are reserved.
BuildMessage(fields, old) ==
  LET prev == Parsed(old)
      fresh == SetToSeq(fields \ DOMAIN prev.numbers)
      used == {prev.numbers[f] : f \in DOMAIN prev.numbers} \union prev.reserved
  IN [reserved |-> prev.reserved \union {prev.numbers[f] : f \in DOMAIN prev.numbers \ fields},
      numbers |-> [f \in fields |->
        IF f \in DOMAIN prev.numbers THEN prev.numbers[f]
        ELSE Largest(used) + CHOOSE i \in DOMAIN fresh : fresh[i] = f]]

NoText == [type |-> <<>>, messages |-> <<>>]
TextOf(c) == IF c \in DOMAIN protos THEN protos[c] ELSE NoText
Old(text, t) == IF t \in DOMAIN text.messages THEN text.messages[t] ELSE Blank

\* A form contract's text: a message per method, and no others.
Synthesized(methods, old) ==
  [type |-> [m \in DOMAIN methods |-> m],
   messages |-> [m \in DOMAIN methods |-> BuildMessage(methods[m].fields, Old(old, m))]]

\* The messages of edited methods go, if no other method has them.
Rebuilt(old, gone, edits) ==
  LET surviving == {old.type[m] : m \in DOMAIN old.type \ gone}
  IN {old.type[m] : m \in DOMAIN edits \intersect DOMAIN old.type} \ surviving

\* A deleted method leaves its messages, which nothing may be called after.
Collides(old, edits, deletes) ==
  DOMAIN edits \intersect (DOMAIN old.messages \ Rebuilt(old, deletes \union DOMAIN edits, edits)) # {}

Spliced(old, edits, deletes) ==
  LET rebuilt == Rebuilt(old, deletes \union DOMAIN edits, edits)
      rest == DOMAIN old.messages \ rebuilt
  IN [type |-> [m \in (DOMAIN old.type \ deletes) \union DOMAIN edits |->
                  IF m \in DOMAIN edits THEN m ELSE old.type[m]],
      messages |-> [t \in rest \union DOMAIN edits |->
                  IF t \in rest THEN old.messages[t]
                  ELSE BuildMessage(edits[t], IF t \in rebuilt THEN old.messages[t] ELSE Blank)]]

\* Texts that may be uploaded: one service, with methods, which may share types.
Uploaded(f) ==
  [type |-> f, messages |-> [t \in {f[m] : m \in DOMAIN f} |->
                              [numbers |-> [x \in {CHOOSE y \in Field \ Keyword : TRUE} |-> 2], reserved |-> {}]]]
Uploads == {Uploaded(f) : f \in UNION {[M -> Method] : M \in SUBSET Method \ {{}}}}

-----------------------------------------------------------------------------
(* Creating and editing. *)

Entry(source, methods) == [source |-> source, methods |-> methods]
FormMethod(fields) == [fields |-> fields, locked |-> FALSE, said |-> FALSE]
\* The methods of a text are the author's own: the form shows them, locked.
AuthorsOwn(text, said) == [m \in DOMAIN text.type |-> [fields |-> {}, locked |-> TRUE, said |-> m \in said]]
Said(e) == {m \in DOMAIN e.methods : e.methods[m].said}
Shapes == SUBSET Field \ {{}}

NumbersOf(c, t, msg) == {<<c, t, msg.numbers[f], f>> : f \in DOMAIN msg.numbers}
Numbers(c, text) == UNION {NumbersOf(c, t, text.messages[t]) : t \in DOMAIN text.messages}

\* What the registry is to be for c, with the text it goes with, and the messages
\* of the former text that it goes on with.
Change(c, e, text, kept) == [contract |-> c, entry |-> e, text |-> text, kept |-> kept]

Single(m, x) == [n \in {m} |-> x]
FormCreations(c) ==
  {Change(c, Entry("form", methods), Synthesized(methods, NoText), {}) :
     methods \in {Single(m, FormMethod(fs)) : m \in Method, fs \in Shapes}}
Creations(c) == FormCreations(c) \union {Change(c, Entry("upload", AuthorsOwn(u, {})), u, {}) : u \in Uploads}

\* The form stages one edit or more per contract (one here) and any deletions.
\* It locks the methods of a text, and so does the server.
Edited(c, edits, deletes) ==
  LET e == bank[c]
      methods == [m \in (DOMAIN e.methods \ deletes) \union DOMAIN edits |->
                    IF m \notin DOMAIN edits THEN e.methods[m]
                    ELSE [FormMethod(edits[m]) EXCEPT !.said = m \in Said(e)]]
      old == TextOf(c)
      text == IF e.source = "form" THEN Synthesized(methods, old) ELSE Spliced(old, edits, deletes)
  IN Change(c, [e EXCEPT !.methods = methods], text, DOMAIN old.messages \intersect DOMAIN text.messages)

Editable(c) == {m \in Method : m \in DOMAIN bank[c].methods => ~bank[c].methods[m].locked}
Ones(c) == {<<>>} \union {Single(m, fs) : m \in Editable(c), fs \in Shapes}

Edits(c) ==
  LET e == bank[c]
  IN {Edited(c, x[1], x[2]) : x \in
        {y \in Ones(c) \X SUBSET DOMAIN e.methods :
           /\ DOMAIN y[1] \union y[2] # {} /\ DOMAIN y[1] \intersect y[2] = {}
           /\ DOMAIN y[1] \union (DOMAIN e.methods \ y[2]) # {}
           /\ e.source # "form" => c \in DOMAIN protos /\ ~Collides(protos[c], y[1], y[2])}}

Replacements(c) == {Change(c, Entry("upload", AuthorsOwn(u, Said(bank[c]))), u, {}) : u \in Uploads}

\* The bindings are generated before anything is written.
Generate(change, deletes) ==
  /\ Wait([op |-> "bind", id |-> left, change |-> change, deletes |-> deletes, bank |-> bank, protos |-> protos])
  /\ UNCHANGED <<grpcFiles, told, bound, slips>>

CreateContract(c) ==
  /\ Ask /\ c \notin DOMAIN bank
  /\ \E ch \in Creations(c) : Generate(ch, {})

ApplyChanges(c, deletes) ==
  /\ Ask /\ c \in DOMAIN bank \ deletes
  /\ \E ch \in Edits(c) \union Replacements(c) : Generate(ch, deletes)

\* Deleted contracts go from the registry, the disk and every grpc block.
Scrub(deletes) ==
  /\ serves' = {x \in serves : x[2] \notin deletes}
  /\ dials' = {x \in dials : x[2] \notin deletes}

\* An uploaded text makes a contract an uploaded one, whatever type brought it.
Retypes(b, change) ==
  change.contract \in DOMAIN b /\ b[change.contract].source # change.entry.source
                              /\ b[change.contract].source # "form"

\* Texts first, then the registry as it was loaded.
Generated(r) ==
  LET c == r.change.contract
      text == r.change.text
  IN /\ r.op = "bind" /\ waiting' = waiting \ {r}
     /\ bank' = Minus(Put1(r.bank, c, r.change.entry), r.deletes)
     /\ protos' = Minus(Put1(protos, c, text), r.deletes)
     /\ Scrub(r.deletes)
     /\ told' = {x \in told : x[1] \in DOMAIN bank' /\ x[2] \in DOMAIN bank'[x[1]].methods}
     /\ bound' = {b \in bound : b[1] \notin r.deletes /\ (b[1] = c => b[2] \in r.change.kept)} \union Numbers(c, text)
     /\ slips' = slips \union (IF <<bank, protos>> # <<r.bank, r.protos>> THEN {"lost"} ELSE {})
                       \union (IF ~Retypes(r.bank, r.change) THEN {} ELSE {"retyped"})
     /\ UNCHANGED <<nodes, left>>

\* It does not compile, or docker is not there.
GenerateFails(r) ==
  /\ r.op = "bind" /\ waiting' = waiting \ {r}
  /\ UNCHANGED <<grpcFiles, told, bound, slips, left>>

DeleteContracts(deletes) ==
  /\ Ask /\ deletes # {} /\ deletes \subseteq DOMAIN bank
  /\ bank' = Minus(bank, deletes) /\ protos' = Minus(protos, deletes)
  /\ Scrub(deletes)
  /\ told' = {x \in told : x[1] \notin deletes}
  /\ bound' = {b \in bound : b[1] \notin deletes}
  /\ UNCHANGED <<nodes, waiting, slips>>

-----------------------------------------------------------------------------
(* Serving and calling. *)

Tell(c, ms) ==
  /\ bank' = [bank EXCEPT ![c].methods = [m \in DOMAIN @ |-> IF m \in ms THEN [@[m] EXCEPT !.said = TRUE] ELSE @[m]]]
  /\ told' = told \union ({c} \X ms)

\* Who else serves a contract.
Servers(c, s) == {n \in nodes \ {s} : <<n, c>> \in serves}

AttachContract(s, c) ==
  /\ Ask /\ s \in nodes /\ c \in DOMAIN bank /\ Servers(c, s) = {}
  /\ serves' = serves \union {<<s, c>>}
  /\ \E ms \in SUBSET DOMAIN bank[c].methods : Tell(c, ms)
  /\ UNCHANGED <<protos, nodes, dials, waiting, bound, slips>>

DetachContract(s, c) ==
  /\ Ask /\ <<s, c>> \in serves
  /\ \A n \in nodes \ {s} : <<n, c, s>> \notin dials
  /\ serves' = serves \ {<<s, c>>}
  /\ UNCHANGED <<bank, protos, nodes, dials, waiting, told, bound, slips>>

DescribeMethod(c, m) ==
  /\ Ask /\ c \in DOMAIN bank /\ m \in DOMAIN bank[c].methods
  /\ Tell(c, {m})
  /\ UNCHANGED <<protos, nodes, serves, dials, waiting, bound, slips>>

\* A session wires a caller to a service that serves the contract.
WireClient(n, c, s) ==
  /\ Ask /\ n \in nodes \ {s} /\ <<s, c>> \in serves
  /\ dials' = dials \union {<<n, c, s>>}
  /\ UNCHANGED <<bank, protos, nodes, serves, waiting, told, bound, slips>>

\* A service that others call is not deleted; its contracts stay in the bank.
RemoveService(s) ==
  /\ Ask /\ s \in nodes /\ \A x \in dials : x[3] = s => x[1] = s
  /\ nodes' = nodes \ {s}
  /\ serves' = {x \in serves : x[1] # s} /\ dials' = {x \in dials : s \notin {x[1], x[3]}}
  /\ UNCHANGED <<bank, protos, waiting, told, bound, slips>>

-----------------------------------------------------------------------------
(* Custom types. *)

BroughtText ==
  LET m == CHOOSE x \in Method : TRUE
  IN [type |-> [x \in {m} |-> m], messages |-> [x \in {m} |-> Blank]]

\* A custom service: its contract is written, over whatever one of that name there
\* is, and the bindings are awaited.  The llm worker looks for one that is not its
\* own, the download coordinator for none.
AddCustom(n, type) ==
  /\ Ask /\ n \in Service \ nodes
  /\ type = "llm" /\ Brought \in DOMAIN bank => bank[Brought].source = "llm"
  /\ bank' = Put1(bank, Brought, Entry(type, AuthorsOwn(BroughtText, {})))
  /\ protos' = Put1(protos, Brought, BroughtText)
  /\ bound' = {b \in bound : b[1] # Brought}
  /\ slips' = IF Brought \in DOMAIN bank /\ bank[Brought] # bank'[Brought] THEN slips \union {"overwritten"} ELSE slips
  /\ Wait([op |-> "custom", id |-> left, node |-> n, type |-> type, nodes |-> nodes, serves |-> serves, dials |-> dials])
  /\ UNCHANGED <<nodes, serves, dials, told>>

\* Then the node, into the manifest that was loaded before.
CustomAdded(r) ==
  /\ r.op = "custom" /\ waiting' = waiting \ {r}
  /\ nodes' = r.nodes \union {r.node}
  /\ serves' = r.serves \union {<<r.node, Brought>>} /\ dials' = r.dials
  /\ slips' = slips \union (IF <<r.nodes, r.serves, r.dials>> # <<nodes, serves, dials>> THEN {"lost"} ELSE {})
                   \union (IF Brought \in DOMAIN bank /\ bank[Brought].source = r.type THEN {} ELSE {"overtaken"})
  /\ UNCHANGED <<bank, protos, told, bound, left>>

\* The contract stays.
CustomFails(r) ==
  /\ r.op = "custom" /\ waiting' = waiting \ {r}
  /\ UNCHANGED <<grpcFiles, told, bound, slips, left>>

\* An instance of an llm worker, or a worker of the download coordinator, which calls it.
AddMember(n, b, calls) ==
  /\ Ask /\ n \in Service \ nodes /\ <<b, Brought>> \in serves
  /\ Brought \in DOMAIN bank /\ bank[Brought].source = (IF calls THEN "coordinator" ELSE "llm")
  /\ nodes' = nodes \union {n}
  /\ serves' = serves \union {<<n, Brought>>}
  /\ dials' = IF calls THEN dials \union {<<n, Brought, b>>} ELSE dials
  /\ UNCHANGED <<bank, protos, waiting, told, bound, slips>>

-----------------------------------------------------------------------------
BankInit ==
  \E x \in BankScopes :
    /\ about = x.about /\ left = x.requests /\ nodes = x.nodes
    /\ bank = [c \in x.has |-> Entry("form", [m \in Method |-> FormMethod(Field \ Keyword)])]
    /\ protos = [c \in x.has |-> Synthesized(bank[c].methods, NoText)]
    /\ serves = {} /\ dials = {} /\ waiting = {} /\ told = {} /\ slips = {}
    /\ bound = UNION {Numbers(c, protos[c]) : c \in x.has}

BankNext ==
  /\ UNCHANGED about
  /\ \/ \E D \in SUBSET Contract : DeleteContracts(D)
     \/ /\ "texts" \in about
        /\ \/ \E c \in Contract, D \in SUBSET Contract : ApplyChanges(c, D)
           \/ \E c \in Contract : CreateContract(c)
           \/ \E c \in Contract, m \in Method : DescribeMethod(c, m)
     \/ /\ "wiring" \in about
        /\ \/ \E s \in Service, c \in Contract : AttachContract(s, c) \/ DetachContract(s, c)
           \/ \E n \in Service, x \in serves : WireClient(n, x[2], x[1])
           \/ \E s \in Service : RemoveService(s)
     \/ /\ "customs" \in about
        /\ \/ \E n \in Service, type \in {"llm", "coordinator"} : AddCustom(n, type)
           \/ \E n, b \in Service, calls \in BOOLEAN : AddMember(n, b, calls)
     \/ \E r \in waiting : Generated(r) \/ GenerateFails(r) \/ CustomAdded(r) \/ CustomFails(r)

BankSpec == BankInit /\ [][BankNext]_bankVars
-----------------------------------------------------------------------------
\* The registry, the texts and the manifest tell of the same contracts and methods.
TextsAgree ==
  /\ DOMAIN bank = DOMAIN protos
  /\ \A c \in DOMAIN bank :
       /\ DOMAIN bank[c].methods = DOMAIN protos[c].type
       /\ \A m \in DOMAIN bank[c].methods : ~bank[c].methods[m].locked =>
            bank[c].methods[m].fields = DOMAIN protos[c].messages[protos[c].type[m]].numbers
  /\ \A x \in serves : x[1] \in nodes /\ x[2] \in DOMAIN bank
  /\ \A x \in dials : x[1] \in nodes /\ <<x[3], x[2]>> \in serves

\* A number once given means the same field as long as the message lives, unless
\* the message has had a field that the parser takes for a nested message.
NumbersKept ==
  \A b, d \in bound : b[1] = d[1] /\ b[2] = d[2] /\ b[3] = d[3] /\ b[4] # d[4] =>
    \E e \in bound : e[1] = b[1] /\ e[2] = b[2] /\ e[4] \in Keyword

\* Whatever is edited, uploaded, attached and deleted, in whatever order: the files
\* agree, numbers keep their meaning, a description outlives every edit of its
\* contract, and a contract has one server, unless a custom type brought it.
\* Excepted are writes from an older load, a contract that a custom type wrote
\* over, one deleted while its custom service was being added and, of the servers,
\* one whose text was replaced by an uploaded one after a custom type brought it.
ContractsHold ==
  slips \intersect {"lost", "overtaken"} = {} =>
    /\ TextsAgree /\ NumbersKept
    /\ "overwritten" \notin slips => \A x \in told : bank[x[1]].methods[x[2]].said
    /\ slips \intersect {"overwritten", "retyped"} = {} =>
         \A c \in DOMAIN bank : bank[c].source \in {"form", "upload"} =>
           \A n \in nodes : <<n, c>> \in serves => Servers(c, n) = {}
=============================================================================
