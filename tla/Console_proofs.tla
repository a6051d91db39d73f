----------------------------- MODULE Console_proofs ----------------------------
(***************************************************************************)
(* Proofs about four parts of the console, and of the whole of it.          *)
(*                                                                         *)
(* Interview: at most one child works for the interview there is, in the    *)
(* interview's own conversation, for any number of conversations, turns and *)
(* overlapping requests.                                                    *)
(*                                                                         *)
(* GrpcBank: what the files of the gRPC contracts say agrees, a field       *)
(* number once given keeps its meaning, and a contract has one server.      *)
(*                                                                         *)
(* ConsoleViews: the diagram never falls behind the server's manifest and   *)
(* the figures of its nodes but by what is being asked for.                 *)
(*                                                                         *)
(* InterviewPanel: the chat of an interview shows its transcript, each line *)
(* once and in order, however answers, polls and streams overtake.          *)
(***************************************************************************)
EXTENDS MCConsole, Databases_proofs

-----------------------------------------------------------------------------
(* Interview. *)

RunningInterview ==
  [status : {"active", "ended"}, conv : Talk, started : BOOLEAN, said : SUBSET Talk, rows : SUBSET Talk]

RunningChild ==
  [conv : Talk, mode : {"new", "created", "resume"}, stopped : BOOLEAN, result : BOOLEAN]

\* Children are numbered as they are launched, so a number is never used again.
InterviewTypeOK ==
  /\ interview \in {NoInterview} \union RunningInterview
  /\ launched \in Nat
  /\ DOMAIN child \subseteq 1..launched
  /\ child \in [DOMAIN child -> RunningChild]
  /\ turn \in {0} \union DOMAIN child

\* Every child, a stopped one as well, is of the interview there is: this is what
\* keeps the late output of a stopped one out of another interview's registry.
InterviewInv ==
  /\ InterviewTypeOK
  /\ amiss = {} =>
       /\ Live \subseteq {turn}
       /\ \A i \in DOMAIN child : interview # NoInterview => child[i].conv = interview.conv
       /\ turn # 0 => UnderWay
       /\ interview # NoInterview =>
            /\ interview.said \union interview.rows \subseteq {interview.conv}
            /\ interview.started => interview.conv \in stored

-----------------------------------------------------------------------------
\* A record of an interview that there is, updated in one field.
LEMMA InterviewFields ==
  ASSUME InterviewTypeOK, interview # NoInterview
  PROVE  /\ interview.status \in {"active", "ended"} /\ interview.conv \in Talk
         /\ interview.started \in BOOLEAN
         /\ interview.said \subseteq Talk /\ interview.rows \subseteq Talk
         /\ interview \in RunningInterview
BY DEF InterviewTypeOK, RunningInterview

\* Launch numbers the child as no child before it, and leaves the others alone.
LEMMA ChildLaunched ==
  ASSUME InterviewTypeOK, NEW rest, NEW c \in RunningChild,
         DOMAIN rest \subseteq DOMAIN child, rest = [j \in DOMAIN rest |-> child[j]],
         Launch(rest, c)
  PROVE  /\ launched' = launched + 1 /\ turn' = launched'
         /\ launched' \notin DOMAIN child
         /\ DOMAIN child' = DOMAIN rest \union {launched'}
         /\ child'[launched'] = c
         /\ \A j \in DOMAIN rest : child'[j] = child[j]
         /\ child' \in [DOMAIN child' -> RunningChild]
         /\ DOMAIN child' \subseteq 1..launched'
<1>1. launched' = launched + 1 /\ turn' = launched' /\ child' = [j \in DOMAIN rest \union {launched'} |-> IF j = launched' THEN c ELSE rest[j]]
  BY DEF Launch
<1>2. launched \in Nat /\ launched' \notin DOMAIN child
  BY <1>1 DEF InterviewTypeOK
<1>4. DOMAIN child' = DOMAIN rest \union {launched'} /\ child'[launched'] = c
  BY <1>1
<1>5. \A j \in DOMAIN rest : child'[j] = child[j]
  BY <1>1, <1>2
<1>6. DOMAIN child' \subseteq 1..launched'
  BY <1>1, <1>2, <1>4 DEF InterviewTypeOK
<1>7. child' \in [DOMAIN child' -> RunningChild]
  BY <1>1, <1>4, <1>5 DEF InterviewTypeOK
<1> QED
  BY <1>1, <1>2, <1>4, <1>5, <1>6, <1>7

LEMMA InterviewInitial == InterviewInit => InterviewInv
BY DEF InterviewInit, InterviewInv, InterviewTypeOK, Live, NoInterview, RunningChild

LEMMA InterviewStep == InterviewInv /\ [InterviewNext]_interviewVars => InterviewInv'
<1> SUFFICES ASSUME InterviewInv, [InterviewNext]_interviewVars PROVE InterviewInv'
  OBVIOUS
<1> USE DEF InterviewInv, InterviewTypeOK
<1>1. ASSUME NEW how, Wipe(how) PROVE InterviewInv'
  BY <1>1 DEF Wipe, Live, UnderWay, NoInterview
<1>2. ASSUME Wiped PROVE InterviewInv'
  <2>1. CASE UNCHANGED <<interview, amiss>>
    BY <1>2, <2>1 DEF Wiped, Live, UnderWay
  <2>2. CASE ~UNCHANGED <<interview, amiss>>
    <3>1. PICK c \in Talk :
            interview' = [status |-> "active", conv |-> c, started |-> FALSE, said |-> {}, rows |-> {}]
      BY <1>2, <2>2 DEF Wiped
    <3>2. /\ interview' \in RunningInterview /\ UNCHANGED <<turn, child, launched, stored>>
          /\ UnderWay'
      BY <1>2, <3>1 DEF Wiped, RunningInterview, UnderWay
    <3>3. amiss' = {} => amiss = {} /\ DOMAIN child = {}
      BY <1>2, <2>2 DEF Wiped
    <3> QED
      BY <3>1, <3>2, <3>3 DEF Live
  <2> QED
    BY <2>1, <2>2
<1>3. ASSUME EndInterview PROVE InterviewInv'
  <2>1. interview # NoInterview
    BY <1>3 DEF EndInterview, UnderWay, NoInterview
  <2> QED
    BY <1>3, <2>1 DEF EndInterview, Live, RunningInterview, NoInterview
<1>4. ASSUME Message PROVE InterviewInv'
  <2> DEFINE c == Child(interview.conv, IF interview.started THEN "resume" ELSE "new")
  <2>1. interview # NoInterview /\ UNCHANGED <<interview, amiss, stored>>
    BY <1>4 DEF Message, UnderWay, NoInterview
  <2>2. c \in RunningChild /\ ~c.stopped /\ c.conv = interview.conv
    BY <2>1, InterviewFields DEF Child, RunningChild
  <2>3. Launch(child, c)
    BY <1>4 DEF Message
  <2> HIDE DEF c
  <2>4. /\ turn' = launched' /\ DOMAIN child' = DOMAIN child \union {launched'}
        /\ child'[launched'] = c /\ \A j \in DOMAIN child : child'[j] = child[j]
        /\ InterviewTypeOK'
    BY <2>1, <2>2, <2>3, ChildLaunched
  <2>5. turn = 0 /\ UnderWay
    BY <1>4 DEF Message
  <2>6. amiss = {} => Live = {}
    BY <2>5 DEF Live
  <2>7. amiss = {} => Live' \subseteq {turn'}
    BY <2>4, <2>6 DEF Live
  <2>8. amiss = {} => \A i \in DOMAIN child' : child'[i].conv = interview.conv
    BY <2>1, <2>2, <2>4
  <2> QED
    BY <2>1, <2>4, <2>5, <2>7, <2>8 DEF UnderWay
<1>5. ASSUME StopTurn PROVE InterviewInv'
  BY <1>5 DEF StopTurn, Live, UnderWay, RunningChild
<1>6. ASSUME RestartInterviews PROVE InterviewInv'
  BY <1>6 DEF RestartInterviews, Live, RunningChild
<1>7. ASSUME NEW i \in DOMAIN child, CreateConversation(i) PROVE InterviewInv'
  BY <1>7 DEF CreateConversation, Live, UnderWay, RunningChild
<1>8. ASSUME NEW i \in DOMAIN child, Say(i) PROVE InterviewInv'
  BY <1>8, InterviewFields DEF Say, Live, UnderWay, RunningChild, RunningInterview, NoInterview
<1>9. ASSUME NEW i \in DOMAIN child, Requirement(i) PROVE InterviewInv'
  BY <1>9, InterviewFields DEF Requirement, Live, UnderWay, RunningChild, RunningInterview, NoInterview
<1>10. ASSUME NEW i \in DOMAIN child, Result(i) PROVE InterviewInv'
  <2>1. child[i].conv \in stored
    BY <1>10 DEF Result, Conversing, Refused
  <2>2. /\ child' = [child EXCEPT ![i].result = TRUE]
        /\ UNCHANGED <<turn, launched, stored, amiss>>
        /\ interview' = IF interview = NoInterview THEN interview ELSE [interview EXCEPT !.started = TRUE]
    BY <1>10 DEF Result
  <2>3. /\ DOMAIN child' = DOMAIN child /\ child' \in [DOMAIN child -> RunningChild]
        /\ \A j \in DOMAIN child : child'[j].conv = child[j].conv /\ child'[j].stopped = child[j].stopped
    BY <2>2 DEF RunningChild
  <2>4. Live' = Live
    BY <2>3 DEF Live
  <2>5. CASE interview = NoInterview
    BY <2>2, <2>3, <2>4, <2>5 DEF UnderWay
  <2>6. CASE interview # NoInterview
    <3>1. /\ interview' \in RunningInterview /\ interview'.status = interview.status
          /\ interview'.conv = interview.conv
          /\ interview'.said = interview.said /\ interview'.rows = interview.rows
      BY <2>2, <2>6, InterviewFields DEF RunningInterview
    <3>2. amiss = {} => interview.conv \in stored
      BY <2>1, <2>6
    <3> QED
      BY <2>2, <2>3, <2>4, <2>6, <3>1, <3>2 DEF UnderWay
  <2> QED
    BY <2>5, <2>6
<1>11. ASSUME NEW i \in DOMAIN child, ExitChild(i) PROVE InterviewInv'
  BY <1>11 DEF ExitChild, Others, Live, UnderWay
<1>12. ASSUME NEW i \in DOMAIN child, Retry(i) PROVE InterviewInv'
  <2> DEFINE c == Child(child[i].conv, "resume")
  <2>1. c \in RunningChild /\ ~c.stopped /\ c.conv = child[i].conv
    BY DEF Child, RunningChild
  <2>2. Launch(Others(i), c) /\ UNCHANGED <<interview, stored>>
    BY <1>12 DEF Retry
  <2> HIDE DEF c
  <2>3. DOMAIN Others(i) = DOMAIN child \ {i} /\ Others(i) = [j \in DOMAIN Others(i) |-> child[j]]
    BY DEF Others
  <2>4. /\ turn' = launched' /\ DOMAIN child' = (DOMAIN child \ {i}) \union {launched'}
        /\ child'[launched'] = c /\ \A j \in DOMAIN child \ {i} : child'[j] = child[j]
        /\ InterviewTypeOK'
    BY <2>1, <2>2, <2>3, ChildLaunched
  <2>5. amiss' = {} => amiss = {} /\ ~child[i].stopped
    BY <1>12 DEF Retry
  <2>6. amiss' = {} => turn = i /\ i # 0
    BY <2>5 DEF Live
  <2>7. amiss' = {} => Live' \subseteq {turn'}
    BY <2>4, <2>5, <2>6 DEF Live
  <2>8. amiss' = {} => \A j \in DOMAIN child' : interview # NoInterview => child'[j].conv = interview.conv
    BY <2>1, <2>4, <2>5
  <2> QED
    BY <2>2, <2>4, <2>5, <2>6, <2>7, <2>8 DEF UnderWay
<1>13. CASE UNCHANGED interviewVars
  BY <1>13 DEF interviewVars, Live, UnderWay
<1> QED
  BY <1>1, <1>2, <1>3, <1>4, <1>5, <1>6, <1>7, <1>8, <1>9, <1>10, <1>11, <1>12, <1>13 DEF InterviewNext

\* One turn at a time works for the interview there is, its children speak in the interview's own
\* conversation, and a message to come finds that conversation (server/interview.js), however many
\* wipes overlap and however late a stopped child dies.
THEOREM OneConversationHolds == InterviewSpec => []OneConversation
<1>1. InterviewInv => OneConversation
  <2> SUFFICES ASSUME InterviewInv, amiss = {} PROVE OneConversation
    BY DEF OneConversation
  <2>1. 0 \notin DOMAIN child
    BY DEF InterviewInv, InterviewTypeOK
  <2>2. \A i \in Live : i = turn /\ turn # 0
    BY <2>1 DEF InterviewInv, Live
  <2>3. \A i \in Live : UnderWay /\ child[i].conv = interview.conv
    BY <2>2 DEF InterviewInv, Live, UnderWay, NoInterview
  <2> QED
    BY <2>2, <2>3 DEF InterviewInv, OneConversation
<1> QED
  BY InterviewInitial, InterviewStep, <1>1, PTL DEF InterviewSpec

-----------------------------------------------------------------------------
(* GrpcBank: the invariant. *)

\* A message as BuildMessage writes it, and one in which no number means two things.
MessageOK(msg) ==
  /\ msg = [numbers |-> msg.numbers, reserved |-> msg.reserved]
  /\ IsFiniteSet(DOMAIN msg.numbers) /\ \A f \in DOMAIN msg.numbers : msg.numbers[f] \in Nat
  /\ IsFiniteSet(msg.reserved) /\ msg.reserved \subseteq Nat
Unambiguous(msg) ==
  /\ \A f, g \in DOMAIN msg.numbers : msg.numbers[f] = msg.numbers[g] => f = g
  /\ \A f \in DOMAIN msg.numbers : msg.numbers[f] \notin msg.reserved

\* What may become of a message that lives: fields keep their numbers, those of removed ones are
\* reserved, and no other field gets a number that was ever used.
Grown(old, new) ==
  DOMAIN old.numbers \intersect Keyword = {} =>
    /\ \A f \in DOMAIN new.numbers \intersect DOMAIN old.numbers : new.numbers[f] = old.numbers[f]
    /\ old.reserved \subseteq new.reserved
    /\ \A f \in DOMAIN old.numbers \ DOMAIN new.numbers : old.numbers[f] \in new.reserved
    /\ \A f \in DOMAIN new.numbers \ DOMAIN old.numbers :
         new.numbers[f] \notin old.reserved /\ \A g \in DOMAIN old.numbers : new.numbers[f] # old.numbers[g]
    /\ Unambiguous(old) => Unambiguous(new)

TextOK(proto) ==
  /\ \A m \in DOMAIN proto.type : proto.type[m] \in DOMAIN proto.messages
  /\ \A t \in DOMAIN proto.messages : MessageOK(proto.messages[t])
MethodOK(x) == x = [fields |-> x.fields, locked |-> x.locked, said |-> x.said] /\ x.fields \in SUBSET Field
EntryOK(e) ==
  /\ e = [source |-> e.source, methods |-> e.methods]
  /\ \A m \in DOMAIN e.methods : MethodOK(e.methods[m])
Agree(e, proto) ==
  /\ DOMAIN e.methods = DOMAIN proto.type
  /\ \A m \in DOMAIN e.methods : ~e.methods[m].locked =>
       e.methods[m].fields = DOMAIN proto.messages[proto.type[m]].numbers

\* A change that was made from the registry b and the texts p, in which the contracts D go.
Fits(ch, b, p, D) ==
  LET c == ch.contract
      old == IF c \in DOMAIN p THEN p[c] ELSE NoText
  IN /\ c \notin D
     /\ EntryOK(ch.entry) /\ TextOK(ch.text) /\ Agree(ch.entry, ch.text)
     /\ ch.kept \subseteq DOMAIN old.messages \intersect DOMAIN ch.text.messages
     /\ \A t \in ch.kept : Grown(old.messages[t], ch.text.messages[t])
     /\ \A t \in DOMAIN ch.text.messages \ ch.kept : Unambiguous(ch.text.messages[t])
     /\ c \in DOMAIN b => \A m \in DOMAIN b[c].methods \intersect DOMAIN ch.entry.methods :
                            b[c].methods[m].said => ch.entry.methods[m].said

Files ==
  /\ DOMAIN bank = DOMAIN protos
  /\ \A c \in DOMAIN bank : EntryOK(bank[c]) /\ TextOK(protos[c]) /\ Agree(bank[c], protos[c])
Wires ==
  /\ \A s, c : <<s, c>> \in serves => s \in nodes /\ c \in DOMAIN bank
  /\ \A n, c, s : <<n, c, s>> \in dials => n \in nodes /\ n # s /\ <<s, c>> \in serves
  /\ \A x \in serves : x = <<x[1], x[2]>>
  /\ \A x \in dials : x = <<x[1], x[2], x[3]>>

\* The numbers given: those of a message that lives are in it or reserved, unless the parser
\* has taken one of its fields for a message.
Nests(c, t) == \E n, f : f \in Keyword /\ <<c, t, n, f>> \in bound
Accounts(c, t, msg) ==
  \A n, f : <<c, t, n, f>> \in bound => (f \in DOMAIN msg.numbers /\ msg.numbers[f] = n) \/ n \in msg.reserved
Given ==
  /\ \A b \in bound : b = <<b[1], b[2], b[3], b[4]>> /\ b[1] \in DOMAIN protos /\ b[2] \in DOMAIN protos[b[1]].messages
  /\ \A c \in DOMAIN protos : \A t \in DOMAIN protos[c].messages :
       LET msg == protos[c].messages[t]
       IN /\ \A f \in DOMAIN msg.numbers : <<c, t, msg.numbers[f], f>> \in bound
          /\ Nests(c, t) \/ (Accounts(c, t, msg) /\ Unambiguous(msg))
  /\ \A c, t, n, f, g : <<c, t, n, f>> \in bound /\ <<c, t, n, g>> \in bound => f = g \/ Nests(c, t)

Described ==
  "overwritten" \notin slips =>
    /\ \A c, m : <<c, m>> \in told =>
         c \in DOMAIN bank /\ m \in DOMAIN bank[c].methods /\ bank[c].methods[m].said
    /\ \A x \in told : x = <<x[1], x[2]>>
OneServer ==
  slips \intersect {"overwritten", "retyped"} = {} =>
    \A c \in DOMAIN bank : bank[c].source \in {"form", "upload"} =>
      \A n, o : <<n, c>> \in serves /\ <<o, c>> \in serves => n = o

Awaited ==
  \A r \in waiting :
    /\ r.op = "bind" => Fits(r.change, r.bank, r.protos, r.deletes)
    /\ r.op = "custom" => r.type \in {"llm", "coordinator"}
Good == Files /\ Wires /\ Given /\ Described /\ OneServer /\ Awaited
Fine == slips \intersect {"lost", "overtaken"} = {}
BankInv == Fine => Good

-----------------------------------------------------------------------------
(* The numbers of a message. *)

LEMMA LargestIs ==
  ASSUME NEW S \in SUBSET Nat, IsFiniteSet(S)
  PROVE  Largest(S) \in Nat /\ \A n \in S : n <= Largest(S)
<1>1. CASE S = {}
  BY <1>1 DEF Largest
<1>2. CASE S # {}
  <2> DEFINE Topped(A) == \E n \in A : \A o \in A : o <= n
             Topless == {A \in SUBSET S : A # {} /\ ~Topped(A)}
  <2>1. Topless = {}
    <3> SUFFICES ASSUME Topless # {}
                 PROVE  FALSE
      OBVIOUS
    <3>1. IsWellFoundedOn(StrictSubsetOrdering(S), SUBSET S)
      BY FS_StrictSubsetOrderingWellFounded, FS_FiniteSubsetsOfFinite
    <3>2. Topless \subseteq SUBSET S
      OBVIOUS
    <3>3. PICK A \in Topless : \A B \in Topless : <<B, A>> \notin StrictSubsetOrdering(S)
      <4>1. PICK TS : TS = Topless
        OBVIOUS
      <4>2. TS \subseteq SUBSET S /\ TS # {}
        BY <4>1
      <4> HIDE DEF Topless
      <4>3. \E A \in TS : \A B \in TS : <<B, A>> \notin StrictSubsetOrdering(S)
        BY <3>1, <4>2, WFMin
      <4> QED
        BY <4>1, <4>3
    <3>4. A \in SUBSET S /\ A # {} /\ ~Topped(A)
      BY <3>3
    <3>5. PICK x \in A : TRUE
      BY <3>4
    <3>6. A \ {x} \in SUBSET S /\ <<A \ {x}, A>> \in StrictSubsetOrdering(S)
      BY <3>4, <3>5 DEF StrictSubsetOrdering
    <3>7. A \ {x} \notin Topless
      BY <3>3, <3>6
    <3>8. x \in Nat
      BY <3>4, <3>5
    <3>9. CASE A \ {x} = {}
      <4>1. A = {x} /\ x <= x
        BY <3>5, <3>8, <3>9
      <4>2. Topped(A)
        BY <4>1
      <4> QED
        BY <3>4, <4>2
    <3>10. CASE A \ {x} # {}
      <4>1. Topped(A \ {x})
        BY <3>6, <3>7, <3>10
      <4>2. PICK n \in A \ {x} : \A o \in A \ {x} : o <= n
        BY <4>1
      <4>3. n \in Nat /\ A \subseteq Nat
        BY <3>4, <4>2
      <4>4. CASE x <= n
        <5>1. \A o \in A : o <= n
          BY <4>2, <4>4
        <5>2. Topped(A)
          BY <4>2, <5>1
        <5> QED
          BY <3>4, <5>2
      <4>5. CASE n < x
        <5>1. \A o \in A : o <= x
          BY <3>8, <4>2, <4>3, <4>5
        <5>2. Topped(A)
          BY <3>5, <5>1
        <5> QED
          BY <3>4, <5>2
      <4> QED
        BY <3>8, <4>3, <4>4, <4>5
    <3> QED
      BY <3>9, <3>10
  <2>2. Topped(S)
    BY <1>2, <2>1
  <2>3. Largest(S) = CHOOSE n \in S : \A o \in S : o <= n
    BY <1>2 DEF Largest
  <2>4. Largest(S) \in S /\ \A o \in S : o <= Largest(S)
    BY <2>2, <2>3
  <2> QED
    BY <2>4
<1> QED
  BY <1>1, <1>2

\* Every element has a place in SetToSeq, and no two have one.
LEMMA SetToSeqIs ==
  ASSUME NEW S, IsFiniteSet(S), NEW s, s = SetToSeq(S)
  PROVE  \A x \in S : LET i == CHOOSE i \in DOMAIN s : s[i] = x IN i \in Nat \ {0} /\ s[i] = x
<1>1. PICK n \in Nat : n = Cardinality(S) /\ ExistsBijection(1..n, S)
  BY FS_CardinalityType
<1>2. PICK b : b \in Bijection(1..n, S)
  BY <1>1 DEF ExistsBijection
<1>3. b \in [1..n -> S] /\ IsInjective(b)
  BY <1>2 DEF Bijection, Injection, IsInjective
<1>4. s \in [1..n -> S] /\ IsInjective(s)
  BY <1>1, <1>3 DEF SetToSeq
<1>5. s \in Injection(1..n, S)
  BY <1>4 DEF Injection
<1>6. Cardinality(1..n) = n
  BY FS_Interval
<1>7. s \in Surjection(1..n, S)
  BY <1>1, <1>5, <1>6, FS_Injection
<1>8. \A x \in S : \E i \in 1..n : s[i] = x
  BY <1>7 DEF Surjection
<1>9. DOMAIN s = 1..n /\ 1..n \subseteq Nat \ {0}
  BY <1>4
<1> QED
  BY <1>8, <1>9

LEMMA ImageFinite ==
  ASSUME NEW f, NEW D, IsFiniteSet(D)
  PROVE  IsFiniteSet({f[x] : x \in D})
<1> DEFINE g == [x \in D |-> f[x]]
           T == {f[x] : x \in D}
<1>1. g \in Surjection(D, T)
  BY DEF Surjection
<1> QED
  BY <1>1, FS_Surjection

\* BuildMessage keeps what it must keep, whatever fields are asked for.
LEMMA BuildMessageIs ==
  ASSUME NEW old, MessageOK(old), NEW fields, IsFiniteSet(fields), NEW new, new = BuildMessage(fields, old)
  PROVE  MessageOK(new) /\ DOMAIN new.numbers = fields /\ Grown(old, new)
<1>1. PICK prev : prev = Parsed(old)
  OBVIOUS
<1>2. MessageOK(prev) /\ (DOMAIN old.numbers \intersect Keyword = {} => prev = old)
  <2>1. CASE DOMAIN old.numbers \intersect Keyword = {}
    BY <1>1, <2>1 DEF Parsed
  <2>2. CASE DOMAIN old.numbers \intersect Keyword # {}
    <3>1. prev = [numbers |-> <<>>, reserved |-> old.reserved]
      BY <1>1, <2>2 DEF Parsed, MessageOK
    <3>2. DOMAIN prev.numbers = {} /\ prev.reserved = old.reserved
      BY <3>1
    <3> QED
      BY <2>2, <3>1, <3>2, FS_EmptySet DEF MessageOK
  <2> QED
    BY <2>1, <2>2
<1>3. PICK had, res, num : had = DOMAIN prev.numbers /\ res = prev.reserved /\ num = prev.numbers
  OBVIOUS
<1>4. IsFiniteSet(had) /\ IsFiniteSet(res) /\ res \subseteq Nat /\ \A f \in had : num[f] \in Nat
  BY <1>2, <1>3 DEF MessageOK
<1>5. PICK used : used = {num[f] : f \in had} \union res
  OBVIOUS
<1>6. IsFiniteSet(used) /\ used \in SUBSET Nat
  <2>1. IsFiniteSet({num[f] : f \in had})
    BY <1>4, ImageFinite
  <2>2. IsFiniteSet(used)
    BY <1>4, <1>5, <2>1, FS_Union
  <2> QED
    BY <1>4, <1>5, <2>2
<1>7. PICK top \in Nat : top = Largest(used) /\ \A n \in used : n <= top
  BY <1>6, LargestIs
<1>8. PICK fresh : fresh = SetToSeq(fields \ had)
  OBVIOUS
<1>9. IsFiniteSet(fields \ had)
  BY FS_Difference
<1> DEFINE Place(f) == CHOOSE i \in DOMAIN fresh : fresh[i] = f
<1>10. \A f \in fields \ had : Place(f) \in Nat \ {0} /\ fresh[Place(f)] = f
  BY <1>8, <1>9, SetToSeqIs
<1>11. new = [reserved |-> res \union {num[f] : f \in had \ fields},
              numbers |-> [f \in fields |-> IF f \in had THEN num[f] ELSE top + Place(f)]]
  BY <1>1, <1>3, <1>5, <1>7, <1>8 DEF BuildMessage
<1> HIDE DEF Place
<1>12. DOMAIN new.numbers = fields /\ new.reserved = res \union {num[f] : f \in had \ fields}
       /\ \A f \in fields : new.numbers[f] = IF f \in had THEN num[f] ELSE top + Place(f)
  BY <1>11
<1>13. \A f \in fields \ had : new.numbers[f] \in Nat /\ new.numbers[f] > top
  BY <1>10, <1>12
<1>14. MessageOK(new)
  <2>1. new = [numbers |-> new.numbers, reserved |-> new.reserved]
    BY <1>11
  <2>2. \A f \in fields : new.numbers[f] \in Nat
    BY <1>4, <1>12, <1>13
  <2>3. new.reserved \subseteq Nat
    BY <1>4, <1>12
  <2>4. IsFiniteSet(new.reserved)
    <3>1. IsFiniteSet(had \ fields)
      BY <1>4, FS_Difference
    <3>2. IsFiniteSet({num[f] : f \in had \ fields})
      BY <3>1, ImageFinite
    <3>3. IsFiniteSet(res \union {num[f] : f \in had \ fields})
      BY <1>4, <3>2, FS_Union
    <3> QED
      BY <1>12, <3>3
  <2> QED
    BY <1>12, <2>1, <2>2, <2>3, <2>4 DEF MessageOK
<1>15. ASSUME DOMAIN old.numbers \intersect Keyword = {}
       PROVE  /\ \A f \in DOMAIN new.numbers \intersect DOMAIN old.numbers : new.numbers[f] = old.numbers[f]
              /\ old.reserved \subseteq new.reserved
              /\ \A f \in DOMAIN old.numbers \ DOMAIN new.numbers : old.numbers[f] \in new.reserved
              /\ \A f \in DOMAIN new.numbers \ DOMAIN old.numbers :
                   new.numbers[f] \notin old.reserved /\ \A g \in DOMAIN old.numbers : new.numbers[f] # old.numbers[g]
              /\ Unambiguous(old) => Unambiguous(new)
  <2>1. had = DOMAIN old.numbers /\ num = old.numbers /\ res = old.reserved
    BY <1>2, <1>3, <1>15
  <2>2. \A f \in DOMAIN new.numbers \intersect DOMAIN old.numbers : new.numbers[f] = old.numbers[f]
    BY <1>12, <2>1
  <2>3. old.reserved \subseteq new.reserved
    BY <1>12, <2>1
  <2>4. \A f \in DOMAIN old.numbers \ DOMAIN new.numbers : old.numbers[f] \in new.reserved
    BY <1>12, <2>1
  <2>5. \A f \in fields \ had : new.numbers[f] \notin used
    BY <1>6, <1>7, <1>13
  <2>6. \A f \in DOMAIN new.numbers \ DOMAIN old.numbers :
          new.numbers[f] \notin old.reserved /\ \A g \in DOMAIN old.numbers : new.numbers[f] # old.numbers[g]
    BY <1>5, <1>12, <2>1, <2>5
  <2>7. ASSUME Unambiguous(old)
        PROVE  Unambiguous(new)
    <3>1. ASSUME NEW f \in fields, NEW g \in fields, new.numbers[f] = new.numbers[g]
          PROVE  f = g
      <4>1. CASE f \in had /\ g \in had
        BY <1>12, <2>1, <2>7, <3>1, <4>1 DEF Unambiguous
      <4>2. CASE f \notin had /\ g \notin had
        <5>1. top + Place(f) = top + Place(g) /\ Place(f) \in Nat /\ Place(g) \in Nat
          BY <1>10, <1>12, <3>1, <4>2
        <5>2. Place(f) = Place(g)
          BY <5>1
        <5> QED
          BY <1>10, <4>2, <5>2
      <4>3. CASE f \in had /\ g \notin had
        BY <1>5, <1>12, <2>5, <3>1, <4>3
      <4>4. CASE f \notin had /\ g \in had
        BY <1>5, <1>12, <2>5, <3>1, <4>4
      <4> QED
        BY <4>1, <4>2, <4>3, <4>4
    <3>2. ASSUME NEW f \in fields
          PROVE  new.numbers[f] \notin new.reserved
      <4>1. CASE f \in had
        <5>1. new.numbers[f] = old.numbers[f] /\ f \in DOMAIN old.numbers
          BY <1>12, <2>1, <4>1
        <5>2. old.numbers[f] \notin old.reserved /\ \A g \in DOMAIN old.numbers : old.numbers[g] = old.numbers[f] => g = f
          BY <2>7, <5>1 DEF Unambiguous
        <5> QED
          BY <1>12, <2>1, <3>2, <5>1, <5>2
      <4>2. CASE f \notin had
        BY <1>5, <1>12, <2>5, <4>2
      <4> QED
        BY <4>1, <4>2
    <3> QED
      BY <1>12, <3>1, <3>2 DEF Unambiguous
  <2> QED
    BY <2>2, <2>3, <2>4, <2>6, <2>7
<1> QED
  BY <1>12, <1>14, <1>15 DEF Grown

-----------------------------------------------------------------------------
(* What a change is made of. *)

LEMMA BlankIs ==
  /\ MessageOK(Blank) /\ Unambiguous(Blank) /\ DOMAIN Blank.numbers = {}
  /\ TextOK(NoText) /\ DOMAIN NoText.messages = {} /\ DOMAIN NoText.type = {}
<1>1. Blank.numbers = <<>> /\ Blank.reserved = {} /\ DOMAIN Blank.numbers = {}
  BY DEF Blank
<1>2. MessageOK(Blank)
  BY <1>1, FS_EmptySet DEF MessageOK, Blank
<1>3. DOMAIN NoText.messages = {} /\ DOMAIN NoText.type = {}
  BY DEF NoText
<1> QED
  BY <1>1, <1>2, <1>3 DEF Unambiguous, TextOK

\* A message built from nothing is unambiguous, one built from another grows from it.
LEMMA BuiltAnew ==
  ASSUME NEW fields, IsFiniteSet(fields), NEW new, new = BuildMessage(fields, Blank)
  PROVE  MessageOK(new) /\ DOMAIN new.numbers = fields /\ Unambiguous(new)
<1>1. MessageOK(new) /\ DOMAIN new.numbers = fields /\ Grown(Blank, new)
  BY BlankIs, BuildMessageIs
<1> QED
  BY <1>1, BlankIs DEF Grown

LEMMA GrownSame ==
  ASSUME NEW msg
  PROVE  Grown(msg, msg)
  BY DEF Grown

LEMMA OldIs ==
  ASSUME NEW proto, TextOK(proto), NEW t
  PROVE  MessageOK(Old(proto, t)) /\ (t \in DOMAIN proto.messages => Old(proto, t) = proto.messages[t])
                                 /\ (t \notin DOMAIN proto.messages => Old(proto, t) = Blank)
  BY BlankIs DEF Old, TextOK

LEMMA SynthesizedIs ==
  ASSUME NEW e, EntryOK(e), NEW old, TextOK(old), NEW proto, proto = Synthesized(e.methods, old)
  PROVE  /\ TextOK(proto) /\ Agree(e, proto)
         /\ \A t \in DOMAIN proto.messages \intersect DOMAIN old.messages : Grown(old.messages[t], proto.messages[t])
         /\ \A t \in DOMAIN proto.messages \ DOMAIN old.messages : Unambiguous(proto.messages[t])
<1>1. PICK ms : ms = e.methods
  OBVIOUS
<1>2. proto = [type |-> [m \in DOMAIN ms |-> m],
              messages |-> [m \in DOMAIN ms |-> BuildMessage(ms[m].fields, Old(old, m))]]
  BY <1>1 DEF Synthesized
<1>3. /\ DOMAIN proto.type = DOMAIN ms /\ DOMAIN proto.messages = DOMAIN ms
      /\ \A m \in DOMAIN ms : proto.type[m] = m /\ proto.messages[m] = BuildMessage(ms[m].fields, Old(old, m))
  BY <1>2
<1>4. \A m \in DOMAIN ms : IsFiniteSet(ms[m].fields)
  BY <1>1, FieldsFinite, FS_Subset DEF EntryOK, MethodOK
<1>5. ASSUME NEW m \in DOMAIN ms
      PROVE  /\ MessageOK(proto.messages[m]) /\ DOMAIN proto.messages[m].numbers = ms[m].fields
             /\ m \in DOMAIN old.messages => Grown(old.messages[m], proto.messages[m])
             /\ m \notin DOMAIN old.messages => Unambiguous(proto.messages[m])
  <2>1. PICK fields, o, new : fields = ms[m].fields /\ o = Old(old, m) /\ new = proto.messages[m]
    OBVIOUS
  <2>2. IsFiniteSet(fields) /\ MessageOK(o) /\ new = BuildMessage(fields, o)
    BY <1>3, <1>4, <2>1, OldIs
  <2>3. MessageOK(new) /\ DOMAIN new.numbers = fields /\ Grown(o, new)
    BY <2>2, BuildMessageIs
  <2>4. m \in DOMAIN old.messages => o = old.messages[m]
    BY <2>1, OldIs
  <2>5. m \notin DOMAIN old.messages => o = Blank
    BY <2>1, OldIs
  <2>6. m \notin DOMAIN old.messages => Unambiguous(new)
    BY <2>2, <2>5, BuiltAnew
  <2> QED
    BY <2>1, <2>3, <2>4, <2>6
<1>6. TextOK(proto)
  BY <1>3, <1>5 DEF TextOK
<1>7. Agree(e, proto)
  BY <1>1, <1>3, <1>5 DEF Agree
<1> QED
  BY <1>3, <1>5, <1>6, <1>7

\* An edit spliced into a text that is not the form's.
LEMMA SplicedIs ==
  ASSUME NEW e, NEW old, TextOK(old), Agree(e, old), NEW edits, NEW deletes, ~Collides(old, edits, deletes),
         \A m \in DOMAIN edits : edits[m] \in SUBSET Field,
         NEW f, DOMAIN f.methods = (DOMAIN e.methods \ deletes) \union DOMAIN edits,
         \A m \in DOMAIN f.methods \ DOMAIN edits : f.methods[m] = e.methods[m],
         \A m \in DOMAIN edits : f.methods[m].fields = edits[m],
         NEW proto, proto = Spliced(old, edits, deletes)
  PROVE  /\ TextOK(proto) /\ Agree(f, proto)
         /\ \A t \in DOMAIN proto.messages \intersect DOMAIN old.messages : Grown(old.messages[t], proto.messages[t])
         /\ \A t \in DOMAIN proto.messages \ DOMAIN old.messages : Unambiguous(proto.messages[t])
<1>1. PICK rebuilt, rest :
        /\ rebuilt = Rebuilt(old, deletes \union DOMAIN edits, edits)
        /\ rest = DOMAIN old.messages \ rebuilt
  OBVIOUS
<1>2. proto = [type |-> [m \in (DOMAIN old.type \ deletes) \union DOMAIN edits |->
                          IF m \in DOMAIN edits THEN m ELSE old.type[m]],
              messages |-> [t \in rest \union DOMAIN edits |->
                          IF t \in rest THEN old.messages[t]
                          ELSE BuildMessage(edits[t], IF t \in rebuilt THEN old.messages[t] ELSE Blank)]]
  BY <1>1 DEF Spliced
<1>3. /\ DOMAIN proto.type = (DOMAIN old.type \ deletes) \union DOMAIN edits
      /\ \A m \in DOMAIN proto.type : proto.type[m] = IF m \in DOMAIN edits THEN m ELSE old.type[m]
      /\ DOMAIN proto.messages = rest \union DOMAIN edits
      /\ \A t \in rest : proto.messages[t] = old.messages[t]
      /\ \A t \in DOMAIN edits \ rest :
           proto.messages[t] = BuildMessage(edits[t], IF t \in rebuilt THEN old.messages[t] ELSE Blank)
  BY <1>2
<1>4. DOMAIN edits \intersect rest = {}
  BY <1>1 DEF Collides
<1>5. \A m \in (DOMAIN old.type \ deletes) \ DOMAIN edits : old.type[m] \in rest
  BY <1>1 DEF Rebuilt, TextOK
<1>6. \A t \in rest : MessageOK(proto.messages[t]) /\ Grown(old.messages[t], proto.messages[t])
  BY <1>1, <1>3, GrownSame DEF TextOK
<1>7. rebuilt \subseteq DOMAIN old.messages
  BY <1>1 DEF Rebuilt, TextOK
<1>8. ASSUME NEW m \in DOMAIN edits
      PROVE  /\ MessageOK(proto.messages[m]) /\ DOMAIN proto.messages[m].numbers = edits[m]
             /\ m \in DOMAIN old.messages => Grown(old.messages[m], proto.messages[m])
             /\ m \notin DOMAIN old.messages => Unambiguous(proto.messages[m])
  <2>1. PICK fields, o, new :
          fields = edits[m] /\ o = (IF m \in rebuilt THEN old.messages[m] ELSE Blank) /\ new = proto.messages[m]
    OBVIOUS
  <2>2. new = BuildMessage(fields, o)
    BY <1>3, <1>4, <2>1
  <2>3. IsFiniteSet(fields)
    BY <2>1, FieldsFinite, FS_Subset
  <2>4. m \in DOMAIN old.messages => m \in rebuilt
    BY <1>1, <1>4
  <2>5. MessageOK(o)
    BY <1>7, <2>1, BlankIs DEF TextOK
  <2>6. MessageOK(new) /\ DOMAIN new.numbers = fields /\ Grown(o, new)
    BY <2>2, <2>3, <2>5, BuildMessageIs
  <2>7. m \notin DOMAIN old.messages => o = Blank
    BY <1>7, <2>1
  <2>8. m \notin DOMAIN old.messages => Unambiguous(new)
    BY <2>2, <2>3, <2>7, BuiltAnew
  <2> QED
    BY <2>1, <2>4, <2>6, <2>8
<1>9. TextOK(proto)
  <2>1. \A m \in DOMAIN proto.type : proto.type[m] \in DOMAIN proto.messages
    BY <1>3, <1>5
  <2> QED
    BY <1>3, <1>6, <1>8, <2>1 DEF TextOK
<1>10. Agree(f, proto)
  <2>1. DOMAIN f.methods = DOMAIN proto.type
    BY <1>3 DEF Agree
  <2>2. ASSUME NEW m \in DOMAIN f.methods, ~f.methods[m].locked
        PROVE  f.methods[m].fields = DOMAIN proto.messages[proto.type[m]].numbers
    <3>1. CASE m \in DOMAIN edits
      BY <1>3, <1>8, <3>1
    <3>2. CASE m \notin DOMAIN edits
      <4>1. m \in DOMAIN e.methods /\ f.methods[m] = e.methods[m] /\ proto.type[m] = old.type[m]
            /\ m \in (DOMAIN old.type \ deletes) \ DOMAIN edits
        BY <1>3, <2>2, <3>2 DEF Agree
      <4>2. proto.messages[proto.type[m]] = old.messages[old.type[m]]
        BY <1>3, <1>5, <4>1
      <4>3. e.methods[m].fields = DOMAIN old.messages[old.type[m]].numbers
        BY <2>2, <4>1 DEF Agree
      <4> QED
        BY <4>1, <4>2, <4>3
    <3> QED
      BY <3>1, <3>2
  <2> QED
    BY <2>1, <2>2 DEF Agree
<1>11. \A t \in DOMAIN proto.messages \intersect DOMAIN old.messages : Grown(old.messages[t], proto.messages[t])
  BY <1>3, <1>6, <1>8
<1>12. \A t \in DOMAIN proto.messages \ DOMAIN old.messages : Unambiguous(proto.messages[t])
  BY <1>1, <1>3, <1>8
<1> QED
  BY <1>9, <1>10, <1>11, <1>12

LEMMA ChangeIs ==
  ASSUME NEW c, NEW e, NEW proto, NEW kept, NEW ch, ch = Change(c, e, proto, kept)
  PROVE  ch.contract = c /\ ch.entry = e /\ ch.text = proto /\ ch.kept = kept
  BY DEF Change

LEMMA EntryIs ==
  ASSUME NEW src, NEW methods, NEW e, e = Entry(src, methods)
  PROVE  e = [source |-> e.source, methods |-> e.methods] /\ e.source = src /\ e.methods = methods
  BY DEF Entry

LEMMA MethodIs ==
  ASSUME NEW fields \in SUBSET Field, NEW locked, NEW said, NEW x, x = [fields |-> fields, locked |-> locked, said |-> said]
  PROVE  MethodOK(x) /\ x.fields = fields /\ x.locked = locked /\ (said => x.said)
  BY DEF MethodOK

LEMMA MethodSaid ==
  ASSUME NEW fields \in SUBSET Field, NEW locked, NEW m, NEW S, NEW x,
         x = [fields |-> fields, locked |-> locked, said |-> m \in S]
  PROVE  MethodOK(x) /\ x.fields = fields /\ x.locked = locked /\ (m \in S => x.said)
  BY DEF MethodOK

\* A text that was uploaded is the author's own.
LEMMA UploadFits ==
  ASSUME NEW u \in Uploads, NEW said, NEW e, e = Entry("upload", AuthorsOwn(u, said))
  PROVE  /\ EntryOK(e) /\ TextOK(u) /\ Agree(e, u)
         /\ \A t \in DOMAIN u.messages : Unambiguous(u.messages[t])
         /\ \A m \in DOMAIN e.methods : m \in said => e.methods[m].said
         /\ e.source = "upload"
<1>1. PICK f : u = Uploaded(f)
  BY DEF Uploads
<1>2. PICK x : x = CHOOSE y \in Field \ Keyword : TRUE
  OBVIOUS
<1>3. PICK T : T = {f[m] : m \in DOMAIN f}
  OBVIOUS
<1>4. PICK msg : msg = [numbers |-> [y \in {x} |-> 2], reserved |-> {}]
  OBVIOUS
<1>5. u = [type |-> f, messages |-> [t \in T |-> msg]]
  BY <1>1, <1>2, <1>3, <1>4 DEF Uploaded
<1>6. u.type = f /\ DOMAIN u.messages = T /\ \A t \in T : u.messages[t] = msg
  BY <1>5
<1>7. MessageOK(msg) /\ Unambiguous(msg)
  <2>1. DOMAIN msg.numbers = {x} /\ msg.numbers[x] = 2 /\ msg.reserved = {}
    BY <1>4
  <2>2. IsFiniteSet({x}) /\ IsFiniteSet({})
    BY FS_Singleton, FS_EmptySet
  <2>3. MessageOK(msg)
    BY <1>4, <2>1, <2>2 DEF MessageOK
  <2> QED
    BY <2>1, <2>3 DEF Unambiguous
<1>8. TextOK(u)
  BY <1>3, <1>6, <1>7 DEF TextOK
<1>9. PICK ms : ms = AuthorsOwn(u, said) /\ ms = [m \in DOMAIN f |-> [fields |-> {}, locked |-> TRUE, said |-> m \in said]]
  BY <1>6 DEF AuthorsOwn
<1>10. e.methods = ms /\ e.source = "upload" /\ e = [source |-> e.source, methods |-> e.methods]
  <2>1. e = Entry("upload", ms)
    BY <1>9
  <2> QED
    BY <2>1, EntryIs
<1>11. DOMAIN ms = DOMAIN f /\ \A m \in DOMAIN ms : ms[m] = [fields |-> {}, locked |-> TRUE, said |-> m \in said]
  BY <1>9
<1>12. ASSUME NEW m \in DOMAIN ms
       PROVE  (m \in said => ms[m].said) /\ ms[m].locked /\ MethodOK(ms[m])
  <2>1. ms[m] = [fields |-> {}, locked |-> TRUE, said |-> m \in said]
    BY <1>11
  <2> QED
    BY <2>1, MethodSaid
<1>13. EntryOK(e)
  BY <1>10, <1>12 DEF EntryOK
<1>14. Agree(e, u)
  BY <1>6, <1>10, <1>11, <1>12 DEF Agree
<1> QED
  BY <1>6, <1>7, <1>8, <1>10, <1>12, <1>13, <1>14

LEMMA CreationFits ==
  ASSUME NEW c, c \notin DOMAIN bank, NEW ch \in Creations(c)
  PROVE  Fits(ch, bank, protos, {})
<1>1. CASE ch \in FormCreations(c)
  <2>1. PICK methods : methods \in {Single(m, FormMethod(fs)) : m \in Method, fs \in Shapes}
                       /\ ch = Change(c, Entry("form", methods), Synthesized(methods, NoText), {})
    BY <1>1 DEF FormCreations
  <2>2. PICK m, fs : fs \in Shapes /\ methods = Single(m, FormMethod(fs))
    BY <2>1
  <2>3. PICK e, proto : e = Entry("form", methods) /\ proto = Synthesized(methods, NoText)
    OBVIOUS
  <2>4. ch.contract = c /\ ch.entry = e /\ ch.text = proto /\ ch.kept = {}
    BY <2>1, <2>3, ChangeIs
  <2>5. e.methods = methods /\ e = [source |-> e.source, methods |-> e.methods]
    BY <2>3, EntryIs
  <2>6. DOMAIN methods = {m} /\ methods[m] = [fields |-> fs, locked |-> FALSE, said |-> FALSE]
    BY <2>2 DEF Single, FormMethod
  <2>7. EntryOK(e)
    <3>1. fs \in SUBSET Field
      BY <2>2 DEF Shapes
    <3>2. MethodOK(methods[m])
      BY <2>6, <3>1, MethodIs
    <3> QED
      BY <2>5, <2>6, <3>2 DEF EntryOK
  <2>8. /\ TextOK(proto) /\ Agree(e, proto)
        /\ \A t \in DOMAIN proto.messages \ DOMAIN NoText.messages : Unambiguous(proto.messages[t])
    BY <2>3, <2>5, <2>7, BlankIs, SynthesizedIs
  <2> QED
    BY <2>4, <2>7, <2>8, BlankIs DEF Fits
<1>2. CASE ch \in {Change(c, Entry("upload", AuthorsOwn(u, {})), u, {}) : u \in Uploads}
  <2>1. PICK u \in Uploads : ch = Change(c, Entry("upload", AuthorsOwn(u, {})), u, {})
    BY <1>2
  <2>2. PICK e : e = Entry("upload", AuthorsOwn(u, {}))
    OBVIOUS
  <2>3. ch.contract = c /\ ch.entry = e /\ ch.text = u /\ ch.kept = {}
    BY <2>1, <2>2, ChangeIs
  <2> QED
    BY <2>2, <2>3, UploadFits DEF Fits
<1> QED
  BY <1>1, <1>2 DEF Creations

LEMMA ReplacementFits ==
  ASSUME Files, NEW D, NEW c \in DOMAIN bank \ D, NEW ch \in Replacements(c)
  PROVE  Fits(ch, bank, protos, D)
<1>1. PICK u \in Uploads : ch = Change(c, Entry("upload", AuthorsOwn(u, Said(bank[c]))), u, {})
  BY DEF Replacements
<1>2. PICK said, e : said = Said(bank[c]) /\ e = Entry("upload", AuthorsOwn(u, said))
  OBVIOUS
<1>3. ch.contract = c /\ ch.entry = e /\ ch.text = u /\ ch.kept = {}
  BY <1>1, <1>2, ChangeIs
<1>4. /\ EntryOK(e) /\ TextOK(u) /\ Agree(e, u)
      /\ \A t \in DOMAIN u.messages : Unambiguous(u.messages[t])
      /\ \A m \in DOMAIN e.methods : m \in said => e.methods[m].said
  BY <1>2, UploadFits
<1>5. \A m \in DOMAIN bank[c].methods \intersect DOMAIN e.methods : bank[c].methods[m].said => e.methods[m].said
  BY <1>2, <1>4 DEF Said
<1> QED
  BY <1>3, <1>4, <1>5 DEF Fits

LEMMA EditFits ==
  ASSUME Files, NEW D, NEW c \in DOMAIN bank \ D, NEW ch \in Edits(c)
  PROVE  Fits(ch, bank, protos, D)
<1>1. PICK e, old : e = bank[c] /\ old = protos[c]
  OBVIOUS
<1>2. c \in DOMAIN protos /\ EntryOK(e) /\ TextOK(old) /\ Agree(e, old)
  BY <1>1 DEF Files
<1>3. PICK one : one = Ones(c)
  OBVIOUS
<1>4. PICK y : /\ y \in one \X SUBSET DOMAIN e.methods
               /\ e.source # "form" => ~Collides(protos[c], y[1], y[2])
               /\ ch = Edited(c, y[1], y[2])
  BY <1>1, <1>3 DEF Edits
<1>5. PICK edits, deletes : edits = y[1] /\ deletes = y[2] /\ edits \in one
  BY <1>4
<1>6. \A m \in DOMAIN edits : edits[m] \in SUBSET Field
  <2>1. CASE edits = <<>>
    BY <2>1
  <2>2. CASE edits # <<>>
    <3>1. PICK m, fs : fs \in Shapes /\ edits = Single(m, fs)
      BY <1>3, <1>5, <2>2 DEF Ones
    <3>2. DOMAIN edits = {m} /\ edits[m] = fs /\ fs \in SUBSET Field
      BY <3>1 DEF Single, Shapes
    <3> QED
      BY <3>2
  <2> QED
    BY <2>1, <2>2
<1>7. PICK methods, f, proto :
        /\ methods = [m \in (DOMAIN e.methods \ deletes) \union DOMAIN edits |->
                        IF m \notin DOMAIN edits THEN e.methods[m]
                        ELSE [FormMethod(edits[m]) EXCEPT !.said = m \in Said(e)]]
        /\ f = [e EXCEPT !.methods = methods]
        /\ proto = IF e.source = "form" THEN Synthesized(methods, old) ELSE Spliced(old, edits, deletes)
  OBVIOUS
<1>8. ch = Change(c, f, proto, DOMAIN old.messages \intersect DOMAIN proto.messages)
  BY <1>1, <1>2, <1>4, <1>5, <1>7 DEF Edited, TextOf
<1>9. ch.contract = c /\ ch.entry = f /\ ch.text = proto /\ ch.kept = DOMAIN old.messages \intersect DOMAIN proto.messages
  BY <1>8, ChangeIs
<1>10. f = [source |-> e.source, methods |-> methods] /\ f.methods = methods /\ f.source = e.source
  <2>1. PICK a, b : e = [source |-> a, methods |-> b]
    BY <1>2 DEF EntryOK
  <2> QED
    BY <1>7, <2>1
<1>11. DOMAIN methods = (DOMAIN e.methods \ deletes) \union DOMAIN edits
       /\ (\A m \in DOMAIN methods \ DOMAIN edits : methods[m] = e.methods[m])
       /\ (\A m \in DOMAIN edits : methods[m] = [FormMethod(edits[m]) EXCEPT !.said = m \in Said(e)])
  BY <1>7
<1>12. \A m \in DOMAIN edits : methods[m] = [fields |-> edits[m], locked |-> FALSE, said |-> m \in Said(e)]
  BY <1>11 DEF FormMethod
<1>13. ASSUME NEW m \in DOMAIN edits
       PROVE  methods[m].fields = edits[m] /\ (m \in Said(e) => methods[m].said) /\ MethodOK(methods[m])
  <2>1. methods[m] = [fields |-> edits[m], locked |-> FALSE, said |-> m \in Said(e)]
    BY <1>12
  <2>2. edits[m] \in SUBSET Field
    BY <1>6
  <2> QED
    BY <2>1, <2>2, MethodSaid
<1>14. EntryOK(f)
  BY <1>2, <1>10, <1>11, <1>13 DEF EntryOK
<1>15. /\ TextOK(proto) /\ Agree(f, proto)
       /\ \A t \in DOMAIN proto.messages \intersect DOMAIN old.messages : Grown(old.messages[t], proto.messages[t])
       /\ \A t \in DOMAIN proto.messages \ DOMAIN old.messages : Unambiguous(proto.messages[t])
  <2>1. CASE e.source = "form"
    <3>1. proto = Synthesized(f.methods, old)
      BY <1>7, <1>10, <2>1
    <3> QED
      BY <1>2, <1>14, <3>1, SynthesizedIs
  <2>2. CASE e.source # "form"
    <3>1. proto = Spliced(old, edits, deletes) /\ ~Collides(old, edits, deletes)
      BY <1>1, <1>4, <1>5, <1>7, <2>2
    <3>2. DOMAIN f.methods = (DOMAIN e.methods \ deletes) \union DOMAIN edits
          /\ (\A m \in DOMAIN f.methods \ DOMAIN edits : f.methods[m] = e.methods[m])
          /\ (\A m \in DOMAIN edits : f.methods[m].fields = edits[m])
      BY <1>10, <1>11, <1>13
    <3> QED
      BY <1>2, <1>6, <3>1, <3>2, SplicedIs
  <2> QED
    BY <2>1, <2>2
<1>16. \A m \in DOMAIN e.methods \intersect DOMAIN f.methods : e.methods[m].said => f.methods[m].said
  <2> SUFFICES ASSUME NEW m \in DOMAIN e.methods \intersect DOMAIN f.methods, e.methods[m].said
               PROVE  f.methods[m].said
    OBVIOUS
  <2>1. CASE m \in DOMAIN edits
    BY <1>10, <1>13, <2>1 DEF Said
  <2>2. CASE m \notin DOMAIN edits
    BY <1>10, <1>11, <2>2
  <2> QED
    BY <2>1, <2>2
<1> QED
  BY <1>1, <1>2, <1>9, <1>14, <1>15, <1>16 DEF Fits

-----------------------------------------------------------------------------
(* The bindings are there: the texts and the registry are written.          *)

LEMMA NumbersAre ==
  ASSUME NEW c, NEW proto, NEW b
  PROVE  b \in Numbers(c, proto) <=>
           \E t \in DOMAIN proto.messages : \E f \in DOMAIN proto.messages[t].numbers :
             b = <<c, t, proto.messages[t].numbers[f], f>>
<1>1. b \in Numbers(c, proto) <=> \E t \in DOMAIN proto.messages : b \in NumbersOf(c, t, proto.messages[t])
  BY DEF Numbers
<1>2. ASSUME NEW t
      PROVE  b \in NumbersOf(c, t, proto.messages[t]) <=>
               \E f \in DOMAIN proto.messages[t].numbers : b = <<c, t, proto.messages[t].numbers[f], f>>
  BY DEF NumbersOf
<1> QED
  BY <1>1, <1>2

LEMMA NumberIs ==
  ASSUME NEW c, NEW proto, NEW d, NEW t, NEW n, NEW f
  PROVE  <<d, t, n, f>> \in Numbers(c, proto) <=>
           /\ d = c /\ t \in DOMAIN proto.messages
           /\ f \in DOMAIN proto.messages[t].numbers /\ n = proto.messages[t].numbers[f]
  BY NumbersAre

\* What a request that has its bindings writes, when nobody has written since it loaded.
LEMMA WhatIsWritten ==
  ASSUME Good, NEW r \in waiting, Generated(r), Fine'
  PROVE  \E c, e, proto, kept, D :
           /\ c = r.change.contract /\ e = r.change.entry /\ proto = r.change.text /\ kept = r.change.kept /\ D = r.deletes
           /\ ~("retyped" \notin slips' /\ Retypes(bank, r.change))
           /\ Fits(r.change, bank, protos, D) /\ c \notin D
           /\ DOMAIN bank' = (DOMAIN bank \ D) \union {c} /\ bank'[c] = e
           /\ \A x \in DOMAIN bank' \ {c} : x \in DOMAIN bank /\ bank'[x] = bank[x]
           /\ DOMAIN protos' = (DOMAIN protos \ D) \union {c} /\ protos'[c] = proto
           /\ \A x \in DOMAIN protos' \ {c} : x \in DOMAIN protos /\ protos'[x] = protos[x]
<1>0. PICK c, e, proto, kept, D :
        c = r.change.contract /\ e = r.change.entry /\ proto = r.change.text /\ kept = r.change.kept /\ D = r.deletes
  OBVIOUS
<1>1. <<bank, protos>> = <<r.bank, r.protos>> /\ ~("retyped" \notin slips' /\ Retypes(r.bank, r.change))
  <2>1. slips' = slips \union (IF <<bank, protos>> # <<r.bank, r.protos>> THEN {"lost"} ELSE {})
                       \union (IF ~Retypes(r.bank, r.change) THEN {} ELSE {"retyped"})
    BY DEF Generated
  <2>2. "lost" \notin slips'
    BY DEF Fine
  <2> QED
    BY <2>1, <2>2
<1>2. r.bank = bank /\ r.protos = protos
  BY <1>1
<1>3. Fits(r.change, bank, protos, D)
  BY <1>0, <1>2 DEF Good, Awaited, Generated
<1>4. c \notin D
  BY <1>0, <1>3 DEF Fits
<1>5. bank' = Minus(Put1(bank, c, e), D) /\ protos' = Minus(Put1(protos, c, proto), D)
  BY <1>0, <1>2 DEF Generated
<1>6. DOMAIN bank' = (DOMAIN bank \ D) \union {c} /\ bank'[c] = e
      /\ \A x \in DOMAIN bank' \ {c} : x \in DOMAIN bank /\ bank'[x] = bank[x]
  <2>1. PICK f, g : f = bank /\ g = bank'
    OBVIOUS
  <2>2. g = Minus(Put1(f, c, e), D)
    BY <1>5, <2>1
  <2>3. DOMAIN g = (DOMAIN f \ D) \union {c} /\ g[c] = e /\ \A x \in DOMAIN g \ {c} : x \in DOMAIN f /\ g[x] = f[x]
    <3>1. PICK h : h = Put1(f, c, e)
      OBVIOUS
    <3>2. DOMAIN h = DOMAIN f \union {c} /\ h[c] = e /\ \A x \in DOMAIN f \ {c} : h[x] = f[x]
      BY <3>1 DEF Put1
    <3>3. DOMAIN g = DOMAIN h \ D /\ \A x \in DOMAIN g : g[x] = h[x]
      BY <2>2, <3>1 DEF Minus
    <3> QED
      BY <1>4, <3>2, <3>3
  <2> QED
    BY <2>1, <2>3
<1>7. DOMAIN protos' = (DOMAIN protos \ D) \union {c} /\ protos'[c] = proto
      /\ \A x \in DOMAIN protos' \ {c} : x \in DOMAIN protos /\ protos'[x] = protos[x]
  <2>1. PICK f, g : f = protos /\ g = protos'
    OBVIOUS
  <2>2. g = Minus(Put1(f, c, proto), D)
    BY <1>5, <2>1
  <2>3. DOMAIN g = (DOMAIN f \ D) \union {c} /\ g[c] = proto /\ \A x \in DOMAIN g \ {c} : x \in DOMAIN f /\ g[x] = f[x]
    <3>1. PICK h : h = Put1(f, c, proto)
      OBVIOUS
    <3>2. DOMAIN h = DOMAIN f \union {c} /\ h[c] = proto /\ \A x \in DOMAIN f \ {c} : h[x] = f[x]
      BY <3>1 DEF Put1
    <3>3. DOMAIN g = DOMAIN h \ D /\ \A x \in DOMAIN g : g[x] = h[x]
      BY <2>2, <3>1 DEF Minus
    <3> QED
      BY <1>4, <3>2, <3>3
  <2> QED
    BY <2>1, <2>3
<1> QED
  BY <1>0, <1>1, <1>2, <1>3, <1>4, <1>6, <1>7

LEMMA GeneratedFiles ==
  ASSUME Good, NEW r \in waiting, Generated(r), Fine'
  PROVE  Files' /\ Wires'
<1>1. PICK c, e, proto, kept, D :
        /\ c = r.change.contract /\ e = r.change.entry /\ proto = r.change.text /\ kept = r.change.kept /\ D = r.deletes
        /\ ~("retyped" \notin slips' /\ Retypes(bank, r.change))
        /\ Fits(r.change, bank, protos, D) /\ c \notin D
        /\ DOMAIN bank' = (DOMAIN bank \ D) \union {c} /\ bank'[c] = e
        /\ \A x \in DOMAIN bank' \ {c} : x \in DOMAIN bank /\ bank'[x] = bank[x]
        /\ DOMAIN protos' = (DOMAIN protos \ D) \union {c} /\ protos'[c] = proto
        /\ \A x \in DOMAIN protos' \ {c} : x \in DOMAIN protos /\ protos'[x] = protos[x]
  BY WhatIsWritten
<1>2. /\ Fits(r.change, bank, protos, D)
      /\ DOMAIN bank' = (DOMAIN bank \ D) \union {c} /\ bank'[c] = e
      /\ \A x \in DOMAIN bank' \ {c} : x \in DOMAIN bank /\ bank'[x] = bank[x]
      /\ DOMAIN protos' = (DOMAIN protos \ D) \union {c} /\ protos'[c] = proto
      /\ \A x \in DOMAIN protos' \ {c} : x \in DOMAIN protos /\ protos'[x] = protos[x]
  BY <1>1
<1>3. EntryOK(e) /\ TextOK(proto) /\ Agree(e, proto)
  BY <1>1, <1>2 DEF Fits
<1>4. Files'
  <2>1. DOMAIN bank' = DOMAIN protos'
    BY <1>2 DEF Good, Files
  <2>2. ASSUME NEW x \in DOMAIN bank'
        PROVE  EntryOK(bank'[x]) /\ TextOK(protos'[x]) /\ Agree(bank'[x], protos'[x])
    <3>1. CASE x = c
      BY <1>2, <1>3, <3>1
    <3>2. CASE x # c
      <4>1. x \in DOMAIN bank /\ bank'[x] = bank[x] /\ protos'[x] = protos[x]
        BY <1>2, <2>1, <3>2
      <4> QED
        BY <4>1 DEF Good, Files
    <3> QED
      BY <3>1, <3>2
  <2> QED
    BY <2>1, <2>2 DEF Files
<1>5. Wires'
  <2>1. nodes' = nodes /\ serves' = {x \in serves : x[2] \notin D} /\ dials' = {x \in dials : x[2] \notin D}
    BY <1>1 DEF Generated, Scrub
  <2>2. \A x \in DOMAIN bank \ D : x \in DOMAIN bank'
    BY <1>2
  <2> QED
    BY <2>1, <2>2 DEF Good, Wires
<1> QED
  BY <1>4, <1>5

LEMMA GeneratedDescribed ==
  ASSUME Good, NEW r \in waiting, Generated(r), Fine'
  PROVE  Described' /\ OneServer' /\ Awaited'
<1>1. PICK c, e, proto, kept, D :
        /\ c = r.change.contract /\ e = r.change.entry /\ proto = r.change.text /\ kept = r.change.kept /\ D = r.deletes
        /\ ~("retyped" \notin slips' /\ Retypes(bank, r.change))
        /\ Fits(r.change, bank, protos, D) /\ c \notin D
        /\ DOMAIN bank' = (DOMAIN bank \ D) \union {c} /\ bank'[c] = e
        /\ \A x \in DOMAIN bank' \ {c} : x \in DOMAIN bank /\ bank'[x] = bank[x]
        /\ DOMAIN protos' = (DOMAIN protos \ D) \union {c} /\ protos'[c] = proto
        /\ \A x \in DOMAIN protos' \ {c} : x \in DOMAIN protos /\ protos'[x] = protos[x]
  BY WhatIsWritten
<1>2. /\ Fits(r.change, bank, protos, D) /\ ~("retyped" \notin slips' /\ Retypes(bank, r.change))
      /\ DOMAIN bank' = (DOMAIN bank \ D) \union {c} /\ bank'[c] = e
      /\ \A x \in DOMAIN bank' \ {c} : x \in DOMAIN bank /\ bank'[x] = bank[x]
  BY <1>1
<1>3. slips \subseteq slips'
  BY DEF Generated
<1>4. Described'
  <2> SUFFICES ASSUME "overwritten" \notin slips'
               PROVE  /\ \A d, m : <<d, m>> \in told' =>
                           d \in DOMAIN bank' /\ m \in DOMAIN bank'[d].methods /\ bank'[d].methods[m].said
                      /\ \A x \in told' : x = <<x[1], x[2]>>
    BY DEF Described
  <2>1. told' = {x \in told : x[1] \in DOMAIN bank' /\ x[2] \in DOMAIN bank'[x[1]].methods}
    BY DEF Generated
  <2>2. "overwritten" \notin slips
    BY <1>3
  <2>3. ASSUME NEW d, NEW m, <<d, m>> \in told'
        PROVE  d \in DOMAIN bank' /\ m \in DOMAIN bank'[d].methods /\ bank'[d].methods[m].said
    <3>1. <<d, m>> \in told /\ d \in DOMAIN bank' /\ m \in DOMAIN bank'[d].methods
      BY <2>1, <2>3
    <3>2. d \in DOMAIN bank /\ m \in DOMAIN bank[d].methods /\ bank[d].methods[m].said
      BY <2>2, <3>1 DEF Good, Described
    <3>3. CASE d = c
      BY <1>1, <1>2, <3>1, <3>2, <3>3 DEF Fits
    <3>4. CASE d # c
      BY <1>2, <3>1, <3>2, <3>4
    <3> QED
      BY <3>1, <3>3, <3>4
  <2>4. \A x \in told' : x = <<x[1], x[2]>>
    BY <2>1, <2>2 DEF Good, Described
  <2> QED
    BY <2>3, <2>4
<1>5. OneServer'
  <2> SUFFICES ASSUME slips' \intersect {"overwritten", "retyped"} = {},
                      NEW d \in DOMAIN bank', bank'[d].source \in {"form", "upload"},
                      NEW n, NEW o, <<n, d>> \in serves', <<o, d>> \in serves'
               PROVE  n = o
    BY DEF OneServer
  <2>1. <<n, d>> \in serves /\ <<o, d>> \in serves
    BY DEF Generated, Scrub
  <2>2. d \in DOMAIN bank
    BY <2>1 DEF Good, Wires
  <2>3. slips \intersect {"overwritten", "retyped"} = {}
    BY <1>3
  <2>4. CASE d = c
    <3>1. bank[c].source = e.source \/ bank[c].source = "form"
      BY <1>1, <1>2, <2>2, <2>4 DEF Retypes
    <3>2. bank[d].source \in {"form", "upload"}
      BY <1>2, <2>4, <3>1
    <3> QED
      BY <2>1, <2>2, <2>3, <3>2 DEF Good, OneServer
  <2>5. CASE d # c
    <3>1. bank[d].source \in {"form", "upload"}
      BY <1>2, <2>5
    <3> QED
      BY <2>1, <2>2, <2>3, <3>1 DEF Good, OneServer
  <2> QED
    BY <2>4, <2>5
<1>6. Awaited'
  BY DEF Good, Awaited, Generated
<1> QED
  BY <1>4, <1>5, <1>6

\* A message that goes on, in a text that is written anew.
LEMMA GoesOn ==
  ASSUME Given, NEW c \in DOMAIN protos, NEW t \in DOMAIN protos[c].messages, ~Nests(c, t),
         NEW new, Grown(protos[c].messages[t], new)
  PROVE  Accounts(c, t, new) /\ Unambiguous(new)
<1>1. PICK old : old = protos[c].messages[t]
  OBVIOUS
<1>2. /\ \A f \in DOMAIN old.numbers : <<c, t, old.numbers[f], f>> \in bound
      /\ Accounts(c, t, old) /\ Unambiguous(old)
  BY <1>1 DEF Given
<1>3. DOMAIN old.numbers \intersect Keyword = {}
  BY <1>2 DEF Nests
<1>4. /\ \A f \in DOMAIN new.numbers \intersect DOMAIN old.numbers : new.numbers[f] = old.numbers[f]
      /\ old.reserved \subseteq new.reserved
      /\ \A f \in DOMAIN old.numbers \ DOMAIN new.numbers : old.numbers[f] \in new.reserved
      /\ Unambiguous(new)
  BY <1>1, <1>2, <1>3 DEF Grown
<1>5. ASSUME NEW n, NEW f, <<c, t, n, f>> \in bound
      PROVE  (f \in DOMAIN new.numbers /\ new.numbers[f] = n) \/ n \in new.reserved
  <2>1. (f \in DOMAIN old.numbers /\ old.numbers[f] = n) \/ n \in old.reserved
    BY <1>2, <1>5 DEF Accounts
  <2> QED
    BY <1>4, <2>1
<1> QED
  BY <1>4, <1>5 DEF Accounts

LEMMA GeneratedGiven ==
  ASSUME Good, NEW r \in waiting, Generated(r), Fine'
  PROVE  Given'
<1>1. PICK c, e, proto, kept, D :
        /\ c = r.change.contract /\ e = r.change.entry /\ proto = r.change.text /\ kept = r.change.kept /\ D = r.deletes
        /\ ~("retyped" \notin slips' /\ Retypes(bank, r.change))
        /\ Fits(r.change, bank, protos, D) /\ c \notin D
        /\ DOMAIN bank' = (DOMAIN bank \ D) \union {c} /\ bank'[c] = e
        /\ \A x \in DOMAIN bank' \ {c} : x \in DOMAIN bank /\ bank'[x] = bank[x]
        /\ DOMAIN protos' = (DOMAIN protos \ D) \union {c} /\ protos'[c] = proto
        /\ \A x \in DOMAIN protos' \ {c} : x \in DOMAIN protos /\ protos'[x] = protos[x]
  BY WhatIsWritten
<1>2. /\ Fits(r.change, bank, protos, D) /\ c \notin D
      /\ DOMAIN protos' = (DOMAIN protos \ D) \union {c} /\ protos'[c] = proto
      /\ \A x \in DOMAIN protos' \ {c} : x \in DOMAIN protos /\ protos'[x] = protos[x]
  BY <1>1
<1>3. bound' = {b \in bound : b[1] \notin D /\ (b[1] = c => b[2] \in kept)} \union Numbers(c, proto)
  BY <1>1 DEF Generated
<1>4. /\ kept \subseteq DOMAIN proto.messages /\ (kept # {} => c \in DOMAIN protos)
      /\ \A t \in kept : t \in DOMAIN protos[c].messages /\ Grown(protos[c].messages[t], proto.messages[t])
      /\ \A t \in DOMAIN proto.messages \ kept : Unambiguous(proto.messages[t])
  <2>1. CASE c \in DOMAIN protos
    BY <1>1, <1>2, <2>1 DEF Fits
  <2>2. CASE c \notin DOMAIN protos
    <3>1. kept \subseteq DOMAIN NoText.messages
      BY <1>1, <1>2, <2>2 DEF Fits
    <3>2. kept = {}
      BY <3>1, BlankIs
    <3> QED
      BY <1>1, <1>2, <3>2 DEF Fits
  <2> QED
    BY <2>1, <2>2
<1>5. ASSUME NEW d, NEW t, NEW n, NEW f
      PROVE  <<d, t, n, f>> \in bound' <=>
               \/ <<d, t, n, f>> \in bound /\ d \notin D /\ (d = c => t \in kept)
               \/ /\ d = c /\ t \in DOMAIN proto.messages
                  /\ f \in DOMAIN proto.messages[t].numbers /\ n = proto.messages[t].numbers[f]
  <2>1. <<d, t, n, f>> \in Numbers(c, proto) <=>
          /\ d = c /\ t \in DOMAIN proto.messages
          /\ f \in DOMAIN proto.messages[t].numbers /\ n = proto.messages[t].numbers[f]
    BY NumberIs
  <2> QED
    BY <1>3, <2>1
<1>6. ASSUME NEW d, NEW t, Nests(d, t), d \notin D, d = c => t \in kept
      PROVE  Nests(d, t)'
  BY <1>5, <1>6 DEF Nests
<1>7. ASSUME NEW b \in bound'
      PROVE  b = <<b[1], b[2], b[3], b[4]>> /\ b[1] \in DOMAIN protos' /\ b[2] \in DOMAIN protos'[b[1]].messages
  <2>1. CASE b \in bound /\ b[1] \notin D /\ (b[1] = c => b[2] \in kept)
    <3>1. b = <<b[1], b[2], b[3], b[4]>> /\ b[1] \in DOMAIN protos /\ b[2] \in DOMAIN protos[b[1]].messages
      BY <2>1 DEF Good, Given
    <3>2. CASE b[1] = c
      BY <1>2, <1>4, <2>1, <3>1, <3>2
    <3>3. CASE b[1] # c
      BY <1>2, <2>1, <3>1, <3>3
    <3> QED
      BY <3>2, <3>3
  <2>2. CASE b \in Numbers(c, proto)
    <3>1. PICK t \in DOMAIN proto.messages : \E f \in DOMAIN proto.messages[t].numbers :
                 b = <<c, t, proto.messages[t].numbers[f], f>>
      BY <2>2, NumbersAre
    <3> QED
      BY <1>2, <3>1
  <2> QED
    BY <1>3, <2>1, <2>2
<1>8. ASSUME NEW d \in DOMAIN protos', NEW t \in DOMAIN protos'[d].messages,
             NEW msg, msg = protos'[d].messages[t]
      PROVE  /\ \A f \in DOMAIN msg.numbers : <<d, t, msg.numbers[f], f>> \in bound'
             /\ Nests(d, t)' \/ (Accounts(d, t, msg)' /\ Unambiguous(msg))
  <2>1. CASE d = c
    <3>1. t \in DOMAIN proto.messages /\ msg = proto.messages[t]
      BY <1>2, <1>8, <2>1
    <3>2. \A f \in DOMAIN msg.numbers : <<d, t, msg.numbers[f], f>> \in bound'
      BY <1>5, <2>1, <3>1
    <3>3. CASE t \notin kept
      <4>1. Unambiguous(msg)
        BY <1>4, <3>1, <3>3
      <4>2. Accounts(d, t, msg)'
        BY <1>5, <2>1, <3>1, <3>3 DEF Accounts
      <4> QED
        BY <3>2, <4>1, <4>2
    <3>4. CASE t \in kept /\ Nests(c, t)
      <4>1. Nests(d, t)'
        BY <1>2, <1>6, <2>1, <3>4
      <4> QED
        BY <3>2, <4>1
    <3>5. CASE t \in kept /\ ~Nests(c, t)
      <4>1. c \in DOMAIN protos /\ t \in DOMAIN protos[c].messages /\ Grown(protos[c].messages[t], msg)
        BY <1>4, <3>1, <3>5
      <4>2. Accounts(c, t, msg) /\ Unambiguous(msg)
        BY <3>5, <4>1, GoesOn DEF Good
      <4>3. Accounts(d, t, msg)'
        BY <1>5, <2>1, <3>1, <4>2 DEF Accounts
      <4> QED
        BY <3>2, <4>2, <4>3
    <3> QED
      BY <3>3, <3>4, <3>5
  <2>2. CASE d # c
    <3>1. d \in DOMAIN protos /\ d \notin D /\ t \in DOMAIN protos[d].messages /\ msg = protos[d].messages[t]
      BY <1>2, <1>8, <2>2
    <3>2. /\ \A f \in DOMAIN msg.numbers : <<d, t, msg.numbers[f], f>> \in bound
          /\ Nests(d, t) \/ (Accounts(d, t, msg) /\ Unambiguous(msg))
      BY <3>1 DEF Good, Given
    <3>3. \A f \in DOMAIN msg.numbers : <<d, t, msg.numbers[f], f>> \in bound'
      BY <1>5, <2>2, <3>1, <3>2
    <3>4. CASE Nests(d, t)
      BY <1>6, <2>2, <3>1, <3>3, <3>4
    <3>5. CASE Accounts(d, t, msg) /\ Unambiguous(msg)
      <4>1. Accounts(d, t, msg)'
        BY <1>5, <2>2, <3>5 DEF Accounts
      <4> QED
        BY <3>3, <3>5, <4>1
    <3> QED
      BY <3>2, <3>4, <3>5
  <2> QED
    BY <2>1, <2>2
<1>9. ASSUME NEW d, NEW t, NEW n, NEW f, NEW g, <<d, t, n, f>> \in bound', <<d, t, n, g>> \in bound'
      PROVE  f = g \/ Nests(d, t)'
  <2> DEFINE Old2 == <<d, t, n, f>> \in bound /\ <<d, t, n, g>> \in bound /\ d \notin D /\ (d = c => t \in kept)
  <2>1. CASE Old2
    <3>1. f = g \/ Nests(d, t)
      BY <2>1 DEF Good, Given
    <3> QED
      BY <1>6, <2>1, <3>1
  <2>2. CASE ~Old2
    <3>1. d = c /\ t \in DOMAIN proto.messages
      BY <1>5, <1>9, <2>2
    <3>2. PICK msg : msg = proto.messages[t]
      OBVIOUS
    <3>3. d \in DOMAIN protos' /\ t \in DOMAIN protos'[d].messages /\ msg = protos'[d].messages[t]
      BY <1>2, <3>1, <3>2
    <3>4. Nests(d, t)' \/ (Accounts(d, t, msg)' /\ Unambiguous(msg))
      BY <1>8, <3>3
    <3>5. CASE Accounts(d, t, msg)' /\ Unambiguous(msg)
      <4>1. (f \in DOMAIN msg.numbers /\ msg.numbers[f] = n) \/ n \in msg.reserved
        BY <1>9, <3>5 DEF Accounts
      <4>2. (g \in DOMAIN msg.numbers /\ msg.numbers[g] = n) \/ n \in msg.reserved
        BY <1>9, <3>5 DEF Accounts
      <4>3. (f \in DOMAIN msg.numbers /\ msg.numbers[f] = n) \/ (g \in DOMAIN msg.numbers /\ msg.numbers[g] = n)
        BY <1>5, <1>9, <2>2, <3>1, <3>2
      <4> QED
        BY <3>5, <4>1, <4>2, <4>3 DEF Unambiguous
    <3> QED
      BY <3>4, <3>5
  <2> QED
    BY <2>1, <2>2
<1> QED
  BY <1>7, <1>8, <1>9 DEF Given

-----------------------------------------------------------------------------
(* The other steps. *)

LEMMA FilesStay ==
  ASSUME Files, Given, UNCHANGED <<bank, protos, bound>>
  PROVE  Files' /\ Given'
<1>1. Files'
  BY DEF Files
<1>2. Given'
  BY DEF Given, Nests, Accounts
<1> QED
  BY <1>1, <1>2

LEMMA DescribedStay ==
  ASSUME Described, UNCHANGED <<bank, told, slips>>
  PROVE  Described'
  BY DEF Described

LEMMA AwaitedStay ==
  ASSUME Awaited, waiting' \subseteq waiting
  PROVE  Awaited'
  BY DEF Awaited

LEMMA ServersStay ==
  ASSUME OneServer, UNCHANGED <<bank, slips>>, serves' \subseteq serves
  PROVE  OneServer'
  BY DEF OneServer

\* The bindings are asked for.
LEMMA GenerateKeeps ==
  ASSUME Good, NEW change, NEW D, Generate(change, D), Fits(change, bank, protos, D)
  PROVE  Good'
<1>1. UNCHANGED <<bank, protos, nodes, serves, dials, told, bound, slips>>
  BY DEF Generate, grpcFiles
<1>2. PICK r : r = [op |-> "bind", id |-> left, change |-> change, deletes |-> D, bank |-> bank, protos |-> protos]
  OBVIOUS
<1>3. r.op = "bind" /\ r.change = change /\ r.deletes = D /\ r.bank = bank /\ r.protos = protos
  BY <1>2
<1>4. waiting' = waiting \union {r}
  BY <1>2 DEF Generate, Wait
<1>5. Awaited'
  <2> SUFFICES ASSUME NEW q \in waiting'
               PROVE  /\ q.op = "bind" => Fits(q.change, q.bank, q.protos, q.deletes)
                      /\ q.op = "custom" => q.type \in {"llm", "coordinator"}
    BY DEF Awaited
  <2>1. CASE q \in waiting
    BY <2>1 DEF Good, Awaited
  <2>2. CASE q = r
    BY <1>3, <2>2
  <2> QED
    BY <1>4, <2>1, <2>2
<1>6. Files' /\ Given' /\ Described' /\ OneServer'
  BY <1>1, FilesStay, DescribedStay, ServersStay DEF Good
<1>7. Wires'
  BY <1>1 DEF Good, Wires
<1> QED
  BY <1>5, <1>6, <1>7 DEF Good

LEMMA DeleteKeeps ==
  ASSUME Good, NEW deletes, DeleteContracts(deletes)
  PROVE  Good'
<1>1. /\ bank' = Minus(bank, deletes) /\ protos' = Minus(protos, deletes)
      /\ serves' = {x \in serves : x[2] \notin deletes} /\ dials' = {x \in dials : x[2] \notin deletes}
      /\ told' = {x \in told : x[1] \notin deletes} /\ bound' = {b \in bound : b[1] \notin deletes}
      /\ UNCHANGED <<nodes, waiting, slips>>
  BY DEF DeleteContracts, Scrub
<1>2. DOMAIN bank' = DOMAIN bank \ deletes /\ \A x \in DOMAIN bank' : bank'[x] = bank[x]
  BY <1>1 DEF Minus
<1>3. DOMAIN protos' = DOMAIN protos \ deletes /\ \A x \in DOMAIN protos' : protos'[x] = protos[x]
  BY <1>1 DEF Minus
<1>4. Files'
  BY <1>2, <1>3 DEF Good, Files
<1>5. Wires'
  BY <1>1, <1>2 DEF Good, Wires
<1>6. ASSUME NEW d, NEW t, NEW n, NEW f
      PROVE  <<d, t, n, f>> \in bound' <=> <<d, t, n, f>> \in bound /\ d \notin deletes
  BY <1>1
<1>7. Given'
  <2>1. \A b \in bound' : b = <<b[1], b[2], b[3], b[4]>> /\ b[1] \in DOMAIN protos' /\ b[2] \in DOMAIN protos'[b[1]].messages
    BY <1>1, <1>3 DEF Good, Given
  <2>2. ASSUME NEW d \in DOMAIN protos', NEW t \in DOMAIN protos'[d].messages, NEW msg, msg = protos'[d].messages[t]
        PROVE  /\ \A f \in DOMAIN msg.numbers : <<d, t, msg.numbers[f], f>> \in bound'
               /\ Nests(d, t)' \/ (Accounts(d, t, msg)' /\ Unambiguous(msg))
    <3>1. d \in DOMAIN protos /\ d \notin deletes /\ t \in DOMAIN protos[d].messages /\ msg = protos[d].messages[t]
      BY <1>3, <2>2
    <3>2. /\ \A f \in DOMAIN msg.numbers : <<d, t, msg.numbers[f], f>> \in bound
          /\ Nests(d, t) \/ (Accounts(d, t, msg) /\ Unambiguous(msg))
      BY <3>1 DEF Good, Given
    <3>3. Nests(d, t) => Nests(d, t)'
      BY <1>6, <3>1 DEF Nests
    <3>4. Accounts(d, t, msg) => Accounts(d, t, msg)'
      BY <1>6 DEF Accounts
    <3> QED
      BY <1>6, <3>1, <3>2, <3>3, <3>4
  <2>3. ASSUME NEW d, NEW t, NEW n, NEW f, NEW g, <<d, t, n, f>> \in bound', <<d, t, n, g>> \in bound'
        PROVE  f = g \/ Nests(d, t)'
    <3>1. d \notin deletes /\ (f = g \/ Nests(d, t))
      BY <1>6, <2>3 DEF Good, Given
    <3>2. Nests(d, t) => Nests(d, t)'
      BY <1>6, <3>1 DEF Nests
    <3> QED
      BY <3>1, <3>2
  <2> QED
    BY <2>1, <2>2, <2>3 DEF Given
<1>8. Described'
  BY <1>1, <1>2 DEF Good, Described
<1>9. OneServer'
  BY <1>1, <1>2 DEF Good, OneServer
<1>10. Awaited'
  BY <1>1, AwaitedStay DEF Good
<1> QED
  BY <1>4, <1>5, <1>7, <1>8, <1>9, <1>10 DEF Good

\* A description is written, and nothing else of the registry.
LEMMA Told ==
  ASSUME Good, NEW c \in DOMAIN bank, NEW ms \in SUBSET DOMAIN bank[c].methods, Tell(c, ms),
         UNCHANGED <<protos, bound, slips>>
  PROVE  /\ Files' /\ Given' /\ Described'
         /\ DOMAIN bank' = DOMAIN bank /\ \A d \in DOMAIN bank : bank'[d].source = bank[d].source
<1>1. PICK e, ms0 : e = bank[c] /\ ms0 = e.methods
  OBVIOUS
<1>2. e = [source |-> e.source, methods |-> ms0] /\ \A m \in DOMAIN ms0 : MethodOK(ms0[m])
  BY <1>1 DEF Good, Files, EntryOK
<1>3. PICK ms1 : ms1 = [m \in DOMAIN ms0 |-> IF m \in ms THEN [ms0[m] EXCEPT !.said = TRUE] ELSE ms0[m]]
  OBVIOUS
<1>4. PICK edited : edited = [e EXCEPT !.methods = ms1]
  OBVIOUS
<1>5. bank' = [bank EXCEPT ![c] = edited]
  BY <1>1, <1>3, <1>4 DEF Tell
<1>6. DOMAIN bank' = DOMAIN bank /\ bank'[c] = edited /\ \A d \in DOMAIN bank \ {c} : bank'[d] = bank[d]
  BY <1>5
<1>7. edited = [source |-> e.source, methods |-> ms1] /\ edited.source = e.source /\ edited.methods = ms1
  <2>1. PICK src : e = [source |-> src, methods |-> ms0] /\ src = e.source
    BY <1>2
  <2>2. edited = [source |-> src, methods |-> ms1]
    BY <1>4, <2>1
  <2> QED
    BY <2>1, <2>2
<1>8. ASSUME NEW m \in DOMAIN ms0
      PROVE  /\ MethodOK(ms1[m]) /\ ms1[m].locked = ms0[m].locked /\ ms1[m].fields = ms0[m].fields
             /\ (ms0[m].said \/ m \in ms) => ms1[m].said
  <2>1. CASE m \in ms
    <3>1. ms0[m] = [fields |-> ms0[m].fields, locked |-> ms0[m].locked, said |-> ms0[m].said] /\ ms0[m].fields \in SUBSET Field
      BY <1>2 DEF MethodOK
    <3>2. PICK fields, locked : fields = ms0[m].fields /\ locked = ms0[m].locked
      OBVIOUS
    <3>3. ms1[m] = [ms0[m] EXCEPT !.said = TRUE]
      BY <1>3, <2>1
    <3>4. ms1[m] = [fields |-> fields, locked |-> locked, said |-> TRUE]
      BY <3>1, <3>2, <3>3
    <3> QED
      BY <3>1, <3>2, <3>4 DEF MethodOK
  <2>2. CASE m \notin ms
    <3>1. ms1[m] = ms0[m]
      BY <1>3, <2>2
    <3> QED
      BY <1>2, <2>2, <3>1
  <2> QED
    BY <2>1, <2>2
<1>9. DOMAIN ms1 = DOMAIN ms0
  BY <1>3
<1>10. EntryOK(edited)
  BY <1>7, <1>8, <1>9 DEF EntryOK
<1>11. Files'
  <2>1. Agree(edited, protos[c])
    <3>1. Agree(e, protos[c])
      BY <1>1 DEF Good, Files
    <3> QED
      BY <1>1, <1>7, <1>8, <1>9, <3>1 DEF Agree
  <2>2. ASSUME NEW d \in DOMAIN bank
        PROVE  EntryOK(bank'[d]) /\ TextOK(protos[d]) /\ Agree(bank'[d], protos[d])
    <3>1. CASE d = c
      BY <1>6, <1>10, <2>1, <3>1 DEF Good, Files
    <3>2. CASE d # c
      BY <1>6, <3>2 DEF Good, Files
    <3> QED
      BY <3>1, <3>2
  <2> QED
    BY <1>6, <2>2 DEF Good, Files
<1>12. Given'
  BY DEF Good, Given, Nests, Accounts
<1>13. Described'
  <2> SUFFICES ASSUME "overwritten" \notin slips
               PROVE  /\ \A d, m : <<d, m>> \in told' =>
                           d \in DOMAIN bank' /\ m \in DOMAIN bank'[d].methods /\ bank'[d].methods[m].said
                      /\ \A x \in told' : x = <<x[1], x[2]>>
    BY DEF Described
  <2>1. told' = told \union ({c} \X ms)
    BY DEF Tell
  <2>2. ASSUME NEW d, NEW m, <<d, m>> \in told'
        PROVE  d \in DOMAIN bank' /\ m \in DOMAIN bank'[d].methods /\ bank'[d].methods[m].said
    <3>1. CASE <<d, m>> \in told
      <4>1. d \in DOMAIN bank /\ m \in DOMAIN bank[d].methods /\ bank[d].methods[m].said
        BY <3>1 DEF Good, Described
      <4>2. CASE d = c
        BY <1>1, <1>6, <1>7, <1>8, <1>9, <4>1, <4>2
      <4>3. CASE d # c
        BY <1>6, <4>1, <4>3
      <4> QED
        BY <4>2, <4>3
    <3>2. CASE d = c /\ m \in ms
      BY <1>1, <1>6, <1>7, <1>8, <1>9, <3>2
    <3> QED
      BY <2>1, <2>2, <3>1, <3>2
  <2>3. \A x \in told' : x = <<x[1], x[2]>>
    BY <2>1 DEF Good, Described
  <2> QED
    BY <2>2, <2>3
<1>14. \A d \in DOMAIN bank : bank'[d].source = bank[d].source
  BY <1>1, <1>6, <1>7
<1> QED
  BY <1>6, <1>11, <1>12, <1>13, <1>14

LEMMA DescribeKeeps ==
  ASSUME Good, NEW c, NEW m, DescribeMethod(c, m)
  PROVE  Good'
<1>1. c \in DOMAIN bank /\ {m} \in SUBSET DOMAIN bank[c].methods /\ Tell(c, {m})
      /\ UNCHANGED <<protos, nodes, serves, dials, waiting, bound, slips>>
  BY DEF DescribeMethod
<1>2. /\ Files' /\ Given' /\ Described'
      /\ DOMAIN bank' = DOMAIN bank /\ \A d \in DOMAIN bank : bank'[d].source = bank[d].source
  BY <1>1, Told
<1>3. Wires' /\ OneServer' /\ Awaited'
  BY <1>1, <1>2 DEF Good, Wires, OneServer, Awaited
<1> QED
  BY <1>2, <1>3 DEF Good

LEMMA AttachKeeps ==
  ASSUME Good, NEW s, NEW c, AttachContract(s, c)
  PROVE  Good'
<1>1. /\ s \in nodes /\ c \in DOMAIN bank /\ Servers(c, s) = {} /\ serves' = serves \union {<<s, c>>}
      /\ UNCHANGED <<protos, nodes, dials, waiting, bound, slips>>
  BY DEF AttachContract
<1>2. PICK ms \in SUBSET DOMAIN bank[c].methods : Tell(c, ms)
  BY DEF AttachContract
<1>3. /\ Files' /\ Given' /\ Described'
      /\ DOMAIN bank' = DOMAIN bank /\ \A d \in DOMAIN bank : bank'[d].source = bank[d].source
  BY <1>1, <1>2, Told
<1>4. Wires'
  BY <1>1, <1>3 DEF Good, Wires
<1>5. \A n : <<n, c>> \in serves => n = s
  BY <1>1 DEF Servers, Good, Wires
<1>6. OneServer'
  BY <1>1, <1>3, <1>5 DEF Good, OneServer
<1>7. Awaited'
  BY <1>1, AwaitedStay DEF Good
<1> QED
  BY <1>3, <1>4, <1>6, <1>7 DEF Good

\* Steps that leave the registry and the texts alone, and add no server.
LEMMA WiringKeeps ==
  ASSUME Good, UNCHANGED <<bank, protos, waiting, told, bound, slips>>, serves' \subseteq serves, Wires'
  PROVE  Good'
<1>1. Files' /\ Given' /\ Described' /\ OneServer' /\ Awaited'
  BY FilesStay, DescribedStay, ServersStay, AwaitedStay DEF Good
<1> QED
  BY <1>1 DEF Good

LEMMA DetachKeeps ==
  ASSUME Good, NEW s, NEW c, DetachContract(s, c)
  PROVE  Good'
<1>1. Wires'
  BY DEF Good, Wires, DetachContract
<1> QED
  BY <1>1, WiringKeeps DEF DetachContract

LEMMA WireKeeps ==
  ASSUME Good, NEW n, NEW c, NEW s, WireClient(n, c, s)
  PROVE  Good'
<1>1. Wires'
  BY DEF Good, Wires, WireClient
<1> QED
  BY <1>1, WiringKeeps DEF WireClient

LEMMA RemoveKeeps ==
  ASSUME Good, NEW s, RemoveService(s)
  PROVE  Good'
<1>1. Wires'
  BY DEF Good, Wires, RemoveService
<1> QED
  BY <1>1, WiringKeeps DEF RemoveService

-----------------------------------------------------------------------------
(* The contract that custom types bring. *)

LEMMA BroughtFits ==
  ASSUME NEW type, NEW e, e = Entry(type, AuthorsOwn(BroughtText, {}))
  PROVE  /\ EntryOK(e) /\ TextOK(BroughtText) /\ Agree(e, BroughtText) /\ e.source = type
         /\ \A t \in DOMAIN BroughtText.messages : BroughtText.messages[t] = Blank
<1>0. PICK m : m = CHOOSE x \in Method : TRUE
  OBVIOUS
<1>1. BroughtText = [type |-> [x \in {m} |-> m], messages |-> [x \in {m} |-> Blank]]
  BY <1>0 DEF BroughtText
<1>2. PICK u : u = BroughtText
  OBVIOUS
<1>3. /\ DOMAIN u.type = {m} /\ u.type[m] = m
      /\ DOMAIN u.messages = {m} /\ u.messages[m] = Blank
  BY <1>1, <1>2
<1>4. TextOK(u)
  BY <1>3, BlankIs DEF TextOK
<1>5. PICK ms : ms = AuthorsOwn(u, {}) /\ ms = [x \in DOMAIN u.type |-> [fields |-> {}, locked |-> TRUE, said |-> x \in {}]]
  BY DEF AuthorsOwn
<1>6. DOMAIN ms = DOMAIN u.type /\ \A x \in DOMAIN ms : ms[x] = [fields |-> {}, locked |-> TRUE, said |-> x \in {}]
  BY <1>5
<1>7. ASSUME NEW x \in DOMAIN ms
      PROVE  MethodOK(ms[x]) /\ ms[x].locked
  <2>1. ms[x] = [fields |-> {}, locked |-> TRUE, said |-> x \in {}]
    BY <1>6
  <2> QED
    BY <2>1, MethodSaid
<1>8. e.methods = ms /\ e.source = type /\ e = [source |-> e.source, methods |-> e.methods]
  <2>1. e = Entry(type, ms)
    BY <1>2, <1>5
  <2> QED
    BY <2>1, EntryIs
<1>9. EntryOK(e) /\ Agree(e, u)
  BY <1>6, <1>7, <1>8 DEF EntryOK, Agree
<1> QED
  BY <1>2, <1>3, <1>4, <1>8, <1>9

LEMMA AddCustomKeeps ==
  ASSUME Good, NEW n, NEW type \in {"llm", "coordinator"}, AddCustom(n, type)
  PROVE  Good'
<1>1. PICK e, u : e = Entry(type, AuthorsOwn(BroughtText, {})) /\ u = BroughtText
  OBVIOUS
<1>2. /\ EntryOK(e) /\ TextOK(u) /\ Agree(e, u) /\ e.source = type
      /\ \A t \in DOMAIN u.messages : u.messages[t] = Blank
  BY <1>1, BroughtFits
<1>3. /\ bank' = Put1(bank, Brought, e) /\ protos' = Put1(protos, Brought, u)
      /\ bound' = {b \in bound : b[1] # Brought}
      /\ slips' = IF Brought \in DOMAIN bank /\ bank[Brought] # bank'[Brought] THEN slips \union {"overwritten"} ELSE slips
      /\ UNCHANGED <<nodes, serves, dials, told>>
  BY <1>1 DEF AddCustom
<1>4. DOMAIN bank' = DOMAIN bank \union {Brought} /\ bank'[Brought] = e /\ \A d \in DOMAIN bank \ {Brought} : bank'[d] = bank[d]
  BY <1>3 DEF Put1
<1>5. DOMAIN protos' = DOMAIN protos \union {Brought} /\ protos'[Brought] = u
      /\ \A d \in DOMAIN protos \ {Brought} : protos'[d] = protos[d]
  BY <1>3 DEF Put1
<1>6. Files'
  <2>1. ASSUME NEW d \in DOMAIN bank'
        PROVE  EntryOK(bank'[d]) /\ TextOK(protos'[d]) /\ Agree(bank'[d], protos'[d])
    <3>1. CASE d = Brought
      BY <1>2, <1>4, <1>5, <3>1
    <3>2. CASE d # Brought
      BY <1>4, <1>5, <3>2 DEF Good, Files
    <3> QED
      BY <3>1, <3>2
  <2> QED
    BY <1>4, <1>5, <2>1 DEF Good, Files
<1>7. Wires'
  BY <1>3, <1>4 DEF Good, Wires
<1>8. ASSUME NEW d, NEW t, NEW m, NEW f
      PROVE  <<d, t, m, f>> \in bound' <=> <<d, t, m, f>> \in bound /\ d # Brought
  BY <1>3
<1>9. Given'
  <2>1. ASSUME NEW b \in bound'
        PROVE  b = <<b[1], b[2], b[3], b[4]>> /\ b[1] \in DOMAIN protos' /\ b[2] \in DOMAIN protos'[b[1]].messages
    <3>1. b \in bound /\ b[1] # Brought
      BY <1>3
    <3> QED
      BY <1>5, <3>1 DEF Good, Given
  <2>2. ASSUME NEW d \in DOMAIN protos', NEW t \in DOMAIN protos'[d].messages, NEW msg, msg = protos'[d].messages[t]
        PROVE  /\ \A f \in DOMAIN msg.numbers : <<d, t, msg.numbers[f], f>> \in bound'
               /\ Nests(d, t)' \/ (Accounts(d, t, msg)' /\ Unambiguous(msg))
    <3>1. CASE d = Brought
      <4>1. msg = Blank
        BY <1>2, <1>5, <2>2, <3>1
      <4>2. Accounts(d, t, msg)'
        BY <1>8, <3>1 DEF Accounts
      <4> QED
        BY <4>1, <4>2, BlankIs
    <3>2. CASE d # Brought
      <4>1. d \in DOMAIN protos /\ t \in DOMAIN protos[d].messages /\ msg = protos[d].messages[t]
        BY <1>5, <2>2, <3>2
      <4>2. /\ \A f \in DOMAIN msg.numbers : <<d, t, msg.numbers[f], f>> \in bound
            /\ Nests(d, t) \/ (Accounts(d, t, msg) /\ Unambiguous(msg))
        BY <4>1 DEF Good, Given
      <4>3. Nests(d, t) => Nests(d, t)'
        BY <1>8, <3>2 DEF Nests
      <4>4. Accounts(d, t, msg) => Accounts(d, t, msg)'
        BY <1>8 DEF Accounts
      <4> QED
        BY <1>8, <3>2, <4>2, <4>3, <4>4
    <3> QED
      BY <3>1, <3>2
  <2>3. ASSUME NEW d, NEW t, NEW m, NEW f, NEW g, <<d, t, m, f>> \in bound', <<d, t, m, g>> \in bound'
        PROVE  f = g \/ Nests(d, t)'
    <3>1. d # Brought /\ (f = g \/ Nests(d, t))
      BY <1>8, <2>3 DEF Good, Given
    <3>2. Nests(d, t) => Nests(d, t)'
      BY <1>8, <3>1 DEF Nests
    <3> QED
      BY <3>1, <3>2
  <2> QED
    BY <2>1, <2>2, <2>3 DEF Given
<1>10. Described'
  <2> SUFFICES ASSUME "overwritten" \notin slips'
               PROVE  /\ \A d, m : <<d, m>> \in told' =>
                           d \in DOMAIN bank' /\ m \in DOMAIN bank'[d].methods /\ bank'[d].methods[m].said
                      /\ \A x \in told' : x = <<x[1], x[2]>>
    BY DEF Described
  <2>1. "overwritten" \notin slips /\ \A d \in DOMAIN bank : bank'[d] = bank[d]
    BY <1>3, <1>4
  <2> QED
    BY <1>3, <1>4, <2>1 DEF Good, Described
<1>11. OneServer'
  <2>1. slips \subseteq slips'
    BY <1>3
  <2>2. bank'[Brought].source \notin {"form", "upload"}
    BY <1>2, <1>4
  <2> QED
    BY <1>3, <1>4, <2>1, <2>2 DEF Good, OneServer
<1>12. Awaited'
  <2>1. PICK r : r = [op |-> "custom", id |-> left, node |-> n, type |-> type, nodes |-> nodes, serves |-> serves, dials |-> dials]
    OBVIOUS
  <2>2. r.op = "custom" /\ r.type = type
    BY <2>1
  <2>3. waiting' = waiting \union {r}
    BY <2>1 DEF AddCustom, Wait
  <2> QED
    BY <2>2, <2>3 DEF Good, Awaited
<1> QED
  BY <1>6, <1>7, <1>9, <1>10, <1>11, <1>12 DEF Good

\* A service that the custom type brings serves a contract that may have several.
LEMMA ServesBrought ==
  ASSUME Good, Brought \in DOMAIN bank, bank[Brought].source \notin {"form", "upload"}, NEW n,
         serves' = serves \union {<<n, Brought>>}, slips \subseteq slips', UNCHANGED bank
  PROVE  OneServer'
  BY DEF Good, OneServer

LEMMA CustomAddedKeeps ==
  ASSUME Good, NEW r \in waiting, CustomAdded(r), Fine'
  PROVE  Good'
<1>1. /\ r.nodes = nodes /\ r.serves = serves /\ r.dials = dials
      /\ Brought \in DOMAIN bank /\ bank[Brought].source = r.type
  <2>1. slips' = slips \union (IF <<r.nodes, r.serves, r.dials>> # <<nodes, serves, dials>> THEN {"lost"} ELSE {})
                       \union (IF Brought \in DOMAIN bank /\ bank[Brought].source = r.type THEN {} ELSE {"overtaken"})
    BY DEF CustomAdded
  <2>2. "lost" \notin slips' /\ "overtaken" \notin slips'
    BY DEF Fine
  <2>3. <<r.nodes, r.serves, r.dials>> = <<nodes, serves, dials>>
    BY <2>1, <2>2
  <2> QED
    BY <2>1, <2>2, <2>3
<1>2. /\ nodes' = nodes \union {r.node} /\ serves' = serves \union {<<r.node, Brought>>} /\ dials' = dials
      /\ waiting' \subseteq waiting /\ slips \subseteq slips' /\ UNCHANGED <<bank, protos, told, bound>>
  BY <1>1 DEF CustomAdded
<1>3. r.type \in {"llm", "coordinator"}
  BY DEF CustomAdded, Good, Awaited
<1>4. Files' /\ Given'
  BY <1>2, FilesStay DEF Good
<1>5. Wires'
  BY <1>1, <1>2 DEF Good, Wires
<1>6. Described'
  BY <1>2 DEF Good, Described
<1>7. OneServer'
  BY <1>1, <1>2, <1>3, ServesBrought
<1>8. Awaited'
  BY <1>2, AwaitedStay DEF Good
<1> QED
  BY <1>4, <1>5, <1>6, <1>7, <1>8 DEF Good

LEMMA AddMemberKeeps ==
  ASSUME Good, NEW n, NEW b, NEW calls \in BOOLEAN, AddMember(n, b, calls)
  PROVE  Good'
<1>1. /\ n \notin nodes /\ <<b, Brought>> \in serves /\ Brought \in DOMAIN bank
      /\ bank[Brought].source \notin {"form", "upload"}
      /\ nodes' = nodes \union {n} /\ serves' = serves \union {<<n, Brought>>}
      /\ dials' \subseteq dials \union {<<n, Brought, b>>}
      /\ UNCHANGED <<bank, protos, waiting, told, bound, slips>>
  BY DEF AddMember
<1>2. Wires'
  BY <1>1 DEF Good, Wires
<1>3. OneServer'
  BY <1>1, ServesBrought
<1>4. Files' /\ Given' /\ Described' /\ Awaited'
  BY <1>1, FilesStay, DescribedStay, AwaitedStay DEF Good
<1> QED
  BY <1>2, <1>3, <1>4 DEF Good

-----------------------------------------------------------------------------
(* The theorem. *)

LEMMA SlipsGrow ==
  ASSUME BankNext
  PROVE  slips \subseteq slips'
  BY DEF BankNext, DeleteContracts, ApplyChanges, CreateContract, DescribeMethod, AttachContract, DetachContract,
         WireClient, RemoveService, AddCustom, AddMember, Generated, GenerateFails, CustomAdded, CustomFails, Generate

LEMMA FirstGood ==
  ASSUME BankInit
  PROVE  Good
<1>1. PICK x \in BankScopes :
        /\ bank = [c \in x.has |-> Entry("form", [m \in Method |-> FormMethod(Field \ Keyword)])]
        /\ protos = [c \in x.has |-> Synthesized(bank[c].methods, NoText)]
        /\ serves = {} /\ dials = {} /\ waiting = {} /\ told = {}
        /\ bound = UNION {Numbers(c, protos[c]) : c \in x.has}
  BY DEF BankInit
<1>2. PICK methods, e : methods = [m \in Method |-> FormMethod(Field \ Keyword)] /\ e = Entry("form", methods)
  OBVIOUS
<1>3. e.methods = methods /\ e = [source |-> e.source, methods |-> e.methods]
  BY <1>2, EntryIs
<1>4. EntryOK(e)
  <2>1. ASSUME NEW m \in Method
        PROVE  MethodOK(methods[m])
    <3>1. methods[m] = [fields |-> Field \ Keyword, locked |-> FALSE, said |-> FALSE]
      BY <1>2 DEF FormMethod
    <3> QED
      BY <3>1, MethodIs
  <2> QED
    BY <1>2, <1>3, <2>1 DEF EntryOK
<1>5. PICK proto : proto = Synthesized(methods, NoText)
  OBVIOUS
<1>6. TextOK(proto) /\ Agree(e, proto) /\ \A t \in DOMAIN proto.messages : Unambiguous(proto.messages[t])
  <2>1. /\ TextOK(proto) /\ Agree(e, proto)
        /\ \A t \in DOMAIN proto.messages \ DOMAIN NoText.messages : Unambiguous(proto.messages[t])
    BY <1>3, <1>4, <1>5, BlankIs, SynthesizedIs
  <2> QED
    BY <2>1, BlankIs
<1>7. DOMAIN bank = x.has /\ DOMAIN protos = x.has /\ \A c \in x.has : bank[c] = e /\ protos[c] = proto
  BY <1>1, <1>2, <1>3, <1>5
<1>8. Files /\ Wires /\ Described /\ OneServer /\ Awaited
  BY <1>1, <1>4, <1>6, <1>7 DEF Files, Wires, Described, OneServer, Awaited
<1>9. \A b : b \in bound <=> \E c \in x.has : b \in Numbers(c, proto)
  BY <1>1, <1>7
<1>10. ASSUME NEW d, NEW t, NEW n, NEW f
       PROVE  <<d, t, n, f>> \in bound <=>
                /\ d \in x.has /\ t \in DOMAIN proto.messages
                /\ f \in DOMAIN proto.messages[t].numbers /\ n = proto.messages[t].numbers[f]
  BY <1>9, NumberIs
<1>11. Given
  <2>1. ASSUME NEW b \in bound
        PROVE  b = <<b[1], b[2], b[3], b[4]>> /\ b[1] \in DOMAIN protos /\ b[2] \in DOMAIN protos[b[1]].messages
    <3>1. PICK c \in x.has : b \in Numbers(c, proto)
      BY <1>9
    <3>2. PICK t \in DOMAIN proto.messages : \E f \in DOMAIN proto.messages[t].numbers :
                 b = <<c, t, proto.messages[t].numbers[f], f>>
      BY <3>1, NumbersAre
    <3> QED
      BY <1>7, <3>2
  <2>2. ASSUME NEW d \in DOMAIN protos, NEW t \in DOMAIN protos[d].messages, NEW msg, msg = protos[d].messages[t]
        PROVE  /\ \A f \in DOMAIN msg.numbers : <<d, t, msg.numbers[f], f>> \in bound
               /\ Accounts(d, t, msg) /\ Unambiguous(msg)
    BY <1>6, <1>7, <1>10, <2>2 DEF Accounts
  <2>3. ASSUME NEW d, NEW t, NEW n, NEW f, NEW g, <<d, t, n, f>> \in bound, <<d, t, n, g>> \in bound
        PROVE  f = g
    BY <1>6, <1>10, <2>3 DEF Unambiguous
  <2> QED
    BY <2>1, <2>2, <2>3 DEF Given
<1> QED
  BY <1>8, <1>11 DEF Good

LEMMA StepGood ==
  ASSUME Good, BankNext, Fine'
  PROVE  Good'
<1>1. ASSUME NEW D \in SUBSET Contract, DeleteContracts(D)
      PROVE  Good'
  BY <1>1, DeleteKeeps
<1>2. ASSUME NEW c \in Contract, NEW D \in SUBSET Contract, ApplyChanges(c, D)
      PROVE  Good'
  <2>1. PICK ch \in Edits(c) \union Replacements(c) : Generate(ch, D)
    BY <1>2 DEF ApplyChanges
  <2>2. c \in DOMAIN bank \ D /\ Files
    BY <1>2 DEF ApplyChanges, Good
  <2>3. Fits(ch, bank, protos, D)
    BY <2>1, <2>2, EditFits, ReplacementFits
  <2> QED
    BY <2>1, <2>3, GenerateKeeps
<1>3. ASSUME NEW c \in Contract, CreateContract(c)
      PROVE  Good'
  <2>1. c \notin DOMAIN bank /\ c \notin DOMAIN protos
    BY <1>3 DEF CreateContract, Good, Files
  <2>2. PICK ch \in Creations(c) : Generate(ch, {})
    BY <1>3 DEF CreateContract
  <2>3. Fits(ch, bank, protos, {})
    BY <2>1, <2>2, CreationFits
  <2> QED
    BY <2>2, <2>3, GenerateKeeps
<1>4. ASSUME NEW r \in waiting, Generated(r)
      PROVE  Good'
  BY <1>4, GeneratedFiles, GeneratedDescribed, GeneratedGiven DEF Good
<1>5. ASSUME NEW r \in waiting, GenerateFails(r) \/ CustomFails(r)
      PROVE  Good'
  <2>1. UNCHANGED <<bank, protos, nodes, serves, dials, told, bound, slips>> /\ waiting' \subseteq waiting
    BY <1>5 DEF GenerateFails, CustomFails, grpcFiles
  <2>2. Wires'
    BY <2>1 DEF Good, Wires
  <2> QED
    BY <2>1, <2>2, FilesStay, DescribedStay, ServersStay, AwaitedStay DEF Good
<1>6. ASSUME NEW s \in Service, NEW c \in Contract, AttachContract(s, c) \/ DetachContract(s, c)
      PROVE  Good'
  BY <1>6, AttachKeeps, DetachKeeps
<1>7. ASSUME NEW n \in Service, NEW x \in serves, WireClient(n, x[2], x[1])
      PROVE  Good'
  BY <1>7, WireKeeps
<1>8. ASSUME NEW s \in Service, RemoveService(s)
      PROVE  Good'
  BY <1>8, RemoveKeeps
<1>9. ASSUME NEW n \in Service, NEW type \in {"llm", "coordinator"}, AddCustom(n, type)
      PROVE  Good'
  BY <1>9, AddCustomKeeps
<1>10. ASSUME NEW n \in Service, NEW b \in Service, NEW calls \in BOOLEAN, AddMember(n, b, calls)
       PROVE  Good'
  BY <1>10, AddMemberKeeps
<1>11. ASSUME NEW r \in waiting, CustomAdded(r)
       PROVE  Good'
  BY <1>11, CustomAddedKeeps
<1>12. ASSUME NEW c \in Contract, NEW m \in Method, DescribeMethod(c, m)
       PROVE  Good'
  BY <1>12, DescribeKeeps
<1> QED
  BY <1>1, <1>2, <1>3, <1>4, <1>5, <1>6, <1>7, <1>8, <1>9, <1>10, <1>11, <1>12 DEF BankNext

LEMMA GoodHolds ==
  ASSUME BankInv
  PROVE  ContractsHold
<1> SUFFICES ASSUME Good
             PROVE  /\ TextsAgree /\ NumbersKept
                    /\ "overwritten" \notin slips => \A x \in told : bank[x[1]].methods[x[2]].said
                    /\ slips \intersect {"overwritten", "retyped"} = {} =>
                         \A c \in DOMAIN bank : bank[c].source \in {"form", "upload"} =>
                           \A n \in nodes : <<n, c>> \in serves => Servers(c, n) = {}
  BY DEF BankInv, Fine, ContractsHold
<1>1. TextsAgree
  BY DEF TextsAgree, Good, Files, Wires, Agree
<1>2. NumbersKept
  <2> SUFFICES ASSUME NEW b \in bound, NEW d \in bound, b[1] = d[1] /\ b[2] = d[2] /\ b[3] = d[3] /\ b[4] # d[4]
               PROVE  \E e \in bound : e[1] = b[1] /\ e[2] = b[2] /\ e[4] \in Keyword
    BY DEF NumbersKept
  <2>1. PICK c, t, n, f, g : b = <<c, t, n, f>> /\ d = <<c, t, n, g>> /\ f # g
    BY DEF Good, Given
  <2>2. Nests(c, t)
    BY <2>1 DEF Good, Given
  <2>3. PICK o, k : k \in Keyword /\ <<c, t, o, k>> \in bound
    BY <2>2 DEF Nests
  <2> QED
    BY <2>1, <2>3
<1>3. "overwritten" \notin slips => \A x \in told : bank[x[1]].methods[x[2]].said
  BY DEF Good, Described
<1>4. slips \intersect {"overwritten", "retyped"} = {} =>
        \A c \in DOMAIN bank : bank[c].source \in {"form", "upload"} =>
          \A n \in nodes : <<n, c>> \in serves => Servers(c, n) = {}
  BY DEF Good, OneServer, Servers
<1> QED
  BY <1>1, <1>2, <1>3, <1>4

\* Whatever is edited, uploaded, attached and deleted, however many requests are under
\* way: the registry, the texts and the manifest agree, a field number keeps its
\* meaning, descriptions outlive edits and a contract has one server (grpc.js).
THEOREM ContractsKept == BankSpec => []ContractsHold
<1>1. BankInit => BankInv
  BY FirstGood DEF BankInv
<1>2. BankInv /\ [BankNext]_bankVars => BankInv'
  <2> SUFFICES ASSUME BankInv, [BankNext]_bankVars, Fine'
               PROVE  Good'
    BY DEF BankInv
  <2>1. CASE BankNext
    <3>1. Fine
      BY <2>1, SlipsGrow DEF Fine
    <3> QED
      BY <2>1, <3>1, StepGood DEF BankInv
  <2>2. CASE UNCHANGED bankVars
    <3>1. UNCHANGED <<bank, protos, nodes, serves, dials, told, bound, slips, waiting>>
      BY <2>2 DEF bankVars, grpcFiles
    <3>2. Good
      BY <3>1 DEF BankInv, Fine
    <3>3. Wires'
      BY <3>1, <3>2 DEF Good, Wires
    <3> QED
      BY <3>1, <3>2, <3>3, FilesStay, DescribedStay, ServersStay, AwaitedStay DEF Good
  <2> QED
    BY <2>1, <2>2
<1>3. BankInv => ContractsHold
  BY GoodHolds
<1> QED
  BY <1>1, <1>2, <1>3, PTL DEF BankSpec
-----------------------------------------------------------------------------
(* ConsoleViews. *)

SourceKind == {"plain", "gated", "keyed", "merged", "nodes"}
Ids == Places[source] \union {Whole}
ManifestText == [ids : SUBSET Places[source], edition : Nat]
AnswerKind == {NoAnswer} \union Nat \union ManifestText
PollRecord(ids, values) ==
  [of : {"manifest", "view"}, todo : SUBSET ids, got : UNION {[D -> values] : D \in SUBSET ids},
   cancelled : BOOLEAN, latest : BOOLEAN]

\* What the effect that runs is polled for.
Wanted == KeyOf(manifest)

\* A poll has still to ask, or has got, everything it is for.
PollFits(p, for) ==
  /\ p.of = "manifest" => ~p.cancelled /\ p.todo \union DOMAIN p.got = {Whole}
  /\ p.of = "view" /\ ~p.cancelled => p.todo \union DOMAIN p.got = for
  /\ p.todo \intersect DOMAIN p.got = {}

\* A poll asked after the server's last change tells of the server as it is, if at all.
Current(p, t, f) ==
  p.latest => \A i \in DOMAIN p.got : p.got[i] = NoAnswer \/ p.got[i] = IF p.of = "manifest" THEN t ELSE f[i]

\* The manifests that are about: the server's, the one shown, and those read but not shown yet.
HasRead(p) == p.of = "manifest" /\ Whole \in DOMAIN p.got /\ p.got[Whole] # NoAnswer
About(m) == m = text \/ m = manifest \/ \E n \in 1..Len(polls) : HasRead(polls[n]) /\ m = polls[n].got[Whole]

ViewsTypes ==
  /\ source \in DOMAIN Places /\ source \in SourceKind
  /\ text \in ManifestText /\ manifest \in ManifestText /\ figures \in [Ids -> Nat]
  /\ renewed \in BOOLEAN /\ slow \in BOOLEAN
  /\ polls \in Seq(PollRecord(Ids, AnswerKind))

PollsFit ==
  \A n \in 1..Len(polls) :
    /\ PollFits(polls[n], Wanted) /\ Current(polls[n], text, figures)
    /\ polls[n].of = "view" /\ ~polls[n].cancelled => ~Shut(manifest)

\* An edition of the manifest is one text, and none is newer than the server's.
EditionsAgree ==
  \A m, k : About(m) /\ About(k) =>
    m \in ManifestText /\ m.edition <= text.edition /\ (m.edition = k.edition => m = k)

Believed(p) == ~p.cancelled
OneOfEach ==
  \A n, k \in 1..Len(polls) : Believed(polls[n]) /\ Believed(polls[k]) /\ polls[n].of = polls[k].of => n = k

\* What has been answered since the server's last change is shown, and what is still asked is newer.
UpToDate ==
  /\ "manifest" \in asOf =>
       manifest = text /\ \A n \in 1..Len(polls) : polls[n].of = "manifest" => polls[n].latest
  /\ "view" \in asOf =>
       /\ view = [i \in Wanted |-> figures[i]]
       /\ \A n \in 1..Len(polls) : polls[n].of = "view" /\ Believed(polls[n]) => polls[n].latest

ViewsInv ==
  /\ ViewsTypes /\ PollsFit /\ EditionsAgree /\ NothingLeftBehind
  /\ ~slow => OneOfEach /\ UpToDate

-----------------------------------------------------------------------------
LEMMA KeyIs ==
  ASSUME ViewsTypes, NEW m \in ManifestText
  PROVE  /\ KeyOf(m) \subseteq Ids
         /\ source \in {"keyed", "nodes"} => KeyOf(m) = m.ids
         /\ source # "nodes" => Depends(m) = KeyOf(m)
         /\ source = "nodes" => Depends(m) = m.edition /\ ~Shut(m)
         /\ Shut(m) => KeyOf(m) = {}
BY DEF ViewsTypes, KeyOf, Depends, Shut, Ids, ManifestText, SourceKind

\* The source is of one kind for good.
LEMMA WantedIs ==
  ASSUME ViewsTypes, source' = source
  PROVE  /\ Wanted' = KeyOf(manifest') /\ Ids' = Ids /\ ManifestText' = ManifestText /\ AnswerKind' = AnswerKind
         /\ Shut(manifest)' = Shut(manifest')
BY DEF Wanted, KeyOf, Ids, ManifestText, AnswerKind, Shut

LEMMA SamePlace ==
  ASSUME ViewsTypes, source' = source, manifest' = manifest
  PROVE  /\ Wanted' = Wanted /\ Ids' = Ids /\ ManifestText' = ManifestText /\ AnswerKind' = AnswerKind
         /\ Shut(manifest)' = Shut(manifest)
BY DEF Wanted, KeyOf, Ids, ManifestText, AnswerKind, Shut

LEMMA PollsAre ==
  ASSUME ViewsTypes
  PROVE  /\ Len(polls) \in Nat /\ DOMAIN polls = 1..Len(polls)
         /\ \A n \in 1..Len(polls) : polls[n] \in PollRecord(Ids, AnswerKind)
BY LenProperties, ElementOfSeq DEF ViewsTypes

\* What a poll has got is a function, and is equal to another by its values.
LEMMA GotIs ==
  ASSUME NEW ids, NEW values, NEW p \in PollRecord(ids, values)
  PROVE  /\ DOMAIN p.got \subseteq ids /\ p.got \in [DOMAIN p.got -> values]
         /\ p.todo \subseteq ids /\ p.of \in {"manifest", "view"} /\ p.cancelled \in BOOLEAN /\ p.latest \in BOOLEAN
BY DEF PollRecord

\* One answer more.
LEMMA AnswerIs ==
  ASSUME NEW ids, NEW values, NEW p \in PollRecord(ids, values), NEW i \in p.todo, NEW v \in values
  PROVE  /\ Answer1(p, i, v) \in PollRecord(ids, values)
         /\ Answer1(p, i, v).of = p.of /\ Answer1(p, i, v).todo = p.todo \ {i}
         /\ Answer1(p, i, v).cancelled = p.cancelled /\ Answer1(p, i, v).latest = p.latest
         /\ DOMAIN Answer1(p, i, v).got = DOMAIN p.got \union {i}
         /\ Answer1(p, i, v).got[i] = v /\ \A j \in DOMAIN p.got \ {i} : Answer1(p, i, v).got[j] = p.got[j]
<1>1. /\ DOMAIN p.got \subseteq ids /\ p.got \in [DOMAIN p.got -> values]
      /\ p.todo \subseteq ids /\ p.of \in {"manifest", "view"} /\ p.cancelled \in BOOLEAN /\ p.latest \in BOOLEAN
  BY GotIs
<1>2. PICK g : g = [j \in DOMAIN p.got \union {i} |-> IF j = i THEN v ELSE p.got[j]]
  OBVIOUS
<1>3. /\ DOMAIN g = DOMAIN p.got \union {i} /\ g[i] = v /\ \A j \in DOMAIN p.got \ {i} : g[j] = p.got[j]
      /\ g \in [DOMAIN p.got \union {i} -> values]
  BY <1>1, <1>2
<1>4. PICK q : q = [of |-> p.of, todo |-> p.todo \ {i}, got |-> g, cancelled |-> p.cancelled, latest |-> p.latest]
  OBVIOUS
<1>5. g \in UNION {[D -> values] : D \in SUBSET ids}
  BY <1>1, <1>3
<1>6. q \in PollRecord(ids, values)
  BY <1>1, <1>4, <1>5 DEF PollRecord
<1>7. Answer1(p, i, v) = q
  <2>1. p = [of |-> p.of, todo |-> p.todo, got |-> p.got, cancelled |-> p.cancelled, latest |-> p.latest]
    BY DEF PollRecord
  <2>2. PICK a : a = [of |-> p.of, todo |-> p.todo \ {i}, got |-> p.got, cancelled |-> p.cancelled, latest |-> p.latest]
    OBVIOUS
  <2>3. [p EXCEPT !.todo = @ \ {i}] = a
    BY <2>1, <2>2
  <2>4. [a EXCEPT !.got = g] = q
    BY <1>4, <2>2
  <2> QED
    BY <1>2, <2>3, <2>4 DEF Answer1
<1> QED
  BY <1>3, <1>4, <1>6, <1>7

LEMMA PollIs ==
  ASSUME NEW all, NEW values, NEW of \in {"manifest", "view"}, NEW ids \in SUBSET all
  PROVE  /\ Poll(of, ids) \in PollRecord(all, values)
         /\ Poll(of, ids).of = of /\ Poll(of, ids).todo = ids /\ ~Poll(of, ids).cancelled /\ Poll(of, ids).latest
         /\ DOMAIN Poll(of, ids).got = {}
<1>1. DOMAIN <<>> = {}
  OBVIOUS
<1>2. <<>> \in [{} -> values]
  OBVIOUS
<1>3. <<>> \in UNION {[D -> values] : D \in SUBSET all}
  BY <1>2
<1> QED
  BY <1>1, <1>3 DEF Poll, PollRecord


-----------------------------------------------------------------------------
(* The steps. *)

\* The server's text and the manifest shown are as before, and nothing else has been read.
LEMMA EditionsStay ==
  ASSUME ViewsTypes, EditionsAgree, source' = source, text' = text, \A m : About(m)' => About(m)
  PROVE  EditionsAgree'
<1>1. ManifestText' = ManifestText
  BY DEF ManifestText
<1> QED
  BY <1>1 DEF EditionsAgree

\* What the source shows is untouched, and it is wanted for the same.
LEMMA LeftAsBefore ==
  ASSUME ViewsTypes, NothingLeftBehind, UNCHANGED <<source, manifest, view, renewed>>
  PROVE  NothingLeftBehind'
<1>1. Wanted' = Wanted /\ Shut(manifest)' = Shut(manifest)
  BY SamePlace
<1> QED
  BY <1>1 DEF NothingLeftBehind, Wanted

LEMMA TicksStep ==
  ASSUME ViewsInv, NEW of \in {"manifest", "view"}, NEW ids, Ticks(of, ids),
         of = "manifest" => ids = {Whole}, of = "view" => ids = Wanted /\ ~Shut(manifest)
  PROVE  ViewsInv'
<1>1. /\ polls' = Append(polls, Poll(of, ids)) /\ slow' = (slow \/ PollsOf(of) # {})
      /\ UNCHANGED <<source, text, figures, manifest, view, renewed, asOf>>
  BY DEF Ticks, serverSide
<1>2. ViewsTypes /\ EditionsAgree /\ NothingLeftBehind /\ PollsFit
  BY DEF ViewsInv
<1>3. Wanted' = Wanted /\ Ids' = Ids /\ ManifestText' = ManifestText /\ AnswerKind' = AnswerKind /\ Shut(manifest)' = Shut(manifest)
  BY <1>1, <1>2, SamePlace
<1>4. Wanted \subseteq Ids /\ Whole \in Ids
  BY <1>2, KeyIs DEF Wanted, ViewsTypes, Ids
<1>5. PICK p : p = Poll(of, ids)
  OBVIOUS
<1>6. /\ p \in PollRecord(Ids, AnswerKind) /\ p.of = of /\ p.todo = ids /\ ~p.cancelled /\ p.latest /\ DOMAIN p.got = {}
  <2>1. ids \in SUBSET Ids
    BY <1>4
  <2> QED
    BY <1>5, <2>1, PollIs
<1>7. /\ polls' \in Seq(PollRecord(Ids, AnswerKind)) /\ Len(polls') = Len(polls) + 1 /\ Len(polls) \in Nat
      /\ polls'[Len(polls) + 1] = p /\ \A n \in 1..Len(polls) : polls'[n] = polls[n]
  BY <1>1, <1>2, <1>5, <1>6, AppendProperties, PollsAre DEF ViewsTypes
<1>8. \A n \in 1..Len(polls') : (n \in 1..Len(polls) /\ polls'[n] = polls[n]) \/ (n = Len(polls) + 1 /\ polls'[n] = p)
  BY <1>7
<1>9. ViewsTypes'
  BY <1>1, <1>2, <1>3, <1>7 DEF ViewsTypes
<1>10. PollFits(p, Wanted) /\ Current(p, text, figures)
  BY <1>6 DEF PollFits, Current
<1>11. PollsFit'
  BY <1>1, <1>2, <1>3, <1>6, <1>8, <1>10 DEF PollsFit
<1>12. EditionsAgree'
  <2>1. ~HasRead(p)
    BY <1>6 DEF HasRead
  <2>2. \A m : About(m)' => About(m)
    BY <1>1, <1>8, <2>1 DEF About
  <2> QED
    BY <1>1, <1>2, <2>2, EditionsStay
<1>13. NothingLeftBehind'
  BY <1>1, <1>2, LeftAsBefore
<1>14. ASSUME ~slow' PROVE OneOfEach' /\ UpToDate'
  <2>1. PollsOf(of) = {} /\ OneOfEach /\ UpToDate
    BY <1>1, <1>14 DEF ViewsInv, ViewsTypes
  <2>2. \A n \in 1..Len(polls) : ~(Believed(polls[n]) /\ polls[n].of = of)
    BY <1>2, <2>1, PollsAre DEF PollsOf, Believed
  <2>3. OneOfEach'
    BY <1>6, <1>8, <2>1, <2>2 DEF OneOfEach
  <2>4. UpToDate'
    BY <1>1, <1>3, <1>6, <1>8, <2>1 DEF UpToDate
  <2> QED
    BY <2>3, <2>4
<1> QED
  BY <1>9, <1>11, <1>12, <1>13, <1>14 DEF ViewsInv

LEMMA ReadsStep ==
  ASSUME ViewsInv, NEW n \in DOMAIN polls, NEW i \in Ids, Reads(n, i)
  PROVE  ViewsInv'
<1>1. PICK v : /\ v = NoAnswer \/ v = IF polls[n].of = "manifest" THEN text ELSE figures[i]
               /\ polls' = [polls EXCEPT ![n] = Answer1(polls[n], i, v)]
  BY DEF Reads
<1>2. i \in polls[n].todo /\ UNCHANGED <<source, text, figures, manifest, view, renewed, asOf, slow>>
  BY DEF Reads, serverSide
<1>3. ViewsTypes /\ EditionsAgree /\ NothingLeftBehind /\ PollsFit
  BY DEF ViewsInv
<1>4. Wanted' = Wanted /\ Ids' = Ids /\ ManifestText' = ManifestText /\ AnswerKind' = AnswerKind /\ Shut(manifest)' = Shut(manifest)
  BY <1>2, <1>3, SamePlace
<1>5. n \in 1..Len(polls) /\ polls[n] \in PollRecord(Ids, AnswerKind) /\ Len(polls) \in Nat
  BY <1>3, PollsAre
<1>6. v \in AnswerKind
  BY <1>1, <1>3 DEF ViewsTypes, AnswerKind
<1>7. PICK p : p = polls[n]
  OBVIOUS
<1>8. PICK q : q = Answer1(p, i, v)
  OBVIOUS
<1>9. /\ q \in PollRecord(Ids, AnswerKind) /\ q.of = p.of /\ q.todo = p.todo \ {i} /\ q.cancelled = p.cancelled /\ q.latest = p.latest
      /\ DOMAIN q.got = DOMAIN p.got \union {i} /\ q.got[i] = v /\ \A j \in DOMAIN p.got \ {i} : q.got[j] = p.got[j]
  BY <1>2, <1>5, <1>6, <1>7, <1>8, AnswerIs
<1>10. /\ polls' \in Seq(PollRecord(Ids, AnswerKind)) /\ Len(polls') = Len(polls) /\ polls'[n] = q
       /\ \A k \in 1..Len(polls) : k # n => polls'[k] = polls[k]
  <2>1. polls' = [polls EXCEPT ![n] = q] /\ polls \in Seq(PollRecord(Ids, AnswerKind))
    BY <1>1, <1>3, <1>7, <1>8 DEF ViewsTypes
  <2> QED
    BY <1>5, <1>9, <2>1
<1>11. ViewsTypes'
  BY <1>2, <1>3, <1>4, <1>10 DEF ViewsTypes
<1>12. PollFits(p, Wanted) /\ Current(p, text, figures) /\ (p.of = "view" /\ ~p.cancelled => ~Shut(manifest))
  BY <1>3, <1>5, <1>7 DEF PollsFit
<1>13. PollFits(q, Wanted)
  BY <1>2, <1>7, <1>9, <1>12 DEF PollFits
<1>14. Current(q, text, figures)
  BY <1>1, <1>7, <1>9, <1>12 DEF Current
<1>15. PollsFit'
  BY <1>2, <1>3, <1>4, <1>9, <1>10, <1>12, <1>13, <1>14 DEF PollsFit
<1>16. EditionsAgree'
  <2>1. ASSUME HasRead(q) PROVE About(q.got[Whole])
    <3>1. CASE i = Whole
      BY <1>1, <1>7, <1>9, <2>1, <3>1 DEF HasRead, About
    <3>2. CASE i # Whole
      BY <1>5, <1>7, <1>9, <2>1, <3>2 DEF HasRead, About
    <3> QED
      BY <3>1, <3>2
  <2>2. \A m : About(m)' => About(m)
    BY <1>2, <1>10, <2>1 DEF About
  <2> QED
    BY <1>2, <1>3, <2>2, EditionsStay
<1>17. NothingLeftBehind'
  BY <1>2, <1>3, LeftAsBefore
<1>18. ASSUME ~slow PROVE OneOfEach' /\ UpToDate'
  <2>1. OneOfEach /\ UpToDate
    BY <1>18 DEF ViewsInv
  <2>2. \A k \in 1..Len(polls') : k \in 1..Len(polls) /\ polls'[k].of = polls[k].of /\ polls'[k].cancelled = polls[k].cancelled
                                  /\ polls'[k].latest = polls[k].latest
    BY <1>5, <1>7, <1>9, <1>10
  <2>3. OneOfEach'
    BY <2>1, <2>2 DEF OneOfEach, Believed
  <2>4. UpToDate'
    BY <1>2, <1>4, <2>1, <2>2 DEF UpToDate, Believed
  <2> QED
    BY <2>3, <2>4
<1> QED
  BY <1>2, <1>11, <1>15, <1>16, <1>17, <1>18 DEF ViewsInv

\* The polls that remain when one is done with.
At(n, i) == IF i < n THEN i ELSE i + 1
LEMMA OthersAre ==
  ASSUME ViewsTypes, NEW n \in 1..Len(polls)
  PROVE  /\ RemoveAt(polls, n) \in Seq(PollRecord(Ids, AnswerKind))
         /\ Len(RemoveAt(polls, n)) \in Nat
         /\ \A i \in 1..Len(RemoveAt(polls, n)) :
              /\ At(n, i) \in 1..Len(polls) \ {n} /\ RemoveAt(polls, n)[i] = polls[At(n, i)]
              /\ \A j \in 1..Len(RemoveAt(polls, n)) : At(n, i) = At(n, j) => i = j
<1>1. polls \in Seq(PollRecord(Ids, AnswerKind)) /\ Len(polls) \in Nat
  BY PollsAre DEF ViewsTypes
<1>2. /\ RemoveAt(polls, n) \in Seq(PollRecord(Ids, AnswerKind)) /\ Len(RemoveAt(polls, n)) = Len(polls) - 1
      /\ \A i \in 1..Len(polls) - 1 : RemoveAt(polls, n)[i] = IF i < n THEN polls[i] ELSE polls[i + 1]
  BY <1>1, RemoveAtProperties
<1>3. \A i \in 1..Len(polls) - 1 : At(n, i) \in 1..Len(polls) \ {n} /\ \A j \in 1..Len(polls) - 1 : At(n, i) = At(n, j) => i = j
  BY <1>1 DEF At
<1>4. \A i \in 1..Len(polls) - 1 : RemoveAt(polls, n)[i] = polls[At(n, i)]
  BY <1>2 DEF At
<1> QED
  BY <1>1, <1>2, <1>3, <1>4


\* What the polls that remain keep, if the manifest is still wanted for the same.
LEMMA OthersFit ==
  ASSUME ViewsTypes, PollsFit, NEW n \in 1..Len(polls), polls' = RemoveAt(polls, n),
         UNCHANGED <<source, text, figures>>, Wanted' = Wanted, Shut(manifest)' <=> Shut(manifest)
  PROVE  /\ PollsFit'
         /\ OneOfEach => OneOfEach'
<1>1. \A i \in 1..Len(polls') : At(n, i) \in 1..Len(polls) \ {n} /\ polls'[i] = polls[At(n, i)]
                                /\ \A j \in 1..Len(polls') : At(n, i) = At(n, j) => i = j
  BY OthersAre
<1>2. \A i \in 1..Len(polls') : /\ PollFits(polls'[i], Wanted') /\ Current(polls'[i], text', figures')
                                /\ polls'[i].of = "view" /\ ~polls'[i].cancelled => ~Shut(manifest)
  BY <1>1 DEF PollsFit
<1>3. PollsFit'
  BY <1>2 DEF PollsFit
<1>4. OneOfEach => OneOfEach'
  BY <1>1 DEF OneOfEach, Believed
<1> QED
  BY <1>3, <1>4

LEMMA ViewReturnsStep ==
  ASSUME ViewsInv, NEW n \in DOMAIN polls, ViewReturns(n)
  PROVE  ViewsInv'
<1>1. /\ polls[n].of = "view" /\ polls[n].todo = {} /\ polls' = RemoveAt(polls, n)
      /\ UNCHANGED <<source, text, figures, manifest, slow>>
  BY DEF ViewReturns, serverSide
<1>2. ViewsTypes /\ EditionsAgree /\ NothingLeftBehind /\ PollsFit /\ n \in 1..Len(polls)
  BY PollsAre DEF ViewsInv
<1>3. Wanted' = Wanted /\ Ids' = Ids /\ ManifestText' = ManifestText /\ AnswerKind' = AnswerKind /\ (Shut(manifest)' <=> Shut(manifest))
  BY <1>1, <1>2, SamePlace
<1>4. /\ polls' \in Seq(PollRecord(Ids, AnswerKind))
      /\ \A i \in 1..Len(polls') : /\ At(n, i) \in 1..Len(polls) \ {n} /\ polls'[i] = polls[At(n, i)]
                                   /\ \A j \in 1..Len(polls') : At(n, i) = At(n, j) => i = j
  BY <1>1, <1>2, OthersAre
<1>5. PollsFit' /\ (OneOfEach => OneOfEach')
  BY <1>1, <1>2, <1>3, OthersFit
<1>6. EditionsAgree'
  <2>1. \A m : About(m)' => About(m)
    BY <1>1, <1>4 DEF About
  <2> QED
    BY <1>1, <1>2, <2>1, EditionsStay
<1>7. PICK p : p = polls[n]
  OBVIOUS
<1>8. p \in PollRecord(Ids, AnswerKind) /\ p.of = "view" /\ p.todo = {}
  BY <1>1, <1>2, <1>7, PollsAre
<1>9. /\ ~p.cancelled => DOMAIN p.got = Wanted /\ ~Shut(manifest)
      /\ p.latest => \A i \in DOMAIN p.got : p.got[i] = NoAnswer \/ p.got[i] = figures[i]
  BY <1>2, <1>7, <1>8 DEF PollsFit, PollFits, Current
<1>10. Failing(p) \subseteq DOMAIN p.got /\ p.got = [i \in DOMAIN p.got |-> p.got[i]] /\ p.cancelled \in BOOLEAN
  BY <1>8, GotIs DEF Failing
<1> DEFINE whole == source \in {"plain", "gated"}
<1>11. /\ ~p.cancelled =>
            /\ view' = After(p) /\ renewed' = (renewed \/ ~whole \/ Failing(p) = {})
            /\ asOf' = (IF whole \/ Failing(p) = {} THEN asOf ELSE asOf \ {"view"})
                       \union (IF p.latest /\ Failing(p) = {} THEN {"view"} ELSE {})
       /\ p.cancelled => UNCHANGED <<view, renewed, asOf>>
  BY <1>7 DEF ViewReturns
<1>12. /\ whole /\ Failing(p) = {} => After(p) = p.got
       /\ whole /\ Failing(p) # {} => After(p) = view
       /\ source \in {"keyed", "merged"} => After(p) = [i \in DOMAIN p.got \ Failing(p) |-> p.got[i]]
       /\ source = "nodes" => After(p) = p.got
  BY DEF After
<1>13. source \in SourceKind /\ renewed \in BOOLEAN
  BY <1>2 DEF ViewsTypes
<1>14. renewed' \in BOOLEAN
  BY <1>10, <1>11, <1>13
<1>15. ViewsTypes'
  BY <1>1, <1>2, <1>3, <1>4, <1>14 DEF ViewsTypes
<1>16. NothingLeftBehind'
  <2>1. CASE p.cancelled
    BY <1>1, <1>2, <1>11, <2>1, LeftAsBefore
  <2>2. CASE ~p.cancelled
    <3>1. Shut(manifest)' = FALSE
      BY <1>3, <1>9, <2>2
    <3>2. ASSUME renewed' PROVE DOMAIN view' \subseteq Wanted /\ (source = "nodes" => DOMAIN view' = Wanted)
      <4>1. CASE whole /\ Failing(p) # {}
        BY <1>2, <1>11, <1>12, <2>2, <3>2, <4>1 DEF NothingLeftBehind, Wanted
      <4>2. CASE whole /\ Failing(p) = {}
        BY <1>9, <1>11, <1>12, <2>2, <4>2
      <4>3. CASE source \in {"keyed", "merged"}
        BY <1>9, <1>11, <1>12, <2>2, <4>3
      <4>4. CASE source = "nodes"
        BY <1>9, <1>11, <1>12, <2>2, <4>4
      <4> QED
        BY <1>13, <4>1, <4>2, <4>3, <4>4 DEF SourceKind
    <3> QED
      BY <1>1, <1>3, <3>1, <3>2 DEF NothingLeftBehind, Wanted
  <2> QED
    BY <2>1, <2>2
<1>17. ASSUME ~slow PROVE UpToDate'
  <2>1. UpToDate /\ OneOfEach
    BY <1>17 DEF ViewsInv
  <2>2. \A i \in 1..Len(polls') : \E k \in 1..Len(polls) : k # n /\ polls'[i] = polls[k]
    BY <1>4
  <2>3. "manifest" \in asOf' => "manifest" \in asOf
    BY <1>10, <1>11
  <2>4. CASE p.cancelled
    BY <1>1, <1>3, <1>11, <2>1, <2>2, <2>4 DEF UpToDate
  <2>5. CASE ~p.cancelled
    <3>1. \A i \in 1..Len(polls') : ~(polls'[i].of = "view" /\ Believed(polls'[i]))
      BY <1>1, <1>2, <1>7, <2>1, <2>2, <2>5 DEF OneOfEach, Believed
    <3>2. ASSUME "view" \in asOf' PROVE view' = [i \in Wanted |-> figures[i]]
      <4>1. "view" \in asOf => view = [i \in Wanted |-> figures[i]] /\ p.latest
        BY <1>2, <1>7, <1>8, <2>1, <2>5 DEF UpToDate, Believed
      <4>2. CASE Failing(p) # {}
        <5>1. whole /\ "view" \in asOf
          BY <1>11, <2>5, <3>2, <4>2
        <5> QED
          BY <1>11, <1>12, <2>5, <4>1, <4>2, <5>1
      <4>3. CASE Failing(p) = {}
        <5>1. p.latest
          BY <1>11, <2>5, <3>2, <4>1, <4>3
        <5>2. \A i \in Wanted : p.got[i] = figures[i]
          BY <1>9, <2>5, <4>3, <5>1 DEF Failing
        <5>3. p.got = [i \in Wanted |-> figures[i]]
          BY <1>9, <1>10, <2>5, <5>2
        <5>4. After(p) = p.got
          BY <1>10, <1>12, <1>13, <4>3 DEF SourceKind
        <5> QED
          BY <1>11, <2>5, <5>3, <5>4
      <4> QED
        BY <4>2, <4>3
    <3> QED
      BY <1>1, <1>3, <2>1, <2>2, <2>3, <3>1, <3>2 DEF UpToDate
  <2> QED
    BY <1>10, <2>4, <2>5
<1> QED
  BY <1>1, <1>5, <1>6, <1>15, <1>16, <1>17 DEF ViewsInv


\* The cleanup of an effect changes nothing of its polls but that they are cancelled.
LEMMA CleanedIs ==
  ASSUME NEW ids, NEW values, NEW s \in Seq(PollRecord(ids, values))
  PROVE  /\ Cleaned(s) \in Seq(PollRecord(ids, values)) /\ Len(Cleaned(s)) = Len(s) /\ Len(s) \in Nat
         /\ \A n \in 1..Len(s) :
              /\ Cleaned(s)[n].of = s[n].of /\ Cleaned(s)[n].todo = s[n].todo /\ Cleaned(s)[n].got = s[n].got
              /\ Cleaned(s)[n].latest = s[n].latest
              /\ Cleaned(s)[n].cancelled = (s[n].of = "view" \/ s[n].cancelled)
<1>1. Len(s) \in Nat /\ DOMAIN s = 1..Len(s) /\ \A n \in 1..Len(s) : s[n] \in PollRecord(ids, values)
  BY LenProperties, ElementOfSeq
<1>2. PICK q : q = Cleaned(s)
  OBVIOUS
<1>3. q = [n \in 1..Len(s) |-> IF s[n].of = "view" THEN [s[n] EXCEPT !.cancelled = TRUE] ELSE s[n]]
  BY <1>1, <1>2 DEF Cleaned
<1>4. ASSUME NEW n \in 1..Len(s)
      PROVE  /\ q[n] \in PollRecord(ids, values)
             /\ q[n].of = s[n].of /\ q[n].todo = s[n].todo /\ q[n].got = s[n].got /\ q[n].latest = s[n].latest
             /\ q[n].cancelled = (s[n].of = "view" \/ s[n].cancelled)
  <2>1. s[n] \in PollRecord(ids, values) /\ s[n].cancelled \in BOOLEAN
    BY <1>1 DEF PollRecord
  <2>2. CASE s[n].of = "view"
    <3>1. q[n] = [s[n] EXCEPT !.cancelled = TRUE]
      BY <1>3, <2>2
    <3> QED
      BY <2>1, <2>2, <3>1 DEF PollRecord
  <2>3. CASE s[n].of # "view"
    <3>1. q[n] = s[n]
      BY <1>3, <2>3
    <3>2. q[n].cancelled = (s[n].of = "view" \/ s[n].cancelled)
      BY <2>1, <2>3, <3>1
    <3> QED
      BY <2>1, <3>1, <3>2
  <2> QED
    BY <2>2, <2>3
<1>5. q \in Seq(PollRecord(ids, values)) /\ Len(q) = Len(s)
  <2>1. PICK S : S = PollRecord(ids, values)
    OBVIOUS
  <2>2. PICK k : k = Len(s)
    OBVIOUS
  <2>3. k \in Nat /\ q \in [1..k -> S]
    BY <1>1, <1>3, <1>4, <2>1, <2>2
  <2>4. q \in Seq(S) /\ Len(q) = k
    BY <2>3
  <2> QED
    BY <2>1, <2>2, <2>4
<1> QED
  BY <1>1, <1>2, <1>4, <1>5

\* The effect runs anew: its polls are cancelled, and there may be one for what is wanted now.
CancelledOf(q, p) ==
  /\ q.of = p.of /\ q.todo = p.todo /\ q.got = p.got /\ q.latest = p.latest
  /\ q.cancelled = (p.of = "view" \/ p.cancelled)
OneOfBefore(n, i) ==
  /\ At(n, i) \in 1..Len(polls) \ {n}
  /\ \A j \in 1..Len(polls') : At(n, i) = At(n, j) => i = j
  /\ CancelledOf(polls'[i], polls[At(n, i)])

LEMMA RunsAnew ==
  ASSUME ViewsTypes, NEW n \in 1..Len(polls), NEW m \in ManifestText,
         polls' = Cleaned(RemoveAt(polls, n)) \o (IF Runs(m) THEN <<Poll("view", KeyOf(m))>> ELSE <<>>)
  PROVE  /\ polls' \in Seq(PollRecord(Ids, AnswerKind))
         /\ \A i \in 1..Len(polls') :
              OneOfBefore(n, i) \/ (Runs(m) /\ i = Len(polls') /\ polls'[i] = Poll("view", KeyOf(m)))
<1>1. PICK s : s = RemoveAt(polls, n)
  OBVIOUS
<1>2. s \in Seq(PollRecord(Ids, AnswerKind)) /\ Len(s) \in Nat
  BY <1>1, OthersAre
<1>3. \A i \in 1..Len(s) : At(n, i) \in 1..Len(polls) \ {n} /\ s[i] = polls[At(n, i)]
  BY <1>1, OthersAre
<1>4. PICK q : q = Cleaned(s)
  OBVIOUS
<1>5. q \in Seq(PollRecord(Ids, AnswerKind)) /\ Len(q) = Len(s)
  BY <1>2, <1>4, CleanedIs
<1>6. \A i \in 1..Len(s) : CancelledOf(q[i], s[i])
  BY <1>2, <1>4, CleanedIs DEF CancelledOf
<1>7. PICK p : p = Poll("view", KeyOf(m))
  OBVIOUS
<1>8. p \in PollRecord(Ids, AnswerKind)
  <2>1. KeyOf(m) \in SUBSET Ids
    BY KeyIs
  <2> QED
    BY <1>7, <2>1, PollIs
<1>9. \A i, j : i \in Int /\ j \in Int /\ n \in Int /\ At(n, i) = At(n, j) => i = j
  BY DEF At
<1>10. n \in Int
  BY PollsAre
<1>11. ASSUME Len(polls') \in Nat, NEW i \in 1..Len(s), i \in 1..Len(polls'), polls'[i] = q[i] PROVE OneOfBefore(n, i)
  <2>1. CancelledOf(polls'[i], polls[At(n, i)])
    BY <1>3, <1>6, <1>11
  <2>2. ASSUME NEW j \in 1..Len(polls'), At(n, i) = At(n, j) PROVE i = j
    <3>1. i \in Int /\ j \in Int
      BY <1>2, <1>11
    <3> QED
      BY <1>9, <1>10, <2>2, <3>1
  <2> QED
    BY <1>3, <2>1, <2>2 DEF OneOfBefore
<1>12. CASE Runs(m)
  <2>1. polls' = Append(q, p)
    <3>1. polls' = q \o <<p>>
      BY <1>1, <1>4, <1>7, <1>12
    <3> QED
      BY <1>5, <1>8, <3>1, AppendIsConcat
  <2>2. Append(q, p) \in Seq(PollRecord(Ids, AnswerKind)) /\ Len(Append(q, p)) = Len(q) + 1
    BY <1>5, <1>8, AppendProperties
  <2>3. Append(q, p)[Len(q) + 1] = p /\ \A i \in 1..Len(q) : Append(q, p)[i] = q[i]
    BY <1>5, <1>8, AppendProperties
  <2>4. ASSUME NEW i \in 1..Len(polls')
        PROVE  OneOfBefore(n, i) \/ (Runs(m) /\ i = Len(polls') /\ polls'[i] = Poll("view", KeyOf(m)))
    <3>1. i \in 1..Len(s) \/ i = Len(s) + 1
      BY <1>2, <1>5, <2>1, <2>2
    <3>2. CASE i \in 1..Len(s)
      BY <1>2, <1>5, <1>11, <2>1, <2>2, <2>3, <3>2
    <3>3. CASE i = Len(s) + 1
      BY <1>5, <1>7, <1>12, <2>1, <2>2, <2>3, <3>3
    <3> QED
      BY <3>1, <3>2, <3>3
  <2> QED
    BY <2>1, <2>2, <2>4
<1>13. CASE ~Runs(m)
  <2>1. polls' = q
    BY <1>1, <1>4, <1>5, <1>13, ConcatEmptySeq
  <2> QED
    BY <1>2, <1>5, <1>11, <2>1
<1> QED
  BY <1>12, <1>13


LEMMA ManifestReturnsStep ==
  ASSUME ViewsInv, NEW n \in DOMAIN polls, ManifestReturns(n)
  PROVE  ViewsInv'
<1>1. /\ polls[n].of = "manifest" /\ polls[n].todo = {}
      /\ UNCHANGED <<source, text, figures, slow>>
  BY DEF ManifestReturns, serverSide
<1>2. ViewsTypes /\ EditionsAgree /\ NothingLeftBehind /\ PollsFit /\ n \in 1..Len(polls)
  BY PollsAre DEF ViewsInv
<1>3. PICK p : p = polls[n]
  OBVIOUS
<1>4. PICK m : m = p.got[Whole]
  OBVIOUS
<1>5. p \in PollRecord(Ids, AnswerKind) /\ p.of = "manifest" /\ p.todo = {} /\ DOMAIN p.got = {Whole} /\ ~p.cancelled
  BY <1>1, <1>2, <1>3, PollsAre DEF PollsFit, PollFits
<1>6. p.latest => m = NoAnswer \/ m = text
  BY <1>2, <1>3, <1>4, <1>5 DEF PollsFit, Current
<1>7. /\ \A i \in 1..Len(RemoveAt(polls, n)) :
           /\ At(n, i) \in 1..Len(polls) \ {n} /\ RemoveAt(polls, n)[i] = polls[At(n, i)]
           /\ \A j \in 1..Len(RemoveAt(polls, n)) : At(n, i) = At(n, j) => i = j
      /\ RemoveAt(polls, n) \in Seq(PollRecord(Ids, AnswerKind))
  BY <1>2, OthersAre
<1> DEFINE since == IF p.latest THEN {"manifest"} ELSE {}
<1>8. ASSUME ~slow
      PROVE  /\ UpToDate /\ OneOfEach
             /\ \A k \in 1..Len(polls) \ {n} : polls[k].of # "manifest" \/ polls[k].cancelled
             /\ "manifest" \in asOf => manifest = text /\ p.latest
  <2>1. UpToDate /\ OneOfEach
    BY <1>8 DEF ViewsInv
  <2>2. \A k \in 1..Len(polls) \ {n} : polls[k].of # "manifest" \/ polls[k].cancelled
    BY <1>2, <1>3, <1>5, <2>1 DEF OneOfEach, Believed
  <2>3. "manifest" \in asOf => manifest = text /\ p.latest
    BY <1>2, <1>3, <1>5, <2>1 DEF UpToDate
  <2> QED
    BY <2>1, <2>2, <2>3
<1>9. \A k \in 1..Len(polls) : polls[k].of = "manifest" => ~polls[k].cancelled
  BY <1>2 DEF PollsFit, PollFits
<1>10. CASE m \in {NoAnswer, manifest}
  <2>1. /\ polls' = RemoveAt(polls, n) /\ UNCHANGED <<manifest, view, renewed>>
        /\ asOf' = asOf \union (IF m = NoAnswer THEN {} ELSE since)
    BY <1>3, <1>4, <1>10 DEF ManifestReturns
  <2>2. Wanted' = Wanted /\ Ids' = Ids /\ ManifestText' = ManifestText /\ AnswerKind' = AnswerKind /\ (Shut(manifest)' <=> Shut(manifest))
    BY <1>1, <1>2, <2>1, SamePlace
  <2>3. PollsFit' /\ (OneOfEach => OneOfEach')
    BY <1>1, <1>2, <2>1, <2>2, OthersFit
  <2>4. ViewsTypes'
    BY <1>1, <1>2, <1>7, <2>1, <2>2 DEF ViewsTypes
  <2>5. EditionsAgree'
    <3>1. \A k : About(k)' => About(k)
      BY <1>1, <1>7, <2>1 DEF About
    <3> QED
      BY <1>1, <1>2, <3>1, EditionsStay
  <2>6. NothingLeftBehind'
    BY <1>1, <1>2, <2>1, LeftAsBefore
  <2>7. ASSUME ~slow PROVE UpToDate'
    <3>1. \A i \in 1..Len(polls') : \E k \in 1..Len(polls) \ {n} : polls'[i] = polls[k]
      BY <1>7, <2>1
    <3>2. \A i \in 1..Len(polls') : polls'[i].of # "manifest"
      BY <1>8, <1>9, <2>7, <3>1
    <3>3. "manifest" \in asOf' => manifest' = text'
      BY <1>1, <1>6, <1>8, <1>10, <2>1, <2>7
    <3>4. "view" \in asOf' => "view" \in asOf
      BY <2>1
    <3> QED
      BY <1>1, <1>8, <2>1, <2>2, <2>7, <3>1, <3>2, <3>3, <3>4 DEF UpToDate
  <2> QED
    BY <1>1, <2>3, <2>4, <2>5, <2>6, <2>7, <1>8 DEF ViewsInv
<1>11. CASE m \notin {NoAnswer, manifest}
  <2>1. manifest' = m /\ About(m) /\ About(manifest)
    BY <1>2, <1>3, <1>4, <1>5, <1>11 DEF ManifestReturns, About, HasRead
  <2>2. m \in ManifestText /\ manifest \in ManifestText /\ (m.edition = manifest.edition => m = manifest)
    BY <1>2, <2>1 DEF EditionsAgree
  <2>3. Wanted' = KeyOf(m) /\ Ids' = Ids /\ ManifestText' = ManifestText /\ AnswerKind' = AnswerKind /\ (Shut(manifest)' <=> Shut(m))
    BY <1>1, <1>2, <2>1, WantedIs
  <2>4. ASSUME NEW q, NEW k \in 1..Len(polls), HasRead(q), q.got = polls[k].got, q.of = polls[k].of PROVE About(q.got[Whole])
    BY <2>4 DEF About, HasRead
  <2>5. CASE Depends(m) = Depends(manifest)
    <3>1. /\ polls' = RemoveAt(polls, n) /\ asOf' = asOf \union since /\ UNCHANGED <<view, renewed>>
      BY <1>3, <1>4, <1>11, <2>5 DEF ManifestReturns
    <3>2. source # "nodes" /\ KeyOf(m) = KeyOf(manifest)
      BY <1>2, <1>11, <2>2, <2>5, KeyIs
    <3>3. Wanted' = Wanted /\ (Shut(m) <=> Shut(manifest))
      BY <2>3, <3>2 DEF Wanted, Shut
    <3>4. PollsFit' /\ (OneOfEach => OneOfEach')
      BY <1>1, <1>2, <2>3, <3>1, <3>3, OthersFit
    <3>5. ViewsTypes'
      BY <1>1, <1>2, <1>7, <2>1, <2>2, <2>3, <3>1 DEF ViewsTypes
    <3>6. EditionsAgree'
      <4>1. \A k : About(k)' => About(k)
        BY <1>1, <1>7, <2>1, <3>1 DEF About
      <4> QED
        BY <1>1, <1>2, <4>1, EditionsStay
    <3>7. NothingLeftBehind'
      BY <1>1, <1>2, <2>3, <3>1, <3>2, <3>3 DEF NothingLeftBehind, Wanted
    <3>8. ASSUME ~slow PROVE UpToDate'
      <4>1. \A i \in 1..Len(polls') : \E k \in 1..Len(polls) \ {n} : polls'[i] = polls[k]
        BY <1>7, <3>1
      <4>2. \A i \in 1..Len(polls') : polls'[i].of # "manifest"
        BY <1>8, <1>9, <3>8, <4>1
      <4>3. "manifest" \in asOf' => manifest' = text'
        BY <1>1, <1>6, <1>8, <1>11, <2>1, <3>1, <3>8
      <4>4. "view" \in asOf' => "view" \in asOf
        BY <3>1
      <4> QED
        BY <1>1, <1>8, <3>1, <3>3, <3>8, <4>1, <4>2, <4>3, <4>4 DEF UpToDate
    <3> QED
      BY <1>1, <1>8, <3>4, <3>5, <3>6, <3>7, <3>8 DEF ViewsInv
  <2>6. CASE Depends(m) # Depends(manifest)
    <3>1. /\ polls' = Cleaned(RemoveAt(polls, n)) \o (IF Runs(m) THEN <<Poll("view", KeyOf(m))>> ELSE <<>>)
          /\ view' = (IF Shut(m) THEN <<>> ELSE view) /\ renewed' = Shut(m) /\ asOf' = (asOf \ {"view"}) \union since
      BY <1>3, <1>4, <1>11, <2>6 DEF ManifestReturns
    <3>2. PICK new : new = Poll("view", KeyOf(m))
      OBVIOUS
    <3>3. /\ new \in PollRecord(Ids, AnswerKind) /\ new.of = "view" /\ new.todo = KeyOf(m) /\ ~new.cancelled /\ new.latest
          /\ DOMAIN new.got = {}
      <4>1. KeyOf(m) \in SUBSET Ids
        BY <1>2, <2>2, KeyIs
      <4> QED
        BY <3>2, <4>1, PollIs
    <3>4. /\ polls' \in Seq(PollRecord(Ids, AnswerKind))
          /\ \A i \in 1..Len(polls') : OneOfBefore(n, i) \/ (Runs(m) /\ i = Len(polls') /\ polls'[i] = new)
      BY <1>2, <2>2, <3>1, <3>2, RunsAnew
    <3>5. ViewsTypes'
      <4>1. renewed' \in BOOLEAN
        BY <3>1 DEF Shut
      <4> QED
        BY <1>1, <1>2, <2>1, <2>2, <2>3, <3>4, <4>1 DEF ViewsTypes
    <3>6. ASSUME NEW i \in 1..Len(polls'), OneOfBefore(n, i)
          PROVE  /\ PollFits(polls'[i], KeyOf(m)) /\ Current(polls'[i], text, figures)
                 /\ polls'[i].of = "view" => polls'[i].cancelled
    <4>1. PICK q : q = polls[At(n, i)]
        OBVIOUS
      <4>2. CancelledOf(polls'[i], q) /\ At(n, i) \in 1..Len(polls)
        BY <3>6, <4>1 DEF OneOfBefore
      <4>3. PollFits(q, Wanted) /\ Current(q, text, figures) /\ q.of \in {"manifest", "view"}
        BY <1>2, <4>1, <4>2, PollsAre, GotIs DEF PollsFit
      <4> QED
        BY <4>2, <4>3 DEF PollFits, Current, CancelledOf
    <3>7. PollFits(new, KeyOf(m)) /\ Current(new, text, figures) /\ (Runs(m) => ~Shut(m))
      BY <3>3 DEF PollFits, Current, Runs
    <3>8. PollsFit'
      <4>1. \A i \in 1..Len(polls') : /\ PollFits(polls'[i], Wanted') /\ Current(polls'[i], text', figures')
                                      /\ polls'[i].of = "view" /\ ~polls'[i].cancelled => ~Shut(m)
        BY <1>1, <2>3, <3>4, <3>6, <3>7
      <4> QED
        BY <2>3, <4>1 DEF PollsFit
    <3>9. EditionsAgree'
      <4>1. ~HasRead(new)
        BY <3>3 DEF HasRead
      <4>2. \A i \in 1..Len(polls') : HasRead(polls'[i]) => About(polls'[i].got[Whole])
        BY <2>4, <3>4, <4>1 DEF OneOfBefore, CancelledOf
      <4>3. \A k : About(k)' => About(k)
        BY <1>1, <2>1, <4>2 DEF About
      <4> QED
        BY <1>1, <1>2, <4>3, EditionsStay
    <3>10. NothingLeftBehind'
      <4>1. DOMAIN <<>> = {}
        OBVIOUS
      <4>2. source = "nodes" => ~Shut(m)
        BY <1>2, <2>2, KeyIs
      <4> QED
        BY <1>1, <2>3, <3>1, <4>1, <4>2 DEF NothingLeftBehind
    <3>11. ASSUME ~slow PROVE OneOfEach' /\ UpToDate'
      <4>1. \A i \in 1..Len(polls') : polls'[i].of = "manifest" => FALSE
        <5> SUFFICES ASSUME NEW i \in 1..Len(polls'), polls'[i].of = "manifest", OneOfBefore(n, i) PROVE FALSE
          BY <3>3, <3>4
        <5> QED
          BY <1>8, <1>9, <3>11 DEF OneOfBefore, CancelledOf
      <4>2. \A i \in 1..Len(polls') : polls'[i].of = "view" /\ Believed(polls'[i]) => i = Len(polls') /\ polls'[i] = new
        BY <3>4, <3>6 DEF Believed
      <4>3. \A i \in 1..Len(polls') : polls'[i].of \in {"manifest", "view"}
        <5>1. \A i \in 1..Len(polls') : polls'[i] \in PollRecord(Ids, AnswerKind)
          BY <3>4, ElementOfSeq
        <5> QED
          BY <5>1 DEF PollRecord
      <4>4. OneOfEach'
        BY <4>1, <4>2, <4>3 DEF OneOfEach
      <4>5. "manifest" \in asOf' => manifest' = text'
        BY <1>1, <1>6, <1>8, <1>11, <2>1, <3>1, <3>11
      <4>6. "view" \notin asOf'
        BY <3>1
      <4> QED
        BY <1>1, <4>1, <4>4, <4>5, <4>6 DEF UpToDate
    <3> QED
      BY <1>1, <3>5, <3>8, <3>9, <3>10, <3>11 DEF ViewsInv
  <2> QED
    BY <2>5, <2>6
<1> QED
  BY <1>10, <1>11

\* The server changes, and no poll that is on its way tells of it yet.
LEMMA ChangesAre ==
  ASSUME ViewsTypes, Changes
  PROVE  /\ polls' \in Seq(PollRecord(Ids, AnswerKind)) /\ Len(polls') = Len(polls) /\ asOf' = {}
         /\ \A n \in 1..Len(polls) :
              /\ polls'[n].of = polls[n].of /\ polls'[n].todo = polls[n].todo /\ polls'[n].got = polls[n].got
              /\ polls'[n].cancelled = polls[n].cancelled /\ ~polls'[n].latest
<1>1. PICK S, k : S = PollRecord(Ids, AnswerKind) /\ k = Len(polls)
  OBVIOUS
<1>2. k \in Nat /\ DOMAIN polls = 1..k /\ \A n \in 1..k : polls[n] \in S
  BY <1>1, PollsAre
<1>3. polls' = [n \in 1..k |-> [polls[n] EXCEPT !.latest = FALSE]] /\ asOf' = {}
  BY <1>2 DEF Changes
<1>4. ASSUME NEW n \in 1..k
      PROVE  /\ polls'[n] \in S /\ polls'[n].of = polls[n].of /\ polls'[n].todo = polls[n].todo /\ polls'[n].got = polls[n].got
             /\ polls'[n].cancelled = polls[n].cancelled /\ ~polls'[n].latest
  <2>1. polls[n] \in PollRecord(Ids, AnswerKind) /\ polls'[n] = [polls[n] EXCEPT !.latest = FALSE]
    BY <1>1, <1>2, <1>3
  <2> QED
    BY <1>1, <2>1 DEF PollRecord
<1>5. polls' \in [1..k -> S]
  BY <1>3, <1>4
<1>6. polls' \in Seq(S) /\ Len(polls') = k
  BY <1>2, <1>5
<1> QED
  BY <1>1, <1>3, <1>4, <1>6

LEMMA ServerStep ==
  ASSUME ViewsInv, Changes, UNCHANGED <<source, manifest, view, renewed, slow>>,
         text' \in ManifestText, figures' \in [Ids -> Nat],
         text' # text => text'.edition = text.edition + 1
  PROVE  ViewsInv'
<1>1. ViewsTypes /\ EditionsAgree /\ NothingLeftBehind /\ PollsFit
  BY DEF ViewsInv
<1>2. /\ polls' \in Seq(PollRecord(Ids, AnswerKind)) /\ Len(polls') = Len(polls) /\ asOf' = {}
      /\ \A n \in 1..Len(polls) :
           /\ polls'[n].of = polls[n].of /\ polls'[n].todo = polls[n].todo /\ polls'[n].got = polls[n].got
           /\ polls'[n].cancelled = polls[n].cancelled /\ ~polls'[n].latest
  BY <1>1, ChangesAre
<1>3. Wanted' = Wanted /\ Ids' = Ids /\ ManifestText' = ManifestText /\ AnswerKind' = AnswerKind /\ (Shut(manifest)' <=> Shut(manifest))
  BY <1>1, SamePlace
<1>4. ViewsTypes'
  BY <1>1, <1>2, <1>3 DEF ViewsTypes
<1>5. PollsFit'
  <2>1. ASSUME NEW n \in 1..Len(polls)
        PROVE  /\ PollFits(polls'[n], Wanted) /\ Current(polls'[n], text', figures')
               /\ polls'[n].of = "view" /\ ~polls'[n].cancelled => ~Shut(manifest)
    <3>1. PollFits(polls[n], Wanted) /\ (polls[n].of = "view" /\ ~polls[n].cancelled => ~Shut(manifest))
      BY <1>1 DEF PollsFit
    <3> QED
      BY <1>2, <3>1 DEF PollFits, Current
  <2> QED
    BY <1>2, <1>3, <2>1 DEF PollsFit
<1>6. EditionsAgree'
  <2>1. \A m : About(m)' => m = text' \/ About(m)
    BY <1>2 DEF About, HasRead
  <2>2. text \in ManifestText /\ text.edition \in Nat /\ text'.edition \in Nat
    BY <1>1 DEF ViewsTypes, ManifestText
  <2>3. \A m : About(m) => m \in ManifestText /\ m.edition \in Nat /\ m.edition <= text.edition
    BY <1>1 DEF EditionsAgree, ManifestText
  <2>4. About(text)
    BY DEF About
  <2>5. text' = text \/ text'.edition = text.edition + 1
    OBVIOUS
  <2>6. ASSUME NEW m, NEW k, About(m)', About(k)' PROVE m \in ManifestText /\ m.edition <= text'.edition /\ (m.edition = k.edition => m = k)
    <3>1. (m = text' \/ About(m)) /\ (k = text' \/ About(k))
      BY <2>1, <2>6
    <3>2. CASE text' = text
      BY <1>1, <2>4, <3>1, <3>2 DEF EditionsAgree
    <3>3. CASE text'.edition = text.edition + 1
      <4>1. About(m) /\ About(k) => (m.edition = k.edition => m = k)
        BY <1>1 DEF EditionsAgree
      <4> QED
        BY <2>2, <2>3, <3>1, <3>3, <4>1
    <3> QED
      BY <2>5, <3>2, <3>3
  <2> QED
    BY <1>3, <2>6 DEF EditionsAgree
<1>7. NothingLeftBehind'
  BY <1>1, LeftAsBefore
<1>8. ~slow => OneOfEach'
  BY <1>2 DEF ViewsInv, OneOfEach, Believed
<1>9. UpToDate'
  BY <1>2 DEF UpToDate
<1> QED
  BY <1>4, <1>5, <1>6, <1>7, <1>8, <1>9 DEF ViewsInv

LEMMA ManifestWrittenStep == ASSUME ViewsInv, NEW ids \in SUBSET Places[source], ManifestWritten(ids) PROVE ViewsInv'
<1>1. text \in ManifestText /\ figures \in [Ids -> Nat]
  BY DEF ViewsInv, ViewsTypes
<1>2. text' = [ids |-> ids, edition |-> text.edition + 1] /\ Changes /\ UNCHANGED <<source, figures, manifest, view, renewed, slow>>
  BY DEF ManifestWritten, Manifest
<1>3. text' \in ManifestText /\ text'.edition = text.edition + 1
  BY <1>1, <1>2 DEF ManifestText
<1> QED
  BY <1>1, <1>2, <1>3, ServerStep

LEMMA FigureChangesStep == ASSUME ViewsInv, NEW i \in Ids, FigureChanges(i) PROVE ViewsInv'
<1>1. text \in ManifestText /\ figures \in [Ids -> Nat]
  BY DEF ViewsInv, ViewsTypes
<1>2. /\ figures' = [figures EXCEPT ![i] = @ + 1] /\ Changes
      /\ UNCHANGED <<source, text, manifest, view, renewed, slow>>
  BY DEF FigureChanges
<1>3. figures' \in [Ids -> Nat]
  BY <1>1, <1>2
<1> QED
  BY <1>1, <1>2, <1>3, ServerStep

LEMMA OneOrTwo ==
  ASSUME NEW S, NEW a \in S, NEW b \in S
  PROVE  \E t : /\ t = <<a>> \o <<b>> /\ t \in Seq(S)
                /\ Len(t) = 2 /\ t[1] = a /\ t[2] = b
<1>1. PICK u, v : u = <<a>> /\ v = <<b>>
  OBVIOUS
<1>2. u \in Seq(S) /\ v \in Seq(S) /\ Len(u) = 1 /\ Len(v) = 1 /\ u[1] = a /\ v[1] = b
  BY <1>1
<1>3. PICK t : t = u \o v
  OBVIOUS
<1>4. t \in Seq(S) /\ Len(t) = 2 /\ \A i \in 1..2 : t[i] = IF i <= 1 THEN u[i] ELSE v[i - 1]
  BY <1>2, <1>3, ConcatProperties
<1>5. t[1] = a /\ t[2] = b
  BY <1>2, <1>4
<1> QED
  BY <1>1, <1>3, <1>4, <1>5

LEMMA ViewsInitial == ViewsInit => ViewsInv
<1> SUFFICES ASSUME ViewsInit PROVE ViewsInv
  OBVIOUS
<1>1. /\ source \in DOMAIN Places /\ manifest = Manifest({}, 0) /\ view = <<>> /\ renewed = FALSE
      /\ asOf = {} /\ slow = FALSE /\ figures = [i \in Ids |-> 1]
      /\ polls = <<Poll("manifest", {Whole})>> \o (IF Runs(manifest) THEN <<Poll("view", KeyOf(manifest))>> ELSE <<>>)
  BY DEF ViewsInit, Ids
<1>2. PICK ids \in SUBSET Places[source] : text = [ids |-> ids, edition |-> 1]
  BY DEF ViewsInit, Manifest
<1>3. text \in ManifestText /\ text.edition = 1
  BY <1>2 DEF ManifestText
<1>4. manifest \in ManifestText /\ manifest.edition = 0
  BY <1>1 DEF ManifestText, Manifest
<1>5. source \in SourceKind
  BY <1>1, PlacesDiffer DEF SourceKind
<1>6. KeyOf(manifest) \subseteq Ids /\ Whole \in Ids
  BY <1>1, <1>5 DEF KeyOf, Ids, SourceKind, Manifest
<1>7. PICK p, q : p = Poll("manifest", {Whole}) /\ q = Poll("view", KeyOf(manifest))
  OBVIOUS
<1>8. /\ p \in PollRecord(Ids, AnswerKind) /\ p.of = "manifest" /\ p.todo = {Whole} /\ ~p.cancelled /\ p.latest
      /\ DOMAIN p.got = {}
  <2>1. {Whole} \in SUBSET Ids
    BY <1>6
  <2> QED
    BY <1>7, <2>1, PollIs
<1>9. /\ q \in PollRecord(Ids, AnswerKind) /\ q.of = "view" /\ q.todo = KeyOf(manifest) /\ ~q.cancelled /\ q.latest
      /\ DOMAIN q.got = {}
  <2>1. KeyOf(manifest) \in SUBSET Ids
    BY <1>6
  <2> QED
    BY <1>7, <2>1, PollIs
<1>10. \/ Runs(manifest) /\ polls \in Seq({p, q}) /\ Len(polls) = 2 /\ polls[1] = p /\ polls[2] = q
       \/ polls \in Seq({p, q}) /\ Len(polls) = 1 /\ polls[1] = p
  <2>1. CASE Runs(manifest)
    <3>1. polls = <<p>> \o <<q>>
      BY <1>1, <1>7, <2>1
    <3>2. PICK S : S = {p, q}
      OBVIOUS
    <3>3. PICK t : t = <<p>> \o <<q>> /\ t \in Seq(S) /\ Len(t) = 2 /\ t[1] = p /\ t[2] = q
      BY <3>2, OneOrTwo
    <3> QED
      BY <2>1, <3>1, <3>2, <3>3
  <2>2. CASE ~Runs(manifest)
    <3>1. polls = <<p>> \o <<>>
      BY <1>1, <1>7, <2>2
    <3>2. PICK u : u = <<p>>
      OBVIOUS
    <3>3. u \in Seq({p, q}) /\ Len(u) = 1 /\ u[1] = p
      BY <3>2
    <3>4. polls = u
      BY <3>1, <3>2, <3>3, ConcatEmptySeq
    <3> QED
      BY <3>3, <3>4
  <2> QED
    BY <2>1, <2>2
<1>11. polls \in Seq(PollRecord(Ids, AnswerKind))
  <2>1. PICK S : S = PollRecord(Ids, AnswerKind)
    OBVIOUS
  <2>2. Seq({p, q}) \subseteq Seq(S)
    BY <1>8, <1>9, <2>1
  <2> QED
    BY <1>10, <2>1, <2>2
<1>12. \A n \in 1..Len(polls) : (n = 1 /\ polls[n] = p) \/ (n = 2 /\ polls[n] = q /\ Runs(manifest))
  BY <1>10
<1>13. figures \in [Ids -> Nat]
  BY <1>1
<1>14. ViewsTypes
  BY <1>1, <1>3, <1>4, <1>5, <1>11, <1>13 DEF ViewsTypes
<1>15. PollsFit
  <2>1. PollFits(p, Wanted) /\ Current(p, text, figures)
    BY <1>8 DEF PollFits, Current
  <2>2. PollFits(q, Wanted) /\ Current(q, text, figures)
    BY <1>9 DEF PollFits, Current, Wanted
  <2>3. Runs(manifest) => ~Shut(manifest)
    BY DEF Runs
  <2> QED
    BY <1>8, <1>12, <2>1, <2>2, <2>3 DEF PollsFit
<1>16. EditionsAgree
  <2>1. \A m : About(m) => m = text \/ m = manifest
    BY <1>8, <1>9, <1>12 DEF About, HasRead
  <2> QED
    BY <1>3, <1>4, <2>1 DEF EditionsAgree
<1>17. NothingLeftBehind
  BY <1>1 DEF NothingLeftBehind
<1>18. OneOfEach
  <2> SUFFICES ASSUME NEW n \in 1..Len(polls), NEW k \in 1..Len(polls), polls[n].of = polls[k].of PROVE n = k
    BY DEF OneOfEach
  <2> QED
    BY <1>8, <1>9, <1>12
<1>19. UpToDate
  BY <1>1 DEF UpToDate
<1> QED
  BY <1>14, <1>15, <1>16, <1>17, <1>18, <1>19 DEF ViewsInv

LEMMA ViewsStep == ViewsInv /\ [ViewsNext]_viewVars => ViewsInv'
<1> SUFFICES ASSUME ViewsInv, [ViewsNext]_viewVars PROVE ViewsInv'
  OBVIOUS
<1>1. ViewsTypes /\ text \in ManifestText
  BY DEF ViewsInv, ViewsTypes
<1>2. CASE ManifestTicks
  BY <1>2, TicksStep DEF ManifestTicks
<1>3. CASE ViewTicks
  BY <1>3, TicksStep DEF ViewTicks, Runs, Wanted
<1>4. ASSUME NEW n \in DOMAIN polls, NEW i \in Places[source] \union {Whole}, Reads(n, i) PROVE ViewsInv'
  BY <1>4, ReadsStep DEF Ids
<1>5. ASSUME NEW i \in KeyOf(text), FigureChanges(i) PROVE ViewsInv'
  <2>1. i \in Ids
    BY <1>1, KeyIs
  <2> QED
    BY <1>5, <2>1, FigureChangesStep
<1>6. CASE UNCHANGED viewVars
  <2>1. UNCHANGED <<source, text, figures, manifest, view, renewed, polls, asOf, slow>>
    BY <1>6 DEF viewVars
  <2>2. Wanted' = Wanted /\ Ids' = Ids /\ ManifestText' = ManifestText /\ AnswerKind' = AnswerKind /\ Shut(manifest)' = Shut(manifest)
    BY <1>1, <2>1, SamePlace
  <2>3. ViewsTypes' /\ PollsFit'
    BY <2>1, <2>2 DEF ViewsInv, ViewsTypes, PollsFit
  <2>4. EditionsAgree'
    <3>1. \A m : About(m)' => About(m)
      BY <2>1 DEF About
    <3> QED
      BY <2>1, <3>1, EditionsStay DEF ViewsInv
  <2>5. NothingLeftBehind'
    BY <2>1, LeftAsBefore DEF ViewsInv
  <2>6. ~slow' => OneOfEach' /\ UpToDate'
    BY <2>1, <2>2 DEF ViewsInv, OneOfEach, UpToDate
  <2> QED
    BY <2>3, <2>4, <2>5, <2>6 DEF ViewsInv
<1> QED
  BY <1>2, <1>3, <1>4, <1>5, <1>6, ManifestReturnsStep, ViewReturnsStep, ManifestWrittenStep DEF ViewsNext

LEMMA ViewsShown == ViewsInv => ViewsHold
<1> SUFFICES ASSUME ViewsInv PROVE ViewsHold
  OBVIOUS
<1>1. ViewsTypes /\ NothingLeftBehind
  BY DEF ViewsInv
<1>2. ASSUME ~slow, "manifest" \in asOf, Shut(manifest) \/ "view" \in asOf PROVE view = [i \in KeyOf(text) |-> figures[i]]
  <2>1. manifest = text
    BY <1>2 DEF ViewsInv, UpToDate
  <2>2. CASE "view" \in asOf
    BY <1>2, <2>1, <2>2 DEF ViewsInv, UpToDate, Wanted
  <2>3. CASE Shut(manifest)
    <3>1. view = <<>> /\ KeyOf(text) = {}
      BY <1>1, <2>1, <2>3 DEF NothingLeftBehind, Shut
    <3>2. <<>> = [i \in {} |-> figures[i]]
      OBVIOUS
    <3> QED
      BY <3>1, <3>2
  <2> QED
    BY <1>2, <2>2, <2>3
<1>3. ~slow /\ "manifest" \in asOf => manifest = text
  BY DEF ViewsInv, UpToDate
<1> QED
  BY <1>1, <1>2, <1>3 DEF ViewsHold, CatchesUp

\* Nothing is shown of what went with an earlier manifest, and the first answers without an error to
\* polls asked after the server's last change bring the diagram up to date (App.tsx).
THEOREM ViewsHoldAlways == ViewsSpec => []ViewsHold
BY ViewsInitial, ViewsStep, ViewsShown, PTL DEF ViewsSpec

-----------------------------------------------------------------------------
(* InterviewPanel. *)

RationKind == {"starts", "messages", "lines", "mishaps", "polls"}
LineKind == {"begin", "messages", "lines", "mishaps"}
Line == LineKind \X Nat
Talked == [conv : Nat, status : {"none", "active", "ended"}, lines : Seq(Line)]

\* Conversations are numbered down: those that were have a number above this one.
Begun == IF beginning = "no" THEN ration["starts"] ELSE ration["starts"] + 1

\* The lines that there may be: a line is numbered by what is left when it comes.
Spent == {l \in Line : IF l[1] = "begin" THEN l[2] >= Begun ELSE l[2] > ration[l[1]]}

\* Lines no two of which are the same, all from those.
Sheet(s, from) == s \in Seq(Line) /\ IsInjective(s) /\ \A i \in 1..Len(s) : s[i] \in from

\* A transcript, now or when it was read.
TalkFits(t, begun, from) ==
  /\ t \in Talked /\ Sheet(t.lines, from)
  /\ t.conv = 0 => t = NoTalk
  /\ t.conv # 0 => t.conv > begun /\ t.status # "none"

\* Of one conversation, t is as u was at some time.
Before(t, u) ==
  t.conv = u.conv /\ t.conv # 0 =>
    /\ Len(t.lines) <= Len(u.lines)
    /\ Len(t.lines) = Len(u.lines) => t.lines = u.lines
    /\ t.status = "ended" => u.status = "ended"
ReadOf(t, u, begun, from) == TalkFits(t, begun, from) /\ Before(t, u)

PanelTypes ==
  /\ ration \in [RationKind -> Nat]
  /\ beginning \in {"no", "here", "elsewhere"} /\ sending \in {"no", "asked", "open"}
  /\ TalkFits(transcript, Begun, Spent)
  /\ ReadOf(polled, transcript, Begun, Spent)
  /\ asking \in Seq(Talked) /\ \A n \in 1..Len(asking) : ReadOf(asking[n], transcript, Begun, Spent)
  /\ Sheet(messages, Spent) /\ Sheet(streamed, Spent)

\* The chat is what App has polled, or App is behind for as long as the interview lasts; and a
\* message that is being sent adds to both sides the same lines.
PanelInv ==
  /\ PanelTypes
  /\ adopted = KeyOfTalk(polled)
  /\ beginning # "no" => transcript = NoTalk
  /\ beginning = "here" => sending = "no"
  /\ sending = "asked" => trimmed \in Spent /\ \A i \in 1..Len(transcript.lines) : transcript.lines[i] # trimmed
  /\ sending = "open" =>
       /\ \A i \in 1..Len(messages), j \in 1..Len(streamed) : messages[i] # streamed[j]
       /\ flaws = {} => transcript # NoTalk /\ transcript.lines = messages \o streamed
  /\ sending = "no" /\ flaws = {} => messages = polled.lines \/ polled # transcript

-----------------------------------------------------------------------------
LEMMA ElementIs ==
  ASSUME NEW S, NEW s \in Seq(S)
  PROVE  Len(s) \in Nat /\ DOMAIN s = 1..Len(s) /\ \A i \in 1..Len(s) : s[i] \in S
BY LenProperties, ElementOfSeq

LEMMA NoLines == ASSUME NEW from PROVE Sheet(<<>>, from)
<1>1. <<>> \in Seq(Line) /\ Len(<<>>) = 0 /\ DOMAIN <<>> = {}
  BY EmptySeq
<1> QED
  BY <1>1 DEF Sheet, IsInjective

LEMMA SheetKeeps ==
  ASSUME NEW s, NEW from, NEW more, Sheet(s, from), from \subseteq more
  PROVE  Sheet(s, more)
BY DEF Sheet

\* A line more, which is not on the sheet.
LEMMA SheetGrows ==
  ASSUME NEW s, NEW from, NEW x, Sheet(s, from), x \in from \intersect Line,
         \A i \in 1..Len(s) : s[i] # x
  PROVE  /\ Sheet(Append(s, x), from)
         /\ Len(Append(s, x)) = Len(s) + 1 /\ Append(s, x)[Len(s) + 1] = x
         /\ \A i \in 1..Len(s) : Append(s, x)[i] = s[i]
         /\ Len(s) \in Nat
<1>1. s \in Seq(Line) /\ Len(s) \in Nat /\ DOMAIN s = 1..Len(s)
  BY ElementIs DEF Sheet
<1>2. PICK q : q = Append(s, x)
  OBVIOUS
<1>3. q \in Seq(Line) /\ Len(q) = Len(s) + 1 /\ q[Len(s) + 1] = x /\ \A i \in 1..Len(s) : q[i] = s[i]
  BY <1>1, <1>2, AppendProperties
<1>4. DOMAIN q = 1..Len(s) + 1
  BY <1>3, ElementIs
<1>5. \A i \in 1..Len(s) + 1 : i \in 1..Len(s) \/ i = Len(s) + 1
  BY <1>1
<1>6. IsInjective(q)
  BY <1>1, <1>3, <1>4, <1>5 DEF Sheet, IsInjective
<1>7. \A i \in 1..Len(q) : q[i] \in from
  BY <1>3, <1>5 DEF Sheet
<1> QED
  BY <1>1, <1>2, <1>3, <1>6, <1>7 DEF Sheet

LEMMA OneLine == ASSUME NEW from, NEW x \in from \intersect Line PROVE Sheet(<<x>>, from)
<1>1. <<x>> \in Seq(Line) /\ Len(<<x>>) = 1 /\ DOMAIN <<x>> = {1} /\ <<x>>[1] = x
  OBVIOUS
<1> QED
  BY <1>1 DEF Sheet, IsInjective

\* All lines but the first.
LEMMA SheetTail ==
  ASSUME NEW s, NEW from, Sheet(s, from), s # <<>>
  PROVE  /\ Sheet(Tail(s), from) /\ Head(s) = s[1] /\ Head(s) \in from /\ Head(s) \in Line
         /\ Len(s) \in Nat /\ Len(s) >= 1 /\ Len(Tail(s)) = Len(s) - 1
         /\ \A i \in 1..Len(s) - 1 : Tail(s)[i] = s[i + 1] /\ Tail(s)[i] # Head(s)
<1>1. s \in Seq(Line) /\ Len(s) \in Nat /\ Len(s) # 0 /\ DOMAIN s = 1..Len(s)
  BY ElementIs, EmptySeq DEF Sheet
<1>2. PICK q : q = Tail(s)
  OBVIOUS
<1>3. /\ q \in Seq(Line) /\ Len(q) = Len(s) - 1 /\ Head(s) = s[1]
      /\ \A i \in 1..Len(s) - 1 : q[i] = s[i + 1]
  BY <1>1, <1>2, HeadTailProperties
<1>4. 1 \in 1..Len(s) /\ \A i \in 1..Len(s) - 1 : i + 1 \in 1..Len(s) /\ i + 1 # 1
  BY <1>1
<1>5. \A i \in 1..Len(s) - 1 : q[i] \in from /\ q[i] # s[1]
  BY <1>1, <1>3, <1>4 DEF Sheet, IsInjective
<1>6. DOMAIN q = 1..Len(s) - 1
  BY <1>3, ElementIs
<1>7. IsInjective(q)
  <2> SUFFICES ASSUME NEW i \in 1..Len(s) - 1, NEW j \in 1..Len(s) - 1, q[i] = q[j] PROVE i = j
    BY <1>6 DEF IsInjective
  <2>1. s[i + 1] = s[j + 1] /\ i + 1 \in 1..Len(s) /\ j + 1 \in 1..Len(s)
    BY <1>3, <1>4
  <2>2. i + 1 = j + 1
    BY <1>1, <2>1 DEF Sheet, IsInjective
  <2> QED
    BY <1>1, <2>2
<1> QED
  BY <1>1, <1>2, <1>3, <1>4, <1>5, <1>7 DEF Sheet

\* The head goes from one side to the other, or a line comes at the end.
LEMMA HeadMoves ==
  ASSUME NEW s \in Seq(Line), NEW t \in Seq(Line), t # <<>>
  PROVE  Append(s, Head(t)) \o Tail(t) = s \o t
BY HeadTailProperties, ConcatProperties, AppendProperties, EmptySeq, ConcatEmptySeq

LEMMA EndMoves ==
  ASSUME NEW s \in Seq(Line), NEW t \in Seq(Line), NEW x \in Line
  PROVE  s \o Append(t, x) = Append(s \o t, x)
OBVIOUS

LEMMA RestIsOfIt ==
  ASSUME NEW s \in Seq(Talked), NEW n \in 1..Len(s)
  PROVE  /\ RemoveAt(s, n) \in Seq(Talked)
         /\ \A i \in 1..Len(RemoveAt(s, n)) : \E j \in 1..Len(s) : RemoveAt(s, n)[i] = s[j]
<1>1. Len(s) \in Nat
  BY ElementIs
<1>2. /\ RemoveAt(s, n) \in Seq(Talked) /\ Len(RemoveAt(s, n)) = Len(s) - 1
      /\ \A i \in 1..Len(s) - 1 : RemoveAt(s, n)[i] = IF i < n THEN s[i] ELSE s[i + 1]
  BY RemoveAtProperties
<1> QED
  BY <1>1, <1>2


-----------------------------------------------------------------------------
\* What is taken of a ration numbers a line that was not.
LEMMA TakenIs ==
  ASSUME PanelTypes, NEW what \in {"messages", "lines", "mishaps"}, Takes(what), beginning' = beginning
  PROVE  /\ ration' \in [RationKind -> Nat] /\ Begun' = Begun /\ Begun \in Nat
         /\ Spent \subseteq Spent' /\ NewLine(what) \in Line /\ NewLine(what) \in Spent'
         /\ NewLine(what) \notin Spent
<1>1. /\ ration \in [RationKind -> Nat] /\ ration[what] > 0 /\ ration' = [ration EXCEPT ![what] = @ - 1]
      /\ what \in RationKind /\ what # "starts" /\ what \in LineKind /\ what # "begin"
  BY DEF PanelTypes, Takes, RationKind, LineKind
<1>2. /\ ration' \in [RationKind -> Nat] /\ ration'[what] = ration[what] - 1
      /\ \A k \in RationKind \ {what} : ration'[k] = ration[k]
  BY <1>1
<1>3. \A k \in LineKind \ {"begin"} : k \in RationKind /\ ration'[k] <= ration[k] /\ ration'[k] \in Nat /\ ration[k] \in Nat
  BY <1>1, <1>2 DEF RationKind, LineKind
<1>4. ration'["starts"] = ration["starts"] /\ ration["starts"] \in Nat
  BY <1>1, <1>2 DEF RationKind
<1>5. Begun' = Begun /\ Begun \in Nat
  BY <1>4 DEF Begun
<1>6. Spent \subseteq Spent'
  <2> SUFFICES ASSUME NEW l \in Line, l \in Spent PROVE l \in Spent'
    BY DEF Spent
  <2>1. l[1] \in LineKind /\ l[2] \in Nat
    BY DEF Line
  <2>2. CASE l[1] = "begin"
    BY <1>5, <2>2 DEF Spent
  <2>3. CASE l[1] # "begin"
    BY <1>3, <2>1, <2>3 DEF Spent
  <2> QED
    BY <2>2, <2>3
<1>7. PICK x : x = <<what, ration[what]>>
  OBVIOUS
<1>8. x \in Line /\ x[1] = what /\ x[2] = ration[what]
  BY <1>1, <1>7 DEF Line
<1>9. x \in Spent' /\ x \notin Spent
  BY <1>1, <1>2, <1>8 DEF Spent
<1> QED
  BY <1>2, <1>5, <1>6, <1>7, <1>8, <1>9 DEF NewLine

\* Nothing taken.
LEMMA NothingTaken ==
  ASSUME PanelTypes, ration' = ration, beginning' = beginning
  PROVE  Begun' = Begun /\ Begun \in Nat /\ Spent' = Spent /\ Spent \subseteq Line
<1>1. ration["starts"] \in Nat
  BY DEF PanelTypes, RationKind
<1> QED
  BY <1>1 DEF Begun, Spent

LEMMA SpentIsLines == Spent \subseteq Line
BY DEF Spent

\* What a transcript is while it goes on: the same, longer, ended, gone, or another one.
LeadsTo(u, v, begun) ==
  \/ v = u
  \/ v = NoTalk
  \/ v.conv = u.conv /\ v.status = u.status /\ Len(v.lines) > Len(u.lines)
  \/ v.conv = u.conv /\ v.lines = u.lines /\ v.status = "ended"
  \/ v.conv <= begun

LEMMA ReadStays ==
  ASSUME NEW u \in Talked, NEW v \in Talked, NEW b \in Nat, NEW c \in Nat, c <= b, NEW from, NEW more,
         from \subseteq more, LeadsTo(u, v, b), NEW t, ReadOf(t, u, b, from)
  PROVE  ReadOf(t, v, c, more)
<1>1. t \in Talked /\ Sheet(t.lines, from) /\ (t.conv = 0 => t = NoTalk)
      /\ (t.conv # 0 => t.conv > b /\ t.status # "none") /\ Before(t, u)
  BY DEF ReadOf, TalkFits
<1>2. Sheet(t.lines, more)
  BY <1>1, SheetKeeps
<1>3. t.conv \in Nat /\ u.conv \in Nat /\ v.conv \in Nat
  BY <1>1 DEF Talked
<1>4. TalkFits(t, c, more)
  BY <1>1, <1>2, <1>3 DEF TalkFits
<1>5. Len(t.lines) \in Nat /\ Len(u.lines) \in Nat /\ Len(v.lines) \in Nat
  BY <1>1, ElementIs DEF Talked
<1>6. Before(t, v)
  <2>1. CASE v = u
    BY <1>1, <2>1
  <2>2. CASE v = NoTalk
    BY <2>2 DEF Before, NoTalk
  <2>3. CASE v.conv = u.conv /\ v.status = u.status /\ Len(v.lines) > Len(u.lines)
    BY <1>1, <1>3, <1>5, <2>3 DEF Before
  <2>4. CASE v.conv = u.conv /\ v.lines = u.lines /\ v.status = "ended"
    BY <1>1, <2>4 DEF Before
  <2>5. CASE v.conv <= b
    BY <1>1, <1>3, <2>5 DEF Before
  <2> QED
    BY <2>1, <2>2, <2>3, <2>4, <2>5 DEF LeadsTo
<1> QED
  BY <1>4, <1>6 DEF ReadOf

\* What was read is not what comes after.
LEMMA ReadIsBehind ==
  ASSUME NEW u \in Talked, NEW v \in Talked, NEW b \in Nat, NEW from, LeadsTo(u, v, b), v # u, v # NoTalk,
         u.status # "ended" \/ v.lines # u.lines, v.conv # 0,
         NEW t, ReadOf(t, u, b, from)
  PROVE  t # v
<1>1. t \in Talked /\ (t.conv # 0 => t.conv > b) /\ Before(t, u)
  BY DEF ReadOf, TalkFits
<1>2. t.conv \in Nat /\ u.conv \in Nat /\ v.conv \in Nat
  BY <1>1 DEF Talked
<1>3. Len(t.lines) \in Nat /\ Len(u.lines) \in Nat /\ Len(v.lines) \in Nat
  BY <1>1, ElementIs DEF Talked
<1> SUFFICES ASSUME t = v PROVE FALSE
  OBVIOUS
<1>4. CASE v.conv = u.conv /\ v.status = u.status /\ Len(v.lines) > Len(u.lines)
  BY <1>1, <1>2, <1>3, <1>4 DEF Before
<1>5. CASE v.conv = u.conv /\ v.lines = u.lines /\ v.status = "ended"
  BY <1>1, <1>2, <1>3, <1>5 DEF Before
<1>6. CASE v.conv <= b
  BY <1>1, <1>2, <1>6
<1> QED
  BY <1>4, <1>5, <1>6 DEF LeadsTo

\* By its length, conversation and status App tells what it reads from what there is.
LEMMA KeyTells ==
  ASSUME NEW t, NEW u \in Talked, NEW b, NEW from, ReadOf(t, u, b, from), KeyOfTalk(t) = KeyOfTalk(u),
         u.conv = 0 => u = NoTalk
  PROVE  t = u
<1>1. t \in Talked /\ (t.conv = 0 => t = NoTalk) /\ Before(t, u)
  BY DEF ReadOf, TalkFits
<1>2. Len(t.lines) = Len(u.lines) /\ t.conv = u.conv /\ t.status = u.status
  BY DEF KeyOfTalk
<1>3. CASE t.conv = 0
  BY <1>1, <1>2, <1>3
<1>4. CASE t.conv # 0
  <2>1. t.lines = u.lines
    BY <1>1, <1>2, <1>4, ElementIs DEF Before, Talked
  <2> QED
    BY <1>1, <1>2, <2>1 DEF Talked
<1> QED
  BY <1>3, <1>4

\* A line reaches the interview there is.
LEMMA LineReaches ==
  ASSUME NEW x \in Line, NEW b \in Nat, NEW from, NEW more, TalkFits(transcript, b, from), from \subseteq more,
         x \in more, \A i \in 1..Len(transcript.lines) : transcript.lines[i] # x,
         AppendMessage(x)
  PROVE  /\ TalkFits(transcript', b, more) /\ LeadsTo(transcript, transcript', b) /\ transcript \in Talked /\ transcript' \in Talked
         /\ transcript = NoTalk => transcript' = NoTalk
         /\ transcript # NoTalk =>
              /\ transcript'.lines = Append(transcript.lines, x) /\ transcript'.conv = transcript.conv
              /\ transcript'.status = transcript.status /\ transcript' # NoTalk
              /\ transcript' # transcript /\ transcript'.conv # 0 /\ transcript'.lines # transcript.lines
<1>1. transcript \in Talked /\ Sheet(transcript.lines, from) /\ transcript.lines \in Seq(Line) /\ Len(transcript.lines) \in Nat
  BY ElementIs DEF TalkFits, Sheet
<1>2. CASE transcript = NoTalk
  <2>1. transcript' = NoTalk
    BY <1>2 DEF AppendMessage
  <2> QED
    BY <1>1, <1>2, <2>1, NoLines DEF LeadsTo, TalkFits, NoTalk
<1>3. CASE transcript # NoTalk
  <2>1. transcript' = [transcript EXCEPT !.lines = Append(@, x)]
    BY <1>3 DEF AppendMessage
  <2>2. Sheet(transcript.lines, more)
    BY <1>1, SheetKeeps
  <2>3. /\ Sheet(Append(transcript.lines, x), more) /\ Len(Append(transcript.lines, x)) = Len(transcript.lines) + 1
    BY <1>1, <2>2, SheetGrows
  <2>4. Append(transcript.lines, x) \in Seq(Line)
    BY <2>3 DEF Sheet
  <2>5. /\ transcript' \in Talked /\ transcript'.lines = Append(transcript.lines, x) /\ transcript'.conv = transcript.conv
        /\ transcript'.status = transcript.status
    BY <1>1, <2>1, <2>4 DEF Talked
  <2>6. transcript.conv # 0 /\ transcript.conv > b /\ transcript.status # "none"
    BY <1>3 DEF TalkFits
  <2>7. transcript'.lines # transcript.lines /\ Len(transcript'.lines) > Len(transcript.lines)
    BY <1>1, <2>3, <2>5
  <2>8. transcript' # NoTalk
    BY <2>5, <2>6 DEF NoTalk
  <2> QED
    BY <1>1, <1>3, <2>3, <2>5, <2>6, <2>7, <2>8 DEF LeadsTo, TalkFits
<1> QED
  BY <1>2, <1>3


-----------------------------------------------------------------------------
(* The steps. *)

\* What a step keeps of what has been read, and of the lines on either side.
LEMMA PanelKeeps ==
  ASSUME PanelTypes, ration' \in [RationKind -> Nat], Begun \in Nat, Begun' \in Nat, Begun' <= Begun,
         Spent \subseteq Spent', TalkFits(transcript', Begun', Spent'), LeadsTo(transcript, transcript', Begun)
  PROVE  /\ \A t : ReadOf(t, transcript, Begun, Spent) => ReadOf(t, transcript', Begun', Spent')
         /\ \A s : Sheet(s, Spent) => Sheet(s, Spent')
         /\ ReadOf(polled, transcript', Begun', Spent')
         /\ \A n \in 1..Len(asking) : ReadOf(asking[n], transcript', Begun', Spent')
         /\ Sheet(messages, Spent') /\ Sheet(streamed, Spent')
<1>1. transcript \in Talked /\ transcript' \in Talked
  BY DEF PanelTypes, TalkFits
<1>2. \A t : ReadOf(t, transcript, Begun, Spent) => ReadOf(t, transcript', Begun', Spent')
  BY <1>1, ReadStays
<1>3. \A s : Sheet(s, Spent) => Sheet(s, Spent')
  BY SheetKeeps
<1> QED
  BY <1>2, <1>3 DEF PanelTypes

\* A step that leaves the transcript, the rations and the starts alone.
LEMMA StillReads ==
  ASSUME PanelTypes, ration' = ration, beginning' = beginning, transcript' = transcript
  PROVE  /\ Begun' = Begun /\ Begun \in Nat /\ Spent' = Spent /\ Spent \subseteq Line
         /\ TalkFits(transcript', Begun', Spent') /\ ration' \in [RationKind -> Nat]
         /\ transcript \in Talked
BY NothingTaken DEF PanelTypes, TalkFits

\* A line of a child or of another tab, which is new.
LEMMA NewLineReaches ==
  ASSUME PanelTypes, NEW what \in {"messages", "lines", "mishaps"}, Takes(what), beginning' = beginning,
         AppendMessage(NewLine(what))
  PROVE  /\ ration' \in [RationKind -> Nat] /\ Begun' = Begun /\ Begun \in Nat
         /\ Spent \subseteq Spent' /\ NewLine(what) \in Line /\ NewLine(what) \in Spent'
         /\ NewLine(what) \notin Spent
         /\ TalkFits(transcript', Begun', Spent') /\ LeadsTo(transcript, transcript', Begun)
         /\ transcript = NoTalk => transcript' = NoTalk
         /\ transcript # NoTalk =>
              /\ transcript'.lines = Append(transcript.lines, NewLine(what))
              /\ transcript' # NoTalk /\ polled # transcript'
         /\ trimmed \in Spent /\ (\A i \in 1..Len(transcript.lines) : transcript.lines[i] # trimmed) =>
              \A i \in 1..Len(transcript'.lines) : transcript'.lines[i] # trimmed
<1>1. /\ ration' \in [RationKind -> Nat] /\ Begun' = Begun /\ Begun \in Nat
      /\ Spent \subseteq Spent' /\ NewLine(what) \in Line /\ NewLine(what) \in Spent'
      /\ NewLine(what) \notin Spent
  BY TakenIs
<1>2. PICK x : x = NewLine(what)
  OBVIOUS
<1>3. TalkFits(transcript, Begun, Spent) /\ Sheet(transcript.lines, Spent) /\ ReadOf(polled, transcript, Begun, Spent)
  BY DEF PanelTypes, TalkFits
<1>4. \A i \in 1..Len(transcript.lines) : transcript.lines[i] # x
  BY <1>1, <1>2, <1>3 DEF Sheet
<1>5. /\ TalkFits(transcript', Begun, Spent') /\ LeadsTo(transcript, transcript', Begun) /\ transcript \in Talked /\ transcript' \in Talked
      /\ transcript = NoTalk => transcript' = NoTalk
      /\ transcript # NoTalk =>
           /\ transcript'.lines = Append(transcript.lines, x) /\ transcript'.conv = transcript.conv
           /\ transcript'.status = transcript.status /\ transcript' # NoTalk
           /\ transcript' # transcript /\ transcript'.conv # 0 /\ transcript'.lines # transcript.lines
  BY <1>1, <1>2, <1>3, <1>4, LineReaches
<1>6. transcript # NoTalk => polled # transcript'
  BY <1>1, <1>3, <1>5, ReadIsBehind
<1>7. ASSUME trimmed \in Spent, \A i \in 1..Len(transcript.lines) : transcript.lines[i] # trimmed, NEW i \in 1..Len(transcript'.lines)
      PROVE  transcript'.lines[i] # trimmed
  <2>1. CASE transcript = NoTalk
    BY <1>5, <1>7, <2>1
  <2>2. CASE transcript # NoTalk
    <3>1. PICK q : q = transcript.lines
      OBVIOUS
    <3>2. q \in Seq(Line) /\ Len(q) \in Nat
      BY <1>3, <3>1, ElementIs DEF Sheet
    <3>3. transcript'.lines = Append(q, x)
      BY <1>5, <2>2, <3>1
    <3>4. i \in 1..Len(Append(q, x))
      BY <1>7, <3>3
    <3>5. (i \in 1..Len(q) /\ Append(q, x)[i] = q[i]) \/ Append(q, x)[i] = x
      BY <1>1, <1>2, <3>2, <3>4, AppendProperties
    <3> QED
      BY <1>1, <1>2, <1>7, <3>1, <3>3, <3>5
  <2> QED
    BY <2>1, <2>2
<1> QED
  BY <1>1, <1>2, <1>5, <1>6, <1>7

LEMMA PanelInitial == PanelInit => PanelInv
<1> SUFFICES ASSUME PanelInit PROVE PanelInv
  OBVIOUS
<1>1. ration \in [RationKind -> Nat] /\ beginning = "no" /\ sending = "no"
  BY PanelBudgetsCount DEF PanelInit, RationKind
<1>2. ration["starts"] \in Nat
  BY <1>1 DEF RationKind
<1>3. Begun = ration["starts"] /\ Begun \in Nat
  BY <1>1, <1>2 DEF Begun
<1>4. <<>> \in Seq(Line)
  OBVIOUS
<1>5. NoTalk \in Talked /\ NoTalk.conv = 0 /\ NoTalk.lines = <<>>
  BY <1>4 DEF NoTalk, Talked
<1>6. PICK t : t = [conv |-> ration["starts"] + 1, status |-> "active", lines |-> <<>>]
  OBVIOUS
<1>7. t \in Talked /\ t.conv = Begun + 1 /\ t.status = "active" /\ t.lines = <<>> /\ t.conv # 0
  BY <1>2, <1>3, <1>4, <1>6 DEF Talked
<1>8. transcript \in {NoTalk, t}
  BY <1>6 DEF PanelInit
<1>9. TalkFits(transcript, Begun, Spent) /\ transcript.lines = <<>>
  BY <1>3, <1>5, <1>7, <1>8, NoLines DEF TalkFits
<1>10. polled = transcript /\ asking = <<>> /\ messages = <<>> /\ streamed = <<>> /\ flaws = {} /\ adopted = KeyOfTalk(transcript)
  BY DEF PanelInit
<1>11. Before(transcript, transcript)
  BY <1>9 DEF Before
<1>12. Sheet(messages, Spent) /\ Sheet(streamed, Spent) /\ asking \in Seq(Talked) /\ Len(asking) = 0
  BY <1>10, NoLines
<1>13. PanelTypes
  BY <1>1, <1>9, <1>10, <1>11, <1>12 DEF PanelTypes, ReadOf
<1> QED
  BY <1>1, <1>9, <1>10, <1>13 DEF PanelInv


\* The types are kept by a step that leaves what App has polled alone.
LEMMA PanelTypesKept ==
  ASSUME PanelTypes, ration' \in [RationKind -> Nat], Begun \in Nat, Begun' \in Nat, Begun' <= Begun,
         Spent \subseteq Spent', TalkFits(transcript', Begun', Spent'), LeadsTo(transcript, transcript', Begun),
         beginning' \in {"no", "here", "elsewhere"}, sending' \in {"no", "asked", "open"},
         polled' = polled, asking' = asking,
         Sheet(messages, Spent') => Sheet(messages', Spent'), Sheet(streamed, Spent') => Sheet(streamed', Spent')
  PROVE  PanelTypes'
<1>1. /\ ReadOf(polled, transcript', Begun', Spent')
      /\ \A n \in 1..Len(asking) : ReadOf(asking[n], transcript', Begun', Spent')
      /\ Sheet(messages, Spent') /\ Sheet(streamed, Spent')
  BY PanelKeeps
<1> QED
  BY <1>1 DEF PanelTypes

\* A poll reads what there is.
LEMMA ReadNow == ASSUME PanelTypes PROVE ReadOf(transcript, transcript, Begun, Spent)
BY DEF PanelTypes, ReadOf, Before, TalkFits

LEMMA PollReadsStep == ASSUME PanelInv, PollReads PROVE PanelInv'
<1> USE DEF PanelInv
<1>1. /\ asking' = Append(asking, transcript)
      /\ UNCHANGED <<transcript, beginning, streamed, polled, adopted, messages, sending, flaws, ration, trimmed>>
  BY DEF PollReads, serverTalk
<1>2. Begun' = Begun /\ Spent' = Spent
  BY <1>1, StillReads
<1>3. ReadOf(transcript, transcript, Begun, Spent) /\ transcript \in Talked /\ asking \in Seq(Talked)
  BY ReadNow DEF PanelTypes, TalkFits
<1>4. /\ asking' \in Seq(Talked) /\ Len(asking') = Len(asking) + 1 /\ Len(asking) \in Nat
      /\ asking'[Len(asking) + 1] = transcript /\ \A n \in 1..Len(asking) : asking'[n] = asking[n]
  BY <1>1, <1>3, AppendProperties, ElementIs
<1>5. \A n \in 1..Len(asking') : ReadOf(asking'[n], transcript, Begun, Spent)
  BY <1>3, <1>4 DEF PanelTypes
<1>6. PanelTypes'
  BY <1>1, <1>2, <1>4, <1>5 DEF PanelTypes
<1> QED
  BY <1>1, <1>2, <1>6

LEMMA PollArrivesStep == ASSUME PanelInv, NEW n \in DOMAIN asking, PollArrives(n) PROVE PanelInv'
<1>1. /\ polled' = asking[n] /\ asking' = RemoveAt(asking, n) /\ adopted' = KeyOfTalk(asking[n])
      /\ UNCHANGED <<transcript, beginning, streamed, sending, ration, trimmed>>
      /\ IF sending = "no" /\ adopted' # adopted THEN messages' = asking[n].lines /\ flaws' = {} ELSE UNCHANGED <<messages, flaws>>
  BY DEF PollArrives, TakesOver, serverTalk
<1>2. PanelTypes /\ adopted = KeyOfTalk(polled)
  BY DEF PanelInv
<1>3. /\ Begun' = Begun /\ Spent' = Spent /\ transcript \in Talked /\ asking \in Seq(Talked)
      /\ transcript.conv = 0 => transcript = NoTalk
  BY <1>1, <1>2, StillReads DEF PanelTypes, TalkFits
<1>4. n \in 1..Len(asking)
  BY <1>3, ElementIs
<1>5. ReadOf(asking[n], transcript, Begun, Spent) /\ Sheet(asking[n].lines, Spent)
  BY <1>2, <1>4 DEF PanelTypes, ReadOf, TalkFits
<1>6. /\ asking' \in Seq(Talked)
      /\ \A i \in 1..Len(asking') : \E j \in 1..Len(asking) : asking'[i] = asking[j]
  BY <1>1, <1>3, <1>4, RestIsOfIt
<1>7. \A i \in 1..Len(asking') : ReadOf(asking'[i], transcript, Begun, Spent)
  BY <1>2, <1>6 DEF PanelTypes
<1>8. Sheet(messages', Spent)
  BY <1>1, <1>2, <1>5 DEF PanelTypes
<1>9. PanelTypes'
  BY <1>1, <1>2, <1>3, <1>5, <1>6, <1>7, <1>8 DEF PanelTypes
<1>10. sending' = "no" /\ flaws' = {} => messages' = polled'.lines \/ polled' # transcript'
  <2>1. CASE sending = "no" /\ adopted' # adopted
    BY <1>1, <2>1
  <2>2. CASE ~(sending = "no" /\ adopted' # adopted)
    <3> SUFFICES ASSUME sending = "no", flaws = {}, polled' = transcript PROVE messages = polled'.lines
      BY <1>1, <2>2
    <3>1. KeyOfTalk(polled) = KeyOfTalk(transcript)
      BY <1>1, <1>2, <2>2
    <3>2. polled = transcript
      BY <1>2, <1>3, <3>1, KeyTells DEF PanelTypes
    <3> QED
      BY <3>2 DEF PanelInv
  <2> QED
    BY <2>1, <2>2
<1>11. sending = "open" => UNCHANGED <<messages, flaws>>
  BY <1>1
<1> QED
  BY <1>1, <1>3, <1>9, <1>10, <1>11 DEF PanelInv

LEMMA ReopenedStep == ASSUME PanelInv, Reopened PROVE PanelInv'
<1>1. /\ Takes("mishaps") /\ sending' = "no" /\ streamed' = <<>> /\ messages' = polled.lines /\ adopted' = KeyOfTalk(polled)
      /\ UNCHANGED <<transcript, beginning, polled, asking>>
  BY DEF Reopened, serverTalk
<1>2. PanelTypes
  BY DEF PanelInv
<1>3. ration' \in [RationKind -> Nat] /\ Begun' = Begun /\ Begun \in Nat /\ Spent \subseteq Spent'
  BY <1>1, <1>2, TakenIs
<1>4. TalkFits(transcript, Begun, Spent) /\ ReadOf(polled, transcript, Begun, Spent) /\ transcript \in Talked
  BY <1>2 DEF PanelTypes, TalkFits
<1>5. TalkFits(transcript', Begun', Spent') /\ LeadsTo(transcript, transcript', Begun)
  BY <1>1, <1>3, <1>4, SheetKeeps DEF TalkFits, LeadsTo
<1>6. Sheet(messages', Spent') /\ Sheet(streamed', Spent')
  BY <1>1, <1>3, <1>4, SheetKeeps, NoLines DEF ReadOf, TalkFits
<1>7. PanelTypes'
  BY <1>1, <1>2, <1>3, <1>5, <1>6, PanelTypesKept DEF PanelTypes
<1> QED
  BY <1>1, <1>7 DEF PanelInv

LEMMA SendsStep == ASSUME PanelInv, Sends PROVE PanelInv'
<1>1. /\ Takes("messages") /\ sending = "no" /\ sending' = "asked" /\ beginning # "here"
      /\ trimmed' = NewLine("messages") /\ messages' = Append(messages, NewLine("messages"))
      /\ UNCHANGED <<transcript, beginning, polled, asking, adopted, streamed>>
  BY DEF Sends, serverTalk, panelSide
<1>2. PanelTypes
  BY DEF PanelInv
<1>3. PICK x : x = NewLine("messages")
  OBVIOUS
<1>4. /\ ration' \in [RationKind -> Nat] /\ Begun' = Begun /\ Begun \in Nat /\ Spent \subseteq Spent'
      /\ x \in Line /\ x \in Spent' /\ x \notin Spent
  BY <1>1, <1>2, <1>3, TakenIs
<1>5. TalkFits(transcript, Begun, Spent) /\ transcript \in Talked /\ Sheet(transcript.lines, Spent) /\ Sheet(messages, Spent)
  BY <1>2 DEF PanelTypes, TalkFits
<1>6. TalkFits(transcript', Begun', Spent') /\ LeadsTo(transcript, transcript', Begun)
  BY <1>1, <1>4, <1>5, SheetKeeps DEF TalkFits, LeadsTo
<1>7. (\A i \in 1..Len(transcript.lines) : transcript.lines[i] # x) /\ (\A i \in 1..Len(messages) : messages[i] # x)
  BY <1>4, <1>5 DEF Sheet
<1>8. Sheet(messages', Spent')
  <2>1. Sheet(messages, Spent')
    BY <1>4, <1>5, SheetKeeps
  <2> QED
    BY <1>1, <1>3, <1>4, <1>7, <2>1, SheetGrows
<1>9. PanelTypes'
  BY <1>1, <1>2, <1>4, <1>6, <1>8, PanelTypesKept DEF PanelTypes
<1> QED
  BY <1>1, <1>3, <1>4, <1>7, <1>9 DEF PanelInv

LEMMA AcceptedStep == ASSUME PanelInv, Accepted PROVE PanelInv'
<1>1. /\ sending = "asked" /\ transcript.status = "active" /\ AppendMessage(trimmed)
      /\ sending' = "open" /\ streamed' = <<>>
      /\ flaws' = (IF messages = transcript'.lines THEN flaws ELSE flaws \union {"behind"})
      /\ UNCHANGED <<beginning, polled, asking, adopted, messages, trimmed, ration>>
  BY DEF Accepted, MayTalk, panelSide
<1>2. PanelTypes /\ trimmed \in Spent /\ \A i \in 1..Len(transcript.lines) : transcript.lines[i] # trimmed
  BY <1>1 DEF PanelInv
<1>3. transcript # NoTalk /\ beginning = "no"
  BY <1>1, <1>2 DEF NoTalk, PanelInv, PanelTypes
<1>4. Begun' = Begun /\ Begun \in Nat /\ Spent' = Spent /\ Spent \subseteq Line
  BY <1>1, <1>2, NothingTaken
<1>5. TalkFits(transcript, Begun, Spent)
  BY <1>2 DEF PanelTypes
<1>6. PICK x : x = trimmed
  OBVIOUS
<1>7. /\ TalkFits(transcript', Begun, Spent) /\ LeadsTo(transcript, transcript', Begun) /\ transcript' # NoTalk
  BY <1>1, <1>2, <1>3, <1>4, <1>5, <1>6, LineReaches
<1>8. PanelTypes'
  BY <1>1, <1>2, <1>4, <1>7, NoLines, PanelTypesKept DEF PanelTypes
<1>9. messages \o <<>> = messages
  BY <1>2, ConcatEmptySeq DEF PanelTypes, Sheet
<1>10. flaws' = {} => transcript'.lines = messages
  BY <1>1
<1>11. Len(<<>>) = 0
  OBVIOUS
<1> QED
  BY <1>1, <1>3, <1>7, <1>8, <1>9, <1>10, <1>11 DEF PanelInv

LEMMA RefusesStep == ASSUME PanelInv, Refuses PROVE PanelInv'
<1>1. /\ sending' = "no" /\ "refused" \in flaws'
      /\ UNCHANGED <<transcript, beginning, polled, asking, adopted, streamed, messages>>
  BY DEF Refuses, serverTalk, panelSide
<1>2. PanelTypes /\ TalkFits(transcript, Begun, Spent) /\ transcript \in Talked
  BY DEF PanelInv, PanelTypes, TalkFits
<1>3. ration' = ration \/ Takes("mishaps")
  BY DEF Refuses
<1>4. ration' \in [RationKind -> Nat] /\ Begun' = Begun /\ Begun \in Nat /\ Spent \subseteq Spent'
  BY <1>1, <1>2, <1>3, TakenIs, NothingTaken DEF PanelTypes
<1>5. TalkFits(transcript', Begun', Spent') /\ LeadsTo(transcript, transcript', Begun)
  BY <1>1, <1>2, <1>4, SheetKeeps DEF TalkFits, LeadsTo
<1>6. PanelTypes'
  BY <1>1, <1>2, <1>4, <1>5, PanelTypesKept DEF PanelTypes
<1> QED
  BY <1>1, <1>6 DEF PanelInv


LEMMA SpeaksStep == ASSUME PanelInv, Speaks PROVE PanelInv'
<1>1. /\ Takes("lines") /\ AppendMessage(NewLine("lines"))
      /\ streamed' = (IF sending = "open" THEN Append(streamed, NewLine("lines")) ELSE streamed)
      /\ UNCHANGED <<beginning, polled, asking, adopted, messages, sending, flaws, trimmed>>
  BY DEF Speaks, panelSide
<1>2. PanelTypes /\ Sheet(streamed, Spent) /\ Sheet(messages, Spent)
  BY DEF PanelInv, PanelTypes
<1>3. PICK x : x = NewLine("lines")
  OBVIOUS
<1>4. /\ ration' \in [RationKind -> Nat] /\ Begun' = Begun /\ Begun \in Nat
      /\ Spent \subseteq Spent' /\ x \in Line /\ x \in Spent' /\ x \notin Spent
      /\ TalkFits(transcript', Begun', Spent') /\ LeadsTo(transcript, transcript', Begun)
      /\ transcript = NoTalk => transcript' = NoTalk
      /\ transcript # NoTalk =>
           transcript'.lines = Append(transcript.lines, x) /\ transcript' # NoTalk /\ polled # transcript'
      /\ trimmed \in Spent /\ (\A i \in 1..Len(transcript.lines) : transcript.lines[i] # trimmed) =>
           \A i \in 1..Len(transcript'.lines) : transcript'.lines[i] # trimmed
  BY <1>1, <1>2, <1>3, NewLineReaches
<1>5. (\A i \in 1..Len(streamed) : streamed[i] # x) /\ (\A i \in 1..Len(messages) : messages[i] # x)
  BY <1>2, <1>4 DEF Sheet
<1>6. Sheet(streamed, Spent')
  BY <1>2, <1>4, SheetKeeps
<1>7. /\ Sheet(Append(streamed, x), Spent') /\ Len(Append(streamed, x)) = Len(streamed) + 1
      /\ Append(streamed, x)[Len(streamed) + 1] = x /\ \A i \in 1..Len(streamed) : Append(streamed, x)[i] = streamed[i]
      /\ Len(streamed) \in Nat
  BY <1>4, <1>5, <1>6, SheetGrows
<1>8. PanelTypes'
  BY <1>1, <1>2, <1>3, <1>4, <1>6, <1>7, PanelTypesKept DEF PanelTypes
<1>9. ASSUME sending = "open" PROVE /\ \A i \in 1..Len(messages'), j \in 1..Len(streamed') : messages'[i] # streamed'[j]
                                    /\ flaws' = {} => transcript' # NoTalk /\ transcript'.lines = messages' \o streamed'
  <2>1. streamed' = Append(streamed, x) /\ messages' = messages /\ flaws' = flaws
    BY <1>1, <1>3, <1>9
  <2>2. \A i \in 1..Len(messages), j \in 1..Len(streamed) : messages[i] # streamed[j]
    BY <1>9 DEF PanelInv
  <2>3. \A j \in 1..Len(streamed') : (j \in 1..Len(streamed) /\ streamed'[j] = streamed[j]) \/ streamed'[j] = x
    BY <1>7, <2>1
  <2>4. \A i \in 1..Len(messages), j \in 1..Len(streamed') : messages[i] # streamed'[j]
    BY <1>5, <2>2, <2>3
  <2>5. ASSUME flaws = {} PROVE transcript' # NoTalk /\ transcript'.lines = messages \o streamed'
    <3>1. transcript # NoTalk /\ transcript.lines = messages \o streamed
      BY <1>9, <2>5 DEF PanelInv
    <3>2. messages \in Seq(Line) /\ streamed \in Seq(Line)
      BY <1>2 DEF Sheet
    <3> QED
      BY <1>4, <2>1, <3>1, <3>2, EndMoves
  <2> QED
    BY <2>1, <2>4, <2>5
<1>10. sending' = "no" /\ flaws' = {} => messages' = polled'.lines \/ polled' # transcript'
  <2>1. CASE transcript = NoTalk
    BY <1>1, <1>4, <2>1 DEF PanelInv
  <2> QED
    BY <1>1, <1>4, <2>1
<1> QED
  BY <1>1, <1>4, <1>8, <1>9, <1>10 DEF PanelInv

\* A line that comes while no message is being streamed, or is noted.
LEMMA OthersLineStep ==
  ASSUME PanelInv, NEW what \in {"lines", "mishaps"}, Takes(what), AppendMessage(NewLine(what)),
         UNCHANGED <<beginning, streamed, polled, asking, adopted, messages, sending, trimmed>>,
         flaws \subseteq flaws', sending = "open" => flaws' # {}
  PROVE  PanelInv'
<1>1. PanelTypes
  BY DEF PanelInv
<1>2. PICK x : x = NewLine(what)
  OBVIOUS
<1>3. /\ ration' \in [RationKind -> Nat] /\ Begun' = Begun /\ Begun \in Nat
      /\ Spent \subseteq Spent'
      /\ TalkFits(transcript', Begun', Spent') /\ LeadsTo(transcript, transcript', Begun)
      /\ transcript = NoTalk => transcript' = NoTalk
      /\ transcript # NoTalk => transcript' # NoTalk /\ polled # transcript'
      /\ trimmed \in Spent /\ (\A i \in 1..Len(transcript.lines) : transcript.lines[i] # trimmed) =>
           \A i \in 1..Len(transcript'.lines) : transcript'.lines[i] # trimmed
  BY <1>1, NewLineReaches
<1>4. PanelTypes'
  BY <1>1, <1>3, PanelTypesKept DEF PanelTypes
<1>5. flaws' = {} => flaws = {}
  OBVIOUS
<1>6. sending' = "no" /\ flaws' = {} => messages' = polled'.lines \/ polled' # transcript'
  <2>1. CASE transcript = NoTalk
    BY <1>3, <1>5, <2>1 DEF PanelInv
  <2> QED
    BY <1>3, <2>1
<1> QED
  BY <1>3, <1>4, <1>5, <1>6 DEF PanelInv

\* A step that only the server's bookkeeping sees.
LEMMA QuietStep ==
  ASSUME PanelInv, UNCHANGED <<transcript, beginning, streamed, polled, asking, adopted, messages, sending, flaws, ration, trimmed>>
  PROVE  PanelInv'
<1>1. Begun' = Begun /\ Spent' = Spent /\ PanelTypes
  BY StillReads DEF PanelInv
<1>2. PanelTypes'
  BY <1>1 DEF PanelTypes
<1> QED
  BY <1>1, <1>2 DEF PanelInv

LEMMA ExitsStep == ASSUME PanelInv, Exits PROVE PanelInv'
<1>1. UNCHANGED <<beginning, streamed, polled, asking, adopted, messages, sending, trimmed>>
  BY DEF Exits, panelSide
<1>2. CASE UNCHANGED <<transcript, flaws, ration>>
  BY <1>1, <1>2, QuietStep
<1>3. CASE /\ Takes("mishaps") /\ AppendMessage(NewLine("mishaps"))
           /\ flaws' = IF sending = "open" THEN flaws \union {"unsaid"} ELSE flaws
  BY <1>1, <1>3, OthersLineStep
<1> QED
  BY <1>2, <1>3 DEF Exits

LEMMA EventReadStep == ASSUME PanelInv, EventRead PROVE PanelInv'
<1>1. /\ sending = "open" /\ streamed # <<>> /\ messages' = Append(messages, Head(streamed)) /\ streamed' = Tail(streamed)
      /\ UNCHANGED <<transcript, beginning, polled, asking, adopted, sending, flaws, ration, trimmed>>
  BY DEF EventRead, serverTalk, panelSide
<1>2. /\ PanelTypes /\ \A i \in 1..Len(messages), j \in 1..Len(streamed) : messages[i] # streamed[j]
      /\ flaws = {} => transcript # NoTalk /\ transcript.lines = messages \o streamed
  BY <1>1 DEF PanelInv
<1>3. Begun' = Begun /\ Begun \in Nat /\ Spent' = Spent /\ Spent \subseteq Line /\ TalkFits(transcript', Begun', Spent')
  BY <1>1, <1>2, StillReads
<1>4. Sheet(messages, Spent) /\ Sheet(streamed, Spent) /\ messages \in Seq(Line) /\ streamed \in Seq(Line)
  BY <1>2 DEF PanelTypes, Sheet
<1>5. PICK x : x = Head(streamed)
  OBVIOUS
<1>6. /\ Sheet(Tail(streamed), Spent) /\ x = streamed[1] /\ x \in Spent /\ x \in Line
      /\ Len(streamed) \in Nat /\ Len(streamed) >= 1 /\ Len(Tail(streamed)) = Len(streamed) - 1
      /\ \A i \in 1..Len(streamed) - 1 : Tail(streamed)[i] = streamed[i + 1] /\ Tail(streamed)[i] # x
  BY <1>1, <1>4, <1>5, SheetTail
<1>7. 1 \in 1..Len(streamed) /\ \A i \in 1..Len(messages) : messages[i] # x
  BY <1>2, <1>6
<1>8. /\ Sheet(Append(messages, x), Spent) /\ Len(Append(messages, x)) = Len(messages) + 1 /\ Len(messages) \in Nat
      /\ Append(messages, x)[Len(messages) + 1] = x /\ \A i \in 1..Len(messages) : Append(messages, x)[i] = messages[i]
  BY <1>4, <1>6, <1>7, SheetGrows
<1>9. PanelTypes'
  BY <1>1, <1>2, <1>3, <1>5, <1>6, <1>8, PanelTypesKept DEF PanelTypes, LeadsTo
<1>10. \A i \in 1..Len(messages'), j \in 1..Len(streamed') : messages'[i] # streamed'[j]
  <2> SUFFICES ASSUME NEW i \in 1..Len(messages) + 1, NEW j \in 1..Len(streamed) - 1
               PROVE  Append(messages, x)[i] # Tail(streamed)[j]
    BY <1>1, <1>5, <1>6, <1>8
  <2>1. Tail(streamed)[j] = streamed[j + 1] /\ Tail(streamed)[j] # x /\ j + 1 \in 1..Len(streamed)
    BY <1>6
  <2>2. i \in 1..Len(messages) \/ i = Len(messages) + 1
    BY <1>8
  <2> QED
    BY <1>2, <1>8, <2>1, <2>2
<1>11. flaws' = {} => transcript' # NoTalk /\ transcript'.lines = messages' \o streamed'
  BY <1>1, <1>2, <1>4, HeadMoves
<1> QED
  BY <1>1, <1>9, <1>10, <1>11 DEF PanelInv

LEMMA SentStep == ASSUME PanelInv, Sent PROVE PanelInv'
<1>1. /\ sending = "open" /\ sending' = "no" /\ streamed' = <<>>
      /\ UNCHANGED <<transcript, beginning, polled, asking, adopted, messages>>
      /\ \/ streamed = <<>> /\ UNCHANGED <<flaws, ration>>
         \/ Takes("mishaps") /\ flaws' = flaws \union {"broken"}
  BY DEF Sent, serverTalk, panelSide
<1>2. PanelTypes /\ TalkFits(transcript, Begun, Spent) /\ transcript \in Talked /\ messages \in Seq(Line)
  BY DEF PanelInv, PanelTypes, TalkFits, Sheet
<1>3. ration' \in [RationKind -> Nat] /\ Begun' = Begun /\ Begun \in Nat /\ Spent \subseteq Spent'
  BY <1>1, <1>2, TakenIs, NothingTaken DEF PanelTypes
<1>4. TalkFits(transcript', Begun', Spent') /\ LeadsTo(transcript, transcript', Begun)
  BY <1>1, <1>2, <1>3, SheetKeeps DEF TalkFits, LeadsTo
<1>5. PanelTypes'
  BY <1>1, <1>2, <1>3, <1>4, NoLines, PanelTypesKept DEF PanelTypes
<1>6. flaws' = {} => messages' = polled'.lines \/ polled' # transcript'
  <2>1. CASE streamed = <<>> /\ UNCHANGED <<flaws, ration>>
    <3>1. flaws = {} => transcript.lines = messages \o streamed
      BY <1>1 DEF PanelInv
    <3>2. messages \o streamed = messages
      BY <1>2, <2>1, ConcatEmptySeq
    <3> QED
      BY <1>1, <2>1, <3>1, <3>2
  <2> QED
    BY <1>1, <2>1
<1> QED
  BY <1>1, <1>5, <1>6 DEF PanelInv

LEMMA StartPostedStep == ASSUME PanelInv, NEW here \in BOOLEAN, StartPosted(here) PROVE PanelInv'
<1>1. /\ beginning = "no" /\ Takes("starts") /\ (here => sending = "no")
      /\ beginning' = (IF here THEN "here" ELSE "elsewhere") /\ transcript' = NoTalk
      /\ flaws' = (IF sending = "no" /\ (polled = NoTalk => messages = <<>>) THEN flaws ELSE flaws \union {"replaced"})
      /\ UNCHANGED <<streamed, polled, asking, adopted, messages, sending, trimmed>>
  BY DEF StartPosted, panelSide
<1>2. PanelTypes /\ ration["starts"] > 0 /\ ration' = [ration EXCEPT !["starts"] = @ - 1] /\ ration \in [RationKind -> Nat]
  BY <1>1 DEF PanelInv, Takes, PanelTypes
<1>3. /\ ration' \in [RationKind -> Nat] /\ ration'["starts"] = ration["starts"] - 1 /\ ration["starts"] \in Nat
      /\ \A k \in RationKind \ {"starts"} : ration'[k] = ration[k]
  BY <1>2 DEF RationKind
<1>4. Begun' = Begun /\ Begun \in Nat
  BY <1>1, <1>3 DEF Begun
<1>5. Spent' = Spent
  <2>1. ASSUME NEW l \in Line PROVE l \in Spent' <=> l \in Spent
    <3>1. l[1] # "begin" => l[1] \in RationKind \ {"starts"}
      BY DEF Line, LineKind, RationKind
    <3> QED
      BY <1>3, <1>4, <3>1 DEF Spent
  <2> QED
    BY <2>1 DEF Spent
<1>6. NoTalk \in Talked /\ NoTalk.conv = 0 /\ NoTalk.lines = <<>>
  BY DEF NoTalk, Talked
<1>7. TalkFits(transcript', Begun', Spent') /\ LeadsTo(transcript, transcript', Begun)
  BY <1>1, <1>6, NoLines DEF TalkFits, LeadsTo
<1>8. PanelTypes'
  BY <1>1, <1>2, <1>3, <1>4, <1>5, <1>7, PanelTypesKept DEF PanelTypes
<1>9. sending' = "no" /\ flaws' = {} => messages' = polled'.lines \/ polled' # transcript'
  BY <1>1, <1>6
<1>10. sending = "open" => flaws' # {}
  BY <1>1
<1>11. \A i \in 1..Len(transcript'.lines) : transcript'.lines[i] # trimmed
  BY <1>1, <1>6
<1> QED
  BY <1>1, <1>5, <1>8, <1>9, <1>10, <1>11 DEF PanelInv

LEMMA StartsStep == ASSUME PanelInv, Starts PROVE PanelInv'
<1>1. /\ beginning # "no" /\ beginning' = "no"
      /\ transcript' = [conv |-> ration["starts"] + 1, status |-> "active", lines |-> <<>>]
      /\ IF beginning = "here"
           THEN sending' = "asked" /\ trimmed' = <<"begin", ration["starts"]>> /\ messages' = <<trimmed'>>
           ELSE UNCHANGED <<sending, trimmed, messages, flaws>>
      /\ UNCHANGED <<streamed, polled, asking, adopted, ration>>
  BY DEF Starts, panelSide
<1>2. PanelTypes /\ ration \in [RationKind -> Nat] /\ ration["starts"] \in Nat /\ transcript = NoTalk
  BY <1>1 DEF PanelInv, PanelTypes, RationKind
<1>3. Begun = ration["starts"] + 1 /\ Begun' = ration["starts"] /\ Begun \in Nat /\ Begun' \in Nat /\ Begun' <= Begun
  BY <1>1, <1>2 DEF Begun
<1>4. PICK x : x = <<"begin", ration["starts"]>>
  OBVIOUS
<1>5. x \in Line /\ x[1] = "begin" /\ x[2] = ration["starts"]
  BY <1>2, <1>4 DEF Line, LineKind
<1>6. x \in Spent'
  BY <1>3, <1>5 DEF Spent
<1>7. Spent \subseteq Spent'
  <2> SUFFICES ASSUME NEW l \in Line, l \in Spent PROVE l \in Spent'
    BY SpentIsLines
  <2>1. l[2] \in Nat
    BY DEF Line
  <2> QED
    BY <1>1, <1>3, <2>1 DEF Spent
<1>8. <<>> \in Seq(Line)
  OBVIOUS
<1>9. /\ transcript' \in Talked /\ transcript'.conv = Begun /\ transcript'.lines = <<>> /\ transcript'.status = "active"
      /\ Begun # 0 /\ Begun > Begun'
  BY <1>1, <1>2, <1>3, <1>8 DEF Talked
<1>10. TalkFits(transcript', Begun', Spent') /\ LeadsTo(transcript, transcript', Begun)
  BY <1>3, <1>9, NoLines DEF TalkFits, LeadsTo
<1>11. beginning = "here" => messages' = <<x>> /\ trimmed' = x /\ sending' = "asked" /\ Sheet(messages', Spent')
  BY <1>1, <1>4, <1>5, <1>6, OneLine
<1>12. PanelTypes'
  <2>1. CASE beginning = "here"
    BY <1>1, <1>2, <1>3, <1>7, <1>10, <1>11, <2>1, PanelTypesKept DEF PanelTypes
  <2>2. CASE beginning # "here"
    BY <1>1, <1>2, <1>3, <1>7, <1>10, <2>2, PanelTypesKept DEF PanelTypes
  <2> QED
    BY <2>1, <2>2
<1>13. polled # transcript'
  <2>1. polled \in Talked /\ (polled.conv # 0 => polled.conv > Begun)
    BY <1>2 DEF PanelTypes, ReadOf, TalkFits
  <2>2. polled.conv \in Nat
    BY <2>1 DEF Talked
  <2> QED
    BY <1>3, <1>9, <2>1, <2>2
<1>14. \A i \in 1..Len(transcript'.lines) : transcript'.lines[i] # trimmed'
  BY <1>9
<1>15. sending = "open" => flaws # {}
  BY <1>2 DEF PanelInv
<1>16. sending' = "asked" => trimmed' \in Spent'
  BY <1>1, <1>6, <1>7, <1>11 DEF PanelInv
<1>17. sending' = "open" => sending = "open" /\ UNCHANGED <<messages, streamed, flaws>>
  BY <1>1
<1> QED
  BY <1>1, <1>12, <1>13, <1>14, <1>15, <1>16, <1>17 DEF PanelInv

LEMMA InterviewEndedStep == ASSUME PanelInv, InterviewEnded PROVE PanelInv'
<1>1. /\ transcript.status = "active" /\ transcript' = [transcript EXCEPT !.status = "ended"]
      /\ UNCHANGED <<beginning, streamed, polled, asking, adopted, messages, sending, flaws, ration, trimmed>>
  BY DEF InterviewEnded, MayTalk, panelSide
<1>2. PanelTypes /\ TalkFits(transcript, Begun, Spent) /\ transcript \in Talked /\ ReadOf(polled, transcript, Begun, Spent)
  BY DEF PanelInv, PanelTypes, TalkFits
<1>3. Begun' = Begun /\ Begun \in Nat /\ Spent' = Spent
  BY <1>1, <1>2, NothingTaken
<1>4. /\ transcript' \in Talked /\ transcript'.lines = transcript.lines /\ transcript'.conv = transcript.conv
      /\ transcript'.status = "ended" /\ transcript # NoTalk /\ transcript.conv # 0 /\ transcript' # NoTalk /\ transcript' # transcript
  BY <1>1, <1>2 DEF Talked, NoTalk, TalkFits
<1>5. TalkFits(transcript', Begun', Spent') /\ LeadsTo(transcript, transcript', Begun)
  BY <1>2, <1>3, <1>4 DEF TalkFits, LeadsTo
<1>6. PanelTypes'
  BY <1>1, <1>2, <1>3, <1>5, PanelTypesKept DEF PanelTypes
<1>7. polled # transcript'
  BY <1>1, <1>2, <1>3, <1>4, <1>5, ReadIsBehind
<1> QED
  BY <1>1, <1>3, <1>4, <1>6, <1>7 DEF PanelInv

LEMMA PanelStep == PanelInv /\ [PanelNext]_panelVars => PanelInv'
<1> SUFFICES ASSUME PanelInv, [PanelNext]_panelVars PROVE PanelInv'
  OBVIOUS
<1>1. CASE OtherSends
  <2>1. flaws \subseteq flaws' /\ (sending = "open" => flaws' # {})
    BY <1>1 DEF OtherSends
  <2> QED
    BY <1>1, <2>1, OthersLineStep DEF OtherSends, panelSide
<1>2. CASE OtherSpeaks
  <2>1. flaws \subseteq flaws' /\ (sending = "open" => flaws' # {})
    BY <1>2 DEF OtherSpeaks
  <2> QED
    BY <1>2, <2>1, OthersLineStep DEF OtherSpeaks, panelSide
<1>3. CASE OtherExits \/ StopsTurn
  BY <1>3, QuietStep DEF OtherExits, StopsTurn, panelSide
<1>4. CASE UNCHANGED panelVars
  BY <1>4, QuietStep DEF panelVars, serverTalk, panelSide
<1> QED
  BY <1>1, <1>2, <1>3, <1>4, PollReadsStep, PollArrivesStep, ReopenedStep, SendsStep, AcceptedStep, RefusesStep,
     SpeaksStep, ExitsStep, EventReadStep, SentStep, StartPostedStep, StartsStep, InterviewEndedStep DEF PanelNext

LEMMA PanelShown == PanelInv => PanelAgrees
BY DEF PanelInv, PanelTypes, Sheet, PanelAgrees

\* The chat shows no line twice, and the server's transcript when App has polled it and nothing is
\* being sent, unless something went wrong that nothing has repaired yet (InterviewPanel.tsx).
THEOREM PanelAgreesHolds == PanelSpec => []PanelAgrees
BY PanelInitial, PanelStep, PanelShown, PTL DEF PanelSpec

-----------------------------------------------------------------------------
(* The console. *)

LEMMA ShownInitial == ConsoleInit => ViewsInv /\ PanelInv
BY ViewsInitial, PanelInitial DEF ConsoleInit

LEMMA ShownStep == ViewsInv /\ PanelInv /\ [ConsoleNext]_consoleVars => ViewsInv' /\ PanelInv'
<1> SUFFICES ASSUME ViewsInv, PanelInv, [ConsoleNext]_consoleVars PROVE ViewsInv' /\ PanelInv'
  OBVIOUS
<1>1. [ViewsNext]_viewVars /\ [PanelNext]_panelVars
  <2>1. CASE ConsoleNext
    BY <2>1, Zenon DEF ConsoleNext
  <2>2. CASE UNCHANGED consoleVars
    BY <2>2, Zenon DEF consoleVars
  <2> QED
    BY <2>1, <2>2
<1> QED
  BY <1>1, ViewsStep, PanelStep

\* Whatever the console does, the browser shows what the server has (the polling of App and of
\* SystemDiagram, and the stream and polls of the interview panel).
THEOREM ShownHoldsAlways == ConsoleSpec => []ShownHolds
<1>1. ViewsInv /\ PanelInv => ShownHolds
  BY ViewsShown, PanelShown DEF ShownHolds
<1> QED
  BY <1>1, ShownInitial, ShownStep, PTL DEF ConsoleSpec

LEMMA DatabasesInitial == ConsoleInit => PostgresInv /\ SeedsInv
BY PostgresInitial, SeedsInitial DEF ConsoleInit

LEMMA DatabasesStep == PostgresInv /\ SeedsInv /\ [ConsoleNext]_consoleVars => PostgresInv' /\ SeedsInv'
<1> SUFFICES ASSUME PostgresInv, SeedsInv, [ConsoleNext]_consoleVars PROVE PostgresInv' /\ SeedsInv'
  OBVIOUS
<1>1. [PostgresNext]_pgVars /\ [SeedsNext]_seedVars
  <2>1. CASE ConsoleNext
    BY <2>1, Zenon DEF ConsoleNext
  <2>2. CASE UNCHANGED consoleVars
    BY <2>2, Zenon DEF consoleVars
  <2> QED
    BY <2>1, <2>2
<1> QED
  BY <1>1, PostgresStep, SeedsStep

\* Whatever the console does, a database is what its files say of it (postgresTopology.js), and its
\* rows are the seed entries asked for (dbseed.js).
THEOREM DatabasesHoldAlways == ConsoleSpec => []DatabasesHold
<1>1. PostgresInv /\ SeedsInv => DatabasesHold
  BY PostgresFits, SeedsFit DEF DatabasesHold
<1> QED
  BY <1>1, DatabasesInitial, DatabasesStep, PTL DEF ConsoleSpec
===============================================================================
