------------------------- MODULE PaymentsApi_proofs -------------------------
(***************************************************************************)
(* Proofs about PaymentsApi, for any number of keys, completions and        *)
(* threads of the pool.                                                     *)
(***************************************************************************)
EXTENDS PaymentsApi, SequenceTheorems, FiniteSetTheorems, WellFoundedInduction, TLAPS

-----------------------------------------------------------------------------
(* Lists.  The queue, the four outcome lists and what the handlers hold are *)
(* shelves; a step takes a completion from one shelf to another.            *)

Outcome == {"canceled", "processed", "failed", "skipped"}

Shelf == (({"queue"} \union Outcome) \X {None}) \union ({"file", "settle"} \X Threads)

\* No two places hold completions of one number.
Distinct(c, shelves) ==
  \A g, h \in shelves : \A m \in DOMAIN c[g], n \in DOMAIN c[h] :
    c[g][m].no = c[h][n].no => g = h /\ m = n

Somewhere(c, no) == \E h \in Shelf : \E n \in DOMAIN c[h] : c[h][n].no = no

\* Python's list.remove finds the first entry that is equal.
LEMMA MinInSet ==
  ASSUME NEW S \in SUBSET Nat, IsFiniteSet(S), S # {}
  PROVE  Min(S) \in S
<1> DEFINE Below(x) == {y \in S : y < x}
           Belows == {Below(x) : x \in S}
<1>1. IsWellFoundedOn(StrictSubsetOrdering(S), SUBSET S)
  BY FS_StrictSubsetOrderingWellFounded, FS_FiniteSubsetsOfFinite
<1>2. Belows \subseteq SUBSET S /\ Belows # {}
  OBVIOUS
<1>3. PICK B \in Belows : \A C \in Belows : <<C, B>> \notin StrictSubsetOrdering(S)
  BY <1>1, <1>2, WFMin
<1>4. PICK x \in S : B = Below(x)
  BY <1>3
<1>5. \A y \in S : x <= y
  <2> SUFFICES ASSUME NEW y \in S, y < x PROVE FALSE
    OBVIOUS
  <2>1. \A z \in S : z \in Nat
    OBVIOUS
  <2>2. \A z \in Below(y) : z \in Below(x)
    <3> SUFFICES ASSUME NEW z \in S, z < y PROVE z < x
      OBVIOUS
    <3> QED
      BY <2>1
  <2>3. y \in Below(x) /\ y \notin Below(y)
    BY <2>1
  <2>4. Below(x) \subseteq S /\ Below(y) \subseteq S /\ Below(y) \in Belows
    OBVIOUS
  <2> HIDE DEF Below, Belows
  <2>5. <<Below(y), Below(x)>> \in StrictSubsetOrdering(S)
    BY <2>2, <2>3, <2>4 DEF StrictSubsetOrdering
  <2> QED
    BY <1>3, <1>4, <2>4, <2>5
<1> QED
  BY <1>5 DEF Min

LEMMA RemoveFirstIsRemoveAt ==
  ASSUME NEW S, NEW s \in Seq(S), NEW e, Contains(s, e)
  PROVE  \E i \in 1..Len(s) : s[i] = e /\ RemoveFirst(s, e) = RemoveAt(s, i)
<1> DEFINE I == {i \in 1..Len(s) : s[i] = e}
<1>1. I # {} /\ IsFiniteSet(I) /\ I \in SUBSET Nat
  <2>1. Len(s) \in Nat
    BY LenProperties
  <2>2. IsFiniteSet(1..Len(s))
    BY <2>1, FS_Interval
  <2>3. I \subseteq 1..Len(s)
    OBVIOUS
  <2> QED
    BY <2>1, <2>2, <2>3, FS_Subset DEF Contains
<1>2. Min(I) \in I
  BY <1>1, MinInSet
<1>3. RemoveFirst(s, e) = RemoveAt(s, Min(I))
  BY <1>1 DEF RemoveFirst, SelectInSeq
<1> QED
  BY <1>2, <1>3

\* RemoveAt closes the gap.
LEMMA RemoveAtProperties ==
  ASSUME NEW S, NEW s \in Seq(S), NEW i \in 1..Len(s)
  PROVE  /\ RemoveAt(s, i) \in Seq(S)
         /\ Len(RemoveAt(s, i)) = Len(s) - 1
         /\ \A n \in 1..Len(s) - 1 : RemoveAt(s, i)[n] = IF n < i THEN s[n] ELSE s[n + 1]
<1> DEFINE a == SubSeq(s, 1, i - 1)
           b == SubSeq(s, i + 1, Len(s))
<1>1. Len(s) \in Nat /\ \A n \in 1..Len(s) : s[n] \in S
  BY LenProperties, ElementOfSeq
<1>2. a \in Seq(S) /\ Len(a) = i - 1 /\ \A n \in 1..i - 1 : a[n] = s[n]
  BY <1>1, SubSeqProperties
<1>3. b \in Seq(S) /\ Len(b) = Len(s) - i /\ \A n \in 1..Len(s) - i : b[n] = s[i + n]
  BY <1>1, SubSeqProperties
<1> HIDE DEF a, b
<1>4. /\ a \o b \in Seq(S) /\ Len(a \o b) = Len(a) + Len(b)
      /\ \A n \in 1..Len(a) + Len(b) : (a \o b)[n] = IF n <= Len(a) THEN a[n] ELSE b[n - Len(a)]
  BY <1>2, <1>3, ConcatProperties
<1>5. Len(a) + Len(b) = Len(s) - 1
  BY <1>1, <1>2, <1>3
<1>6. ASSUME NEW n \in 1..Len(s) - 1 PROVE (a \o b)[n] = IF n < i THEN s[n] ELSE s[n + 1]
  <2>1. CASE n < i
    BY <1>1, <1>2, <1>4, <1>5, <2>1
  <2>2. CASE n >= i
    <3>1. (a \o b)[n] = b[n - (i - 1)]
      BY <1>1, <1>2, <1>4, <1>5, <2>2
    <3>2. n - (i - 1) \in 1..Len(s) - i /\ i + (n - (i - 1)) = n + 1
      BY <1>1, <2>2
    <3>3. b[n - (i - 1)] = s[i + (n - (i - 1))]
      BY <1>3, <3>2
    <3> QED
      BY <1>1, <2>2, <3>1, <3>2, <3>3
  <2>3. n < i \/ n >= i
    BY <1>1
  <2> QED
    BY <2>1, <2>2, <2>3
<1> QED
  BY <1>4, <1>5, <1>6 DEF RemoveAt, a, b

LEMMA TailIsRemoveAt ==
  ASSUME NEW S, NEW s \in Seq(S), s # <<>>
  PROVE  /\ 1 \in 1..Len(s) /\ Head(s) = s[1] /\ Head(s) \in S
         /\ Tail(s) \in Seq(S) /\ Tail(s) = RemoveAt(s, 1)
<1>1. Len(s) \in Nat \ {0}
  BY EmptySeq
<1>2. Tail(s) \in Seq(S) /\ Tail(s) = SubSeq(s, 2, Len(s)) /\ Head(s) \in S
  BY HeadTailProperties, TailIsSubSeq
<1>3. SubSeq(s, 1, 1 - 1) = <<>>
  BY SubSeqEmpty
<1>4. RemoveAt(s, 1) = <<>> \o SubSeq(s, 1 + 1, Len(s))
  BY <1>3 DEF RemoveAt
<1>5. <<>> \o Tail(s) = Tail(s)
  BY <1>2, ConcatEmptySeq
<1> QED
  BY <1>1, <1>2, <1>4, <1>5

-----------------------------------------------------------------------------
(* Types. *)

\* A handler that goes on with one completion holds it, and a scan starts at 1.
HandlersFit ==
  \A t \in Threads :
    /\ job[t].at = "scan" => job[t].i # 0
    /\ job[t].at \in {"notify", "remove", "file"} => job[t].work # <<>> /\ Len(job[t].work) = 1

ApiTypes == TypeOK /\ HandlersFit

LEMMA JobFields ==
  ASSUME TypeOK, NEW t \in Threads
  PROVE  /\ job[t] \in Job /\ job[t].at \in Place /\ job[t].key \in Keys \union {None}
         /\ job[t].i \in Nat /\ job[t].work \in Seq(Completion)
BY DEF TypeOK, Job

\* Goto and Answer leave a handler that fits.
LEMMA GotoTyped ==
  ASSUME ApiTypes, NEW t \in Threads, NEW place \in Place, NEW work \in Seq(Completion), Goto(t, place, work)
  PROVE  /\ job' \in [Threads -> Job]
         /\ job'[t].at = place /\ job'[t].work = work
         /\ \A u \in Threads \ {t} : job'[u] = job[u]
BY DEF ApiTypes, TypeOK, Goto, IdleJob, Job

LEMMA AnswerTyped ==
  ASSUME ApiTypes, NEW t \in Threads, Answer(t)
  PROVE  /\ job' \in [Threads -> Job] /\ job'[t].at = "idle" /\ job'[t].work = <<>>
         /\ \A u \in Threads \ {t} : job'[u] = job[u]
<1>1. <<>> \in Seq(Completion)
  BY EmptySeq
<1> QED
  BY <1>1 DEF ApiTypes, TypeOK, Answer, IdleJob, Job, Place

LEMMA ApiTypesInitial == Init => ApiTypes
<1>1. <<>> \in Seq(Completion) /\ <<>> \in Seq(Keys)
  BY EmptySeq
<1>2. IdleJob \in Job /\ IdleJob.at = "idle"
  <2>1. IdleJob.at = "idle" /\ IdleJob = [at |-> "idle", key |-> None, i |-> 0, work |-> <<>>]
    BY DEF IdleJob
  <2>2. "idle" \in Place
    BY DEF Place
  <2> QED
    BY <1>1, <2>1, <2>2 DEF Job
<1>3. Init => TypeOK
  <2> SUFFICES ASSUME Init PROVE TypeOK
    OBVIOUS
  <2>1. job \in [Threads -> Job] /\ received \in 0..MaxCompletions
    BY <1>2, ApiAssumption DEF Init
  <2>2. \A list \in {processing, canceled, processed, failed, skipped} : list \in Seq(Completion)
    BY <1>1 DEF Init
  <2> QED
    BY <1>1, <2>1, <2>2 DEF Init, TypeOK
<1>4. Init => HandlersFit
  BY <1>2 DEF Init, HandlersFit
<1> QED
  BY <1>3, <1>4 DEF ApiTypes

LEMMA ApiTypesStep == ApiTypes /\ [Next]_vars => ApiTypes'
<1> SUFFICES ASSUME ApiTypes, [Next]_vars PROVE ApiTypes'
  OBVIOUS
<1> USE DEF ApiTypes
<1>e. <<>> \in Seq(Completion)
  BY EmptySeq
<1>1. ASSUME NEW k \in Keys, CreatePayment(k) PROVE ApiTypes'
  BY <1>1 DEF CreatePayment, outcomes, serviceOne, TypeOK, HandlersFit
<1>2. ASSUME NEW t \in Threads, NEW token \in registered \union {None}, QueueCompletion(t, token)
      PROVE  ApiTypes'
  <2> DEFINE attempt == [no |-> received + 1, token |-> token]
  <2>1. attempt \in Completion /\ received' \in 0..MaxCompletions
    BY <1>2, ApiAssumption DEF QueueCompletion, TypeOK, Completion
  <2>2. Append(processing, attempt) \in Seq(Completion)
    BY <2>1, AppendProperties DEF TypeOK
  <2>3. /\ <<attempt>> \in Seq(Completion) /\ Len(<<attempt>>) = 1 /\ <<attempt>> # <<>>
    BY <2>1
  <2>4. Goto(t, "notify", <<attempt>>) /\ processing' = Append(processing, attempt)
        /\ UNCHANGED <<registered, outcomes, serviceOne>> /\ overlapped' \in BOOLEAN
    BY <1>2 DEF QueueCompletion, ChangeQueue, TypeOK
  <2> HIDE DEF attempt
  <2>5. /\ job' \in [Threads -> Job] /\ job'[t].at = "notify" /\ job'[t].work = <<attempt>>
        /\ \A u \in Threads \ {t} : job'[u] = job[u]
    BY <2>3, <2>4, GotoTyped DEF Place
  <2> QED
    BY <2>1, <2>2, <2>3, <2>4, <2>5 DEF TypeOK, HandlersFit, outcomes, serviceOne
<1>3. ASSUME NEW t \in Threads, NotifyWebhook(t) PROVE ApiTypes'
  <2>1. /\ job' \in [Threads -> Job] /\ job'[t].at = "idle" /\ \A u \in Threads \ {t} : job'[u] = job[u]
    BY <1>3, AnswerTyped DEF NotifyWebhook
  <2>2. paid' \subseteq Keys /\ UNCHANGED <<registered, received, processing, overlapped, outcomes, settled>>
    BY <1>3 DEF NotifyWebhook, TypeOK
  <2> QED
    BY <2>1, <2>2 DEF TypeOK, HandlersFit, outcomes
<1>4. ASSUME NEW t \in Threads, NEW k \in Keys, StartCancel(t, k) PROVE ApiTypes'
  <2>1. /\ job' \in [Threads -> Job] /\ job'[t] = [at |-> "scan", key |-> k, i |-> 1, work |-> <<>>]
        /\ \A u \in Threads \ {t} : job'[u] = job[u]
    BY <1>4, <1>e DEF StartCancel, TypeOK, IdleJob, Job, Place
  <2> QED
    BY <1>4, <2>1 DEF StartCancel, TypeOK, HandlersFit, outcomes, serviceOne
<1>5. ASSUME NEW t \in Threads, ScanQueue(t) PROVE ApiTypes'
  <2>1. UNCHANGED <<registered, received, processing, overlapped, outcomes, serviceOne>>
    BY <1>5 DEF ScanQueue
  <2>2. CASE Answer(t)
    BY <2>1, <2>2, AnswerTyped DEF TypeOK, HandlersFit, outcomes, serviceOne
  <2>3. CASE job' = [job EXCEPT ![t].i = @ + 1]
    <3>1. job[t].i \in Nat /\ job[t] \in Job
      BY JobFields
    <3> DEFINE next == [job[t] EXCEPT !.i = job[t].i + 1]
    <3>2. next \in Job /\ next.i # 0 /\ next.at = job[t].at /\ next.work = job[t].work
      BY <3>1 DEF Job
    <3>3. job' = [job EXCEPT ![t] = next]
      BY <2>3
    <3> HIDE DEF next
    <3>4. /\ job' \in [Threads -> Job] /\ job'[t] = next /\ \A u \in Threads \ {t} : job'[u] = job[u]
      BY <3>2, <3>3 DEF TypeOK
    <3> QED
      BY <2>1, <3>2, <3>4 DEF TypeOK, HandlersFit, outcomes, serviceOne
  <2>4. CASE job[t].i <= Len(processing) /\ Goto(t, "remove", <<processing[job[t].i]>>)
    <3>1. job[t].i \in 1..Len(processing)
      BY <1>5, <2>4, JobFields DEF ScanQueue, HandlersFit
    <3>2. processing[job[t].i] \in Completion
      BY <3>1, ElementOfSeq DEF TypeOK
    <3> DEFINE work == <<processing[job[t].i]>>
    <3>3. work \in Seq(Completion) /\ Len(work) = 1 /\ work # <<>>
      BY <3>2
    <3> HIDE DEF work
    <3>4. /\ job' \in [Threads -> Job] /\ job'[t].at = "remove" /\ job'[t].work = work
          /\ \A u \in Threads \ {t} : job'[u] = job[u]
      <4>1. "remove" \in Place /\ Goto(t, "remove", work)
        BY <2>4 DEF Place, work
      <4> QED
        BY <4>1, <3>3, GotoTyped
    <3> QED
      BY <2>1, <3>3, <3>4 DEF TypeOK, HandlersFit, outcomes, serviceOne
  <2> QED
    BY <1>5, <2>2, <2>3, <2>4, JobFields, LenProperties DEF ScanQueue, TypeOK
<1>6. ASSUME NEW t \in Threads, RemoveAttempt(t) PROVE ApiTypes'
  <2> DEFINE attempt == Head(job[t].work)
  <2>1. attempt \in Completion
    BY <1>6, JobFields, TailIsRemoveAt DEF RemoveAttempt, HandlersFit
  <2>2. CASE Contains(processing, attempt)
    <3>1. RemoveFirst(processing, attempt) \in Seq(Completion)
      <4>1. processing \in Seq(Completion)
        BY DEF TypeOK
      <4>2. PICK i \in 1..Len(processing) : RemoveFirst(processing, attempt) = RemoveAt(processing, i)
        BY <2>2, <4>1, RemoveFirstIsRemoveAt
      <4> QED
        BY <4>1, <4>2, RemoveAtProperties
    <3>2. /\ <<attempt>> \in Seq(Completion) /\ Len(<<attempt>>) = 1 /\ <<attempt>> # <<>>
      BY <2>1
    <3>3. Goto(t, "file", <<attempt>>) /\ processing' = RemoveFirst(processing, attempt)
          /\ UNCHANGED <<registered, received, outcomes, serviceOne>> /\ overlapped' \in BOOLEAN
      BY <1>6, <2>2 DEF RemoveAttempt, ChangeQueue, TypeOK
    <3> HIDE DEF attempt
    <3>4. /\ job' \in [Threads -> Job] /\ job'[t].at = "file" /\ job'[t].work = <<attempt>>
          /\ \A u \in Threads \ {t} : job'[u] = job[u]
      BY <3>2, <3>3, GotoTyped DEF Place
    <3> QED
      BY <3>1, <3>2, <3>3, <3>4 DEF TypeOK, HandlersFit, outcomes, serviceOne
  <2>3. CASE ~Contains(processing, attempt)
    <3>1. Answer(t) /\ UNCHANGED <<registered, received, processing, overlapped, outcomes, serviceOne>>
      BY <1>6, <2>3 DEF RemoveAttempt
    <3>2. job' \in [Threads -> Job] /\ job'[t].at = "idle" /\ \A u \in Threads \ {t} : job'[u] = job[u]
      BY <3>1, AnswerTyped
    <3> QED
      BY <3>1, <3>2 DEF TypeOK, HandlersFit, outcomes, serviceOne
  <2> QED
    BY <2>2, <2>3
<1>7. ASSUME NEW t \in Threads, FileCanceled(t) PROVE ApiTypes'
  <2>1. canceled' \in Seq(Completion)
    BY <1>7, JobFields, ConcatProperties DEF FileCanceled, TypeOK
  <2> QED
    BY <1>7, <2>1, AnswerTyped DEF FileCanceled, TypeOK, HandlersFit, serviceOne
<1>8. ASSUME NEW t \in Threads, SnapshotQueue(t) PROVE ApiTypes'
  <2>1. /\ job' \in [Threads -> Job] /\ job'[t].at = "clear" /\ \A u \in Threads \ {t} : job'[u] = job[u]
    BY <1>8, GotoTyped DEF SnapshotQueue, TypeOK, Place
  <2> QED
    BY <1>8, <2>1 DEF SnapshotQueue, TypeOK, HandlersFit, outcomes, serviceOne
<1>9. ASSUME NEW t \in Threads, ClearQueue(t) PROVE ApiTypes'
  <2>1. /\ job' \in [Threads -> Job] /\ job'[t].at = "settle" /\ \A u \in Threads \ {t} : job'[u] = job[u]
    BY <1>9, JobFields, GotoTyped DEF ClearQueue, TypeOK, Place
  <2> QED
    BY <1>9, <1>e, <2>1 DEF ClearQueue, ChangeQueue, TypeOK, HandlersFit, outcomes, serviceOne
<1>10. ASSUME NEW t \in Threads, SettleTurn(t), NextTurn(t)
       PROVE  /\ Head(job[t].work) \in Completion /\ job' \in [Threads -> Job] /\ job'[t].at = "settle"
              /\ \A u \in Threads \ {t} : job'[u] = job[u]
  <2>1. Head(job[t].work) \in Completion /\ Tail(job[t].work) \in Seq(Completion)
    BY <1>10, JobFields, TailIsRemoveAt DEF SettleTurn
  <2> QED
    BY <1>10, <2>1, GotoTyped DEF NextTurn, Place
<1>11. ASSUME NEW t \in Threads, SkipAttempt(t) PROVE ApiTypes'
  <2>1. skipped' \in Seq(Completion)
    BY <1>10, <1>11, AppendProperties DEF SkipAttempt, TypeOK
  <2> QED
    BY <1>10, <1>11, <2>1 DEF SkipAttempt, TypeOK, HandlersFit, serviceOne
<1>12. ASSUME NEW t \in Threads, SettleAttempt(t) PROVE ApiTypes'
  <2>1. processed' \in Seq(Completion) /\ settled' \subseteq Keys
    BY <1>10, <1>12, AppendProperties DEF SettleAttempt, TypeOK
  <2> QED
    BY <1>10, <1>12, <2>1 DEF SettleAttempt, TypeOK, HandlersFit
<1>13. ASSUME NEW t \in Threads, SettleAttemptFails(t) PROVE ApiTypes'
  <2>1. failed' \in Seq(Completion) /\ settled' \subseteq Keys
    BY <1>10, <1>13, AppendProperties DEF SettleAttemptFails, TypeOK
  <2> QED
    BY <1>10, <1>13, <2>1 DEF SettleAttemptFails, TypeOK, HandlersFit
<1>14. ASSUME NEW t \in Threads, SweepDone(t) PROVE ApiTypes'
  BY <1>14, AnswerTyped DEF SweepDone, TypeOK, HandlersFit, outcomes, serviceOne
<1>15. ASSUME NEW t \in Threads, NEW k \in Keys, RefundPayment(t, k) PROVE ApiTypes'
  <2>1. refunded' \in Seq(Keys)
    BY <1>15, AppendProperties DEF RefundPayment, TypeOK
  <2> QED
    BY <1>15, <2>1 DEF RefundPayment, TypeOK, HandlersFit, serviceOne
<1>16. CASE UNCHANGED vars
  BY <1>16 DEF vars, TypeOK, HandlersFit, outcomes, serviceOne
<1> QED
  BY <1>1, <1>2, <1>3, <1>4, <1>5, <1>6, <1>7, <1>8, <1>9, <1>11, <1>12, <1>13, <1>14, <1>15, <1>16
     DEF Next, Continue

\* The six lists and maps of payments-api keep their types, and only payments it
\* knows are filed as refunded, whichever threads the pool preempts where.
THEOREM ApiTypeCorrect == Spec => []TypeOK
<1>1. ApiTypes => TypeOK
  BY DEF ApiTypes
<1> QED
  BY ApiTypesInitial, ApiTypesStep, <1>1, PTL DEF Spec

-----------------------------------------------------------------------------
(* Moves between shelves, of any contents c before and d after. *)

\* The completion at i of g goes to the end of h.  CameFrom is the place that the one at n of shelf f was at before.
CameFrom(c, g, h, i, f, n) ==
  IF f = g THEN <<g, IF n < i THEN n ELSE n + 1>>
  ELSE IF f = h /\ n = Len(c[h]) + 1 THEN <<g, i>>
  ELSE <<f, n>>

Moved(c, d, g, h, i) ==
  /\ c \in [Shelf -> Seq(Completion)] /\ d \in [Shelf -> Seq(Completion)]
  /\ g \in Shelf /\ h \in Shelf /\ g # h /\ i \in 1..Len(c[g])
  /\ d[g] = RemoveAt(c[g], i) /\ d[h] = Append(c[h], c[g][i])
  /\ \A f \in Shelf \ {g, h} : d[f] = c[f]

LEMMA DistinctSays ==
  ASSUME NEW c, NEW S, Distinct(c, S), NEW g \in S, NEW h \in S,
         NEW m \in DOMAIN c[g], NEW n \in DOMAIN c[h], c[g][m].no = c[h][n].no
  PROVE  g = h /\ m = n
BY DEF Distinct

LEMMA MoveOne ==
  ASSUME NEW c, NEW d, NEW g, NEW h, NEW i, Moved(c, d, g, h, i)
  PROVE  /\ \A S \in SUBSET Shelf : (h \in S => g \in S) /\ Distinct(c, S) => Distinct(d, S)
         /\ \A no : Somewhere(c, no) => Somewhere(d, no)
         /\ \A f \in Shelf : \A n \in DOMAIN d[f] :
              \E e \in Shelf : \E m \in DOMAIN c[e] : d[f][n] = c[e][m]
<1> USE DEF Moved
<1>1. \A f \in Shelf : /\ Len(c[f]) \in Nat /\ DOMAIN c[f] = 1..Len(c[f])
                       /\ Len(d[f]) \in Nat /\ DOMAIN d[f] = 1..Len(d[f])
                       /\ c[f] \in Seq(Completion)
  <2> TAKE f \in Shelf
  <2>1. c[f] \in Seq(Completion) /\ d[f] \in Seq(Completion)
    OBVIOUS
  <2> QED
    BY <2>1, LenProperties
<1>2. /\ Len(d[g]) = Len(c[g]) - 1
      /\ \A n \in 1..Len(c[g]) - 1 : d[g][n] = IF n < i THEN c[g][n] ELSE c[g][n + 1]
  BY <1>1, RemoveAtProperties
<1>3. c[g][i] \in Completion
  BY <1>1, ElementOfSeq
<1>4. /\ Len(d[h]) = Len(c[h]) + 1
      /\ \A n \in 1..Len(c[h]) : d[h][n] = c[h][n]
      /\ d[h][Len(c[h]) + 1] = c[g][i]
  BY <1>1, <1>3, AppendProperties
<1> DEFINE From(f, n) == CameFrom(c, g, h, i, f, n)
<1>5. ASSUME NEW f \in Shelf, NEW n \in 1..Len(d[f])
      PROVE  /\ From(f, n)[1] \in Shelf /\ From(f, n)[2] \in 1..Len(c[From(f, n)[1]])
             /\ d[f][n] = c[From(f, n)[1]][From(f, n)[2]]
             /\ From(f, n)[1] = f \/ (f = h /\ From(f, n)[1] = g)
  <2>1. CASE f = g
    BY <1>1, <1>2, <2>1 DEF CameFrom
  <2>2. CASE f = h /\ n = Len(c[h]) + 1
    BY <1>1, <1>4, <2>2 DEF CameFrom
  <2>3. CASE f = h /\ n # Len(c[h]) + 1
    <3>1. From(f, n) = <<h, n>> /\ n \in 1..Len(c[h])
      BY <1>1, <1>4, <2>3 DEF CameFrom
    <3>2. d[h][n] = c[h][n]
      BY <1>4, <3>1
    <3>3. From(f, n)[1] = h /\ From(f, n)[2] = n
      BY <3>1
    <3> HIDE DEF From
    <3> QED
      BY <2>3, <3>1, <3>2, <3>3
  <2>4. CASE f \notin {g, h}
    BY <1>1, <2>4 DEF CameFrom
  <2> QED
    BY <2>1, <2>2, <2>3, <2>4
<1>6. ASSUME NEW f \in Shelf, NEW n \in 1..Len(d[f]), NEW e \in Shelf, NEW m \in 1..Len(d[e]),
             From(f, n) = From(e, m)
      PROVE  f = e /\ n = m
  BY <1>1, <1>2, <1>4, <1>6 DEF CameFrom
<1>7. ASSUME NEW f \in Shelf, NEW n \in 1..Len(c[f])
      PROVE  \E e \in Shelf : \E m \in 1..Len(d[e]) : d[e][m] = c[f][n]
  <2>1. CASE f = g /\ n = i
    BY <1>1, <1>4, <2>1
  <2>2. CASE f = g /\ n # i
    <3> DEFINE m == IF n < i THEN n ELSE n - 1
    <3>1. m \in 1..Len(d[g]) /\ d[g][m] = c[g][n]
      BY <1>1, <1>2, <2>2
    <3> QED
      BY <2>2, <3>1
  <2>3. CASE f = h
    <3>1. n \in 1..Len(d[h]) /\ d[h][n] = c[h][n]
      BY <1>1, <1>4, <2>3
    <3> QED
      BY <2>3, <3>1
  <2>4. CASE f \notin {g, h}
    BY <2>4
  <2> QED
    BY <2>1, <2>2, <2>3, <2>4
<1> HIDE DEF From
<1>8. ASSUME NEW S \in SUBSET Shelf, h \in S => g \in S, Distinct(c, S)
      PROVE  Distinct(d, S)
  <2> SUFFICES ASSUME NEW f \in S, NEW e \in S, NEW n \in DOMAIN d[f], NEW m \in DOMAIN d[e],
                      d[f][n].no = d[e][m].no
               PROVE  f = e /\ n = m
    BY DEF Distinct
  <2>1. n \in 1..Len(d[f]) /\ m \in 1..Len(d[e])
    BY <1>1
  <2>2. f \in Shelf /\ e \in Shelf
    OBVIOUS
  <2> DEFINE fg == From(f, n)[1]  fi == From(f, n)[2]  eg == From(e, m)[1]  ei == From(e, m)[2]
  <2>3. /\ fg \in Shelf /\ fi \in 1..Len(c[fg]) /\ d[f][n] = c[fg][fi] /\ (fg = f \/ (f = h /\ fg = g))
        /\ eg \in Shelf /\ ei \in 1..Len(c[eg]) /\ d[e][m] = c[eg][ei] /\ (eg = e \/ (e = h /\ eg = g))
    BY <1>5, <2>1, <2>2
  <2>4. From(f, n) = <<fg, fi>> /\ From(e, m) = <<eg, ei>>
    BY DEF From, CameFrom
  <2> HIDE DEF fg, fi, eg, ei
  <2>6. fg \in S /\ eg \in S /\ fi \in DOMAIN c[fg] /\ ei \in DOMAIN c[eg]
    BY <1>1, <1>8, <2>3
  <2>7. fg = eg /\ fi = ei
    BY <1>8, <2>3, <2>6, DistinctSays
  <2>5. From(f, n) = From(e, m)
    BY <2>4, <2>7
  <2> QED
    BY <1>6, <2>1, <2>2, <2>5
<1>9. ASSUME NEW no, Somewhere(c, no) PROVE Somewhere(d, no)
  <2>1. PICK f \in Shelf : \E n \in 1..Len(c[f]) : c[f][n].no = no
    BY <1>1, <1>9 DEF Somewhere
  <2>2. PICK n \in 1..Len(c[f]) : c[f][n].no = no
    BY <2>1
  <2>3. \E e \in Shelf : \E m \in 1..Len(d[e]) : d[e][m] = c[f][n]
    BY <1>7
  <2> QED
    BY <1>1, <2>2, <2>3 DEF Somewhere
<1>10. ASSUME NEW f \in Shelf, NEW n \in DOMAIN d[f]
       PROVE  \E e \in Shelf : \E m \in DOMAIN c[e] : d[f][n] = c[e][m]
  <2> DEFINE e == From(f, n)[1]
  <2>1. e \in Shelf /\ From(f, n)[2] \in DOMAIN c[e] /\ d[f][n] = c[e][From(f, n)[2]]
    BY <1>1, <1>5, <1>10
  <2> HIDE DEF e
  <2> QED
    BY <2>1
<1> QED
  BY <1>8, <1>9, <1>10

\* All of g goes to h, which was empty.
Emptied(c, d, g, h) ==
  /\ c \in [Shelf -> Seq(Completion)] /\ d \in [Shelf -> Seq(Completion)]
  /\ g \in Shelf /\ h \in Shelf /\ g # h /\ c[h] = <<>> /\ d[g] = <<>> /\ d[h] = c[g]
  /\ \A f \in Shelf \ {g, h} : d[f] = c[f]

LEMMA MoveAll ==
  ASSUME NEW c, NEW d, NEW g, NEW h, Emptied(c, d, g, h)
  PROVE  /\ Distinct(c, Shelf) => Distinct(d, Shelf)
         /\ \A no : Somewhere(c, no) => Somewhere(d, no)
<1> USE DEF Emptied
<1>1. ASSUME Distinct(c, Shelf) PROVE Distinct(d, Shelf)
  <2> DEFINE Was(f) == IF f = h THEN g ELSE f
  <2>1. \A f \in Shelf : DOMAIN d[f] # {} => Was(f) \in Shelf /\ d[f] = c[Was(f)]
    OBVIOUS
  <2>2. \A e, f \in Shelf : DOMAIN d[e] # {} /\ DOMAIN d[f] # {} /\ Was(e) = Was(f) => e = f
    OBVIOUS
  <2> HIDE DEF Was
  <2> SUFFICES ASSUME NEW f \in Shelf, NEW e \in Shelf, NEW n \in DOMAIN d[f], NEW m \in DOMAIN d[e],
                      d[f][n].no = d[e][m].no
               PROVE  f = e /\ n = m
    BY DEF Distinct
  <2>3. Was(f) \in Shelf /\ Was(e) \in Shelf /\ d[f] = c[Was(f)] /\ d[e] = c[Was(e)]
    BY <2>1
  <2>4. Was(f) = Was(e) /\ n = m
    BY <1>1, <2>3, DistinctSays
  <2> QED
    BY <2>2, <2>4
<1>2. ASSUME NEW no, Somewhere(c, no) PROVE Somewhere(d, no)
  <2>1. PICK f \in Shelf : \E n \in DOMAIN c[f] : c[f][n].no = no
    BY <1>2 DEF Somewhere
  <2>2. f # h
    BY <2>1
  <2> QED
    BY <2>1, <2>2 DEF Somewhere
<1> QED
  BY <1>1, <1>2

\* A completion with a number that is nowhere comes to the end of h.
Arrived(c, d, h, a) ==
  /\ c \in [Shelf -> Seq(Completion)] /\ d \in [Shelf -> Seq(Completion)]
  /\ h \in Shelf /\ a \in Completion /\ d[h] = Append(c[h], a) /\ ~Somewhere(c, a.no)
  /\ \A f \in Shelf \ {h} : d[f] = c[f]

LEMMA Arrives ==
  ASSUME NEW c, NEW d, NEW h, NEW a, Arrived(c, d, h, a)
  PROVE  /\ \A S \in SUBSET Shelf : Distinct(c, S) => Distinct(d, S)
         /\ \A no : Somewhere(d, no) <=> Somewhere(c, no) \/ no = a.no
<1> USE DEF Arrived
<1>1. c[h] \in Seq(Completion) /\ Len(c[h]) \in Nat /\ DOMAIN c[h] = 1..Len(c[h])
      /\ DOMAIN d[h] = 1..Len(c[h]) + 1
      /\ \A n \in 1..Len(c[h]) : d[h][n] = c[h][n]
      /\ d[h][Len(c[h]) + 1] = a
  <2>1. c[h] \in Seq(Completion) /\ d[h] \in Seq(Completion)
    OBVIOUS
  <2> QED
    BY <2>1, AppendProperties, LenProperties
<1>2. ASSUME NEW f \in Shelf, NEW n \in DOMAIN d[f], ~(f = h /\ n = Len(c[h]) + 1)
      PROVE  n \in DOMAIN c[f] /\ d[f][n] = c[f][n] /\ d[f][n].no # a.no
  BY <1>1, <1>2 DEF Somewhere
<1>3. ASSUME NEW S \in SUBSET Shelf, Distinct(c, S) PROVE Distinct(d, S)
  BY <1>1, <1>2, <1>3 DEF Distinct
<1>4. ASSUME NEW no, Somewhere(d, no) PROVE Somewhere(c, no) \/ no = a.no
  <2>1. PICK f \in Shelf : \E n \in DOMAIN d[f] : d[f][n].no = no
    BY <1>4 DEF Somewhere
  <2>2. PICK n \in DOMAIN d[f] : d[f][n].no = no
    BY <2>1
  <2> QED
    BY <1>1, <1>2, <2>2 DEF Somewhere
<1>5. ASSUME NEW no, Somewhere(c, no) PROVE Somewhere(d, no)
  <2>1. PICK f \in Shelf : \E n \in DOMAIN c[f] : c[f][n].no = no
    BY <1>5 DEF Somewhere
  <2>2. PICK n \in DOMAIN c[f] : c[f][n].no = no
    BY <2>1
  <2>3. n \in DOMAIN d[f] /\ d[f][n] = c[f][n]
    <3>1. CASE f = h
      BY <1>1, <2>2, <3>1
    <3>2. CASE f # h
      BY <2>2, <3>2
    <3> QED
      BY <3>1, <3>2
  <2> QED
    BY <2>2, <2>3 DEF Somewhere
<1>6. Somewhere(d, a.no)
  <2>1. Len(c[h]) + 1 \in DOMAIN d[h]
    BY <1>1
  <2> QED
    BY <1>1, <2>1 DEF Somewhere
<1> QED
  BY <1>3, <1>4, <1>5, <1>6

-----------------------------------------------------------------------------
(* Where the completions are. *)

Contents ==
  [h \in Shelf |->
    CASE h[1] = "queue" -> processing
      [] h[1] = "canceled" -> canceled
      [] h[1] = "processed" -> processed
      [] h[1] = "failed" -> failed
      [] h[1] = "skipped" -> skipped
      [] OTHER -> IF job[h[2]].at = h[1] THEN job[h[2]].work ELSE <<>>]

Queue == <<"queue", None>>
Filed(o) == <<o, None>>
Hand(place, t) == <<place, t>>

\* What a cancellation has in hand or has filed is no longer queued, even when
\* queue and sweep overlap: the removal itself says who has it.
Canceling == {Queue, Filed("canceled")} \union {Hand("file", t) : t \in Threads}

\* While no handler has changed the queue between a sweep's snapshot and its
\* clear, the snapshot is the queue, so that clearing moves it.
OncePlaced ==
  /\ \A t \in Threads : job[t].at = "clear" => job[t].work = processing
  /\ Distinct(Contents, Shelf)
  /\ \A no \in 1..received : Somewhere(Contents, no)

ApiInv ==
  /\ ApiTypes
  /\ \A t \in Threads : \A n \in DOMAIN job[t].work : job[t].work[n].no <= received
  /\ \A h \in Shelf : \A n \in DOMAIN Contents[h] : Contents[h][n].no <= received
  /\ Distinct(Contents, Canceling)
  /\ ~overlapped => OncePlaced
  /\ \A n \in DOMAIN processed : processed[n].token \in settled

LEMMA ShelfCases ==
  /\ Queue \in Shelf
  /\ \A o \in Outcome : Filed(o) \in Shelf /\ Filed(o) # Queue
  /\ \A o, p \in Outcome : Filed(o) = Filed(p) => o = p
  /\ \A place \in {"file", "settle"} : \A t \in Threads :
       /\ Hand(place, t) \in Shelf /\ Hand(place, t) # Queue
       /\ \A o \in Outcome : Hand(place, t) # Filed(o)
  /\ \A p, q \in {"file", "settle"} : \A t, u \in Threads : Hand(p, t) = Hand(q, u) => p = q /\ t = u
  /\ \A h \in Shelf : \/ h = Queue
                      \/ \E o \in Outcome : h = Filed(o)
                      \/ \E place \in {"file", "settle"} : \E t \in Threads : h = Hand(place, t)
  /\ Canceling \subseteq Shelf
BY DEF Shelf, Outcome, Queue, Filed, Hand, Canceling

ContentsFacts ==
  /\ Contents[Queue] = processing
  /\ Contents[Filed("canceled")] = canceled /\ Contents[Filed("processed")] = processed
  /\ Contents[Filed("failed")] = failed /\ Contents[Filed("skipped")] = skipped
  /\ \A place \in {"file", "settle"} : \A t \in Threads :
       Contents[Hand(place, t)] = IF job[t].at = place THEN job[t].work ELSE <<>>

LEMMA ContentsAre == ContentsFacts
<1>1. Queue[1] = "queue" /\ \A o \in Outcome : Filed(o)[1] = o
  BY DEF Queue, Filed, Outcome
<1>2. \A place \in {"file", "settle"} : \A t \in Threads : Hand(place, t)[1] = place /\ Hand(place, t)[2] = t
  BY DEF Hand
<1>3. Contents[Queue] = processing
  BY <1>1, ShelfCases DEF Contents
<1>4. /\ Contents[Filed("canceled")] = canceled /\ Contents[Filed("processed")] = processed
      /\ Contents[Filed("failed")] = failed /\ Contents[Filed("skipped")] = skipped
  BY <1>1, ShelfCases DEF Contents, Outcome
<1>5. ASSUME NEW place \in {"file", "settle"}, NEW t \in Threads
      PROVE  Contents[Hand(place, t)] = IF job[t].at = place THEN job[t].work ELSE <<>>
  BY <1>2, ShelfCases DEF Contents
<1> QED
  BY <1>3, <1>4, <1>5 DEF ContentsFacts

LEMMA ContentsTyped ==
  ASSUME ApiTypes
  PROVE  Contents \in [Shelf -> Seq(Completion)]
<1>1. DOMAIN Contents = Shelf /\ Contents = [h \in Shelf |-> Contents[h]]
  BY DEF Contents
<1>2. <<>> \in Seq(Completion)
  BY EmptySeq
<1>3. ASSUME NEW h \in Shelf PROVE Contents[h] \in Seq(Completion)
  <2>1. CASE h = Queue
    BY <2>1, ContentsAre DEF ContentsFacts, ApiTypes, TypeOK
  <2>2. CASE \E o \in Outcome : h = Filed(o)
    BY <2>2, ContentsAre DEF ContentsFacts, ApiTypes, TypeOK, Outcome
  <2>3. CASE \E place \in {"file", "settle"} : \E t \in Threads : h = Hand(place, t)
    BY <1>2, <2>3, ContentsAre, JobFields DEF ContentsFacts, ApiTypes
  <2> QED
    BY <2>1, <2>2, <2>3, ShelfCases
<1> QED
  BY <1>1, <1>3

LEMMA ApiInitial == Init => ApiInv
<1> SUFFICES ASSUME Init PROVE ApiInv
  OBVIOUS
<1>1. ApiTypes
  BY ApiTypesInitial
<1>2. \A t \in Threads : job[t].work = <<>> /\ job[t].at = "idle"
  BY DEF Init, IdleJob
<1>3. \A h \in Shelf : Contents[h] = <<>>
  <2> TAKE h \in Shelf
  <2>1. CASE h = Queue
    BY <2>1, ContentsAre DEF ContentsFacts, Init
  <2>2. CASE \E o \in Outcome : h = Filed(o)
    BY <2>2, ContentsAre DEF ContentsFacts, Init, Outcome
  <2>3. CASE \E place \in {"file", "settle"} : \E t \in Threads : h = Hand(place, t)
    BY <1>2, <2>3, ContentsAre DEF ContentsFacts
  <2> QED
    BY <2>1, <2>2, <2>3, ShelfCases
<1>4. \A S \in SUBSET Shelf : Distinct(Contents, S)
  BY <1>3 DEF Distinct
<1> QED
  BY <1>1, <1>2, <1>3, <1>4, ShelfCases DEF ApiInv, OncePlaced, Init

LEMMA ContentsAfter ==
  ASSUME ApiTypes'
  PROVE  ContentsFacts' /\ Contents' \in [Shelf -> Seq(Completion)]
<1>1. ContentsFacts'
  BY ContentsAre, PTL
<1>2. (ApiTypes => Contents \in [Shelf -> Seq(Completion)])'
  BY ContentsTyped, PTL
<1> QED
  BY <1>1, <1>2

\* What the shelves hold, from what the variables do.
LEMMA Kept ==
  ASSUME ApiTypes, ApiTypes'
  PROVE  \A h \in Shelf :
           \/ h = Queue /\ processing' # processing
           \/ h = Filed("canceled") /\ canceled' # canceled
           \/ h = Filed("processed") /\ processed' # processed
           \/ h = Filed("failed") /\ failed' # failed
           \/ h = Filed("skipped") /\ skipped' # skipped
           \/ \E place \in {"file", "settle"} : \E t \in Threads : h = Hand(place, t) /\ job'[t] # job[t]
           \/ Contents'[h] = Contents[h]
<1> TAKE h \in Shelf
<1>1. ContentsFacts /\ ContentsFacts'
  BY ContentsAre, ContentsAfter
<1>2. CASE h = Queue
  BY <1>1, <1>2 DEF ContentsFacts
<1>3. CASE \E o \in Outcome : h = Filed(o)
  BY <1>1, <1>3 DEF ContentsFacts, Outcome
<1>4. CASE \E place \in {"file", "settle"} : \E t \in Threads : h = Hand(place, t)
  BY <1>1, <1>4 DEF ContentsFacts
<1> QED
  BY <1>2, <1>3, <1>4, ShelfCases

\* What is left to say of a step that moves completions or leaves them.
Bounds == \A t \in Threads : \A n \in DOMAIN job[t].work : job[t].work[n].no <= received
Snapshots == ~overlapped => \A t \in Threads : job[t].at = "clear" => job[t].work = processing
Settlements == \A n \in DOMAIN processed : processed[n].token \in settled

LEMMA StepStays ==
  ASSUME ApiInv, ApiTypes', Contents' = Contents, received' = received, overlapped' = overlapped,
         Bounds', Snapshots', Settlements'
  PROVE  ApiInv'
BY DEF ApiInv, OncePlaced, Bounds, Snapshots, Settlements

Shifted(g, h, i) ==
  /\ g \in Shelf /\ h \in Shelf /\ g # h /\ (h \in Canceling => g \in Canceling)
  /\ i \in 1..Len(Contents[g])
  /\ Contents'[g] = RemoveAt(Contents[g], i)
  /\ Contents'[h] = Append(Contents[h], Contents[g][i])
  /\ \A f \in Shelf \ {g, h} : Contents'[f] = Contents[f]

LEMMA StepMoves ==
  ASSUME ApiInv, ApiTypes', NEW g, NEW h, NEW i, Shifted(g, h, i),
         received' = received, overlapped => overlapped', Bounds', Snapshots', Settlements'
  PROVE  ApiInv'
<1> USE DEF Shifted
<1>1. Contents \in [Shelf -> Seq(Completion)] /\ Contents' \in [Shelf -> Seq(Completion)]
  BY ContentsTyped, ContentsAfter DEF ApiInv
<1>2. PICK c \in [Shelf -> Seq(Completion)], d \in [Shelf -> Seq(Completion)] : c = Contents /\ d = Contents'
  BY <1>1
<1>3. Moved(c, d, g, h, i)
  BY <1>2 DEF Moved
<1>4. /\ \A S \in SUBSET Shelf : (h \in S => g \in S) /\ Distinct(c, S) => Distinct(d, S)
      /\ \A no : Somewhere(c, no) => Somewhere(d, no)
      /\ \A f \in Shelf : \A n \in DOMAIN d[f] : \E e \in Shelf : \E m \in DOMAIN c[e] : d[f][n] = c[e][m]
  BY <1>3, MoveOne
<1>5. Distinct(Contents, Canceling)' /\ (Distinct(Contents, Shelf) => Distinct(Contents, Shelf)')
  <2>1. \A S \in SUBSET Shelf : Distinct(Contents, S)' <=> Distinct(d, S)
    BY <1>2 DEF Distinct
  <2> QED
    BY <1>2, <1>4, <2>1, ShelfCases DEF ApiInv
<1>6. \A no : Somewhere(Contents, no) => Somewhere(Contents, no)'
  BY <1>2, <1>4 DEF Somewhere
<1>7. \A f \in Shelf : \A n \in DOMAIN Contents'[f] : Contents'[f][n].no <= received'
  BY <1>2, <1>4 DEF ApiInv
<1> QED
  BY <1>5, <1>6, <1>7 DEF ApiInv, OncePlaced, Bounds, Snapshots, Settlements

LEMMA ApiStep == ApiInv /\ [Next]_vars => ApiInv'
<1> SUFFICES ASSUME ApiInv, [Next]_vars PROVE ApiInv'
  OBVIOUS
<1>t. ApiTypes /\ ApiTypes'
  BY ApiTypesStep DEF ApiInv
<1>c. ContentsFacts /\ ContentsFacts'
  BY <1>t, ContentsAre, ContentsAfter
<1>b. Bounds /\ Snapshots /\ Settlements
  BY DEF ApiInv, OncePlaced, Bounds, Snapshots, Settlements
<1>d. \A list \in {processing, canceled, processed, failed, skipped} : list \in Seq(Completion)
  BY <1>t DEF ApiTypes, TypeOK
\* A step that changes neither a list nor a hand.
<1>q. ASSUME UNCHANGED <<processing, canceled, processed, failed, skipped, received, overlapped>>,
             settled \subseteq settled',
             \A u \in Threads : \/ job'[u] = job[u]
                                \/ /\ job[u].at \notin {"settle", "file"} \/ job[u].work = <<>>
                                   /\ job'[u].at \notin {"settle", "file"}
                                   /\ job'[u].at = "clear" => job'[u].work = processing
                                   /\ \A n \in DOMAIN job'[u].work : job'[u].work[n].no <= received
      PROVE  ApiInv'
  <2>1. ASSUME NEW place \in {"file", "settle"}, NEW u \in Threads
        PROVE  Contents'[Hand(place, u)] = Contents[Hand(place, u)]
    BY <1>c, <1>q DEF ContentsFacts
  <2>2. \A h \in Shelf : Contents'[h] = Contents[h]
    BY <1>t, <1>q, <2>1, Kept
  <2>3. Contents' = Contents
    BY <1>t, <2>2, ContentsTyped, ContentsAfter
  <2>4. Bounds' /\ Snapshots'
    BY <1>q, <1>b DEF Bounds, Snapshots
  <2>5. Settlements'
    BY <1>q, <1>b DEF Settlements
  <2> QED
    BY <1>q, <1>t, <2>3, <2>4, <2>5, StepStays
<1>1. ASSUME NEW k \in Keys, CreatePayment(k) PROVE ApiInv'
  BY <1>1, <1>q DEF CreatePayment, outcomes, serviceOne
<1>2. ASSUME NEW t \in Threads, NEW token \in registered \union {None}, QueueCompletion(t, token)
      PROVE  ApiInv'
  <2> DEFINE attempt == [no |-> received + 1, token |-> token]
  <2>1. attempt \in Completion /\ attempt.no = received + 1 /\ received' = received + 1 /\ received \in Nat
    BY <1>2, <1>t, ApiAssumption DEF QueueCompletion, ApiTypes, TypeOK, Completion
  <2>2. /\ processing' = Append(processing, attempt) /\ Goto(t, "notify", <<attempt>>)
        /\ UNCHANGED <<registered, outcomes, serviceOne>> /\ job[t].at = "idle"
        /\ overlapped' = (overlapped \/ \E u \in Threads \ {t} : job[u].at = "clear")
    BY <1>2 DEF QueueCompletion, ChangeQueue
  <2>3. <<attempt>> \in Seq(Completion) /\ DOMAIN <<attempt>> = {1} /\ <<attempt>>[1] = attempt
    BY <2>1
  <2> HIDE DEF attempt
  <2>4. job'[t].at = "notify" /\ job'[t].work = <<attempt>> /\ \A u \in Threads \ {t} : job'[u] = job[u]
    BY <1>t, <2>2, <2>3, GotoTyped DEF Place
  <2>5. /\ Contents \in [Shelf -> Seq(Completion)] /\ Contents' \in [Shelf -> Seq(Completion)]
        /\ Contents'[Queue] = Append(Contents[Queue], attempt)
    BY <1>t, <1>c, <2>2, ContentsTyped, ContentsAfter DEF ContentsFacts
  <2>6. \A h \in Shelf \ {Queue} : Contents'[h] = Contents[h]
    <3>1. \A place \in {"file", "settle"} : \A u \in Threads : Contents'[Hand(place, u)] = Contents[Hand(place, u)]
      BY <1>c, <2>2, <2>4 DEF ContentsFacts
    <3> QED
      BY <1>t, <2>2, <3>1, Kept DEF outcomes
  <2>7. ~Somewhere(Contents, attempt.no)
    <3> SUFFICES ASSUME NEW h \in Shelf, NEW n \in DOMAIN Contents[h], Contents[h][n].no = attempt.no PROVE FALSE
      BY DEF Somewhere
    <3> QED
      BY <2>1 DEF ApiInv
  <2>8. /\ \A S \in SUBSET Shelf : Distinct(Contents, S) => Distinct(Contents, S)'
        /\ \A no : Somewhere(Contents, no)' <=> Somewhere(Contents, no) \/ no = attempt.no
    <3>1. PICK c \in [Shelf -> Seq(Completion)], d \in [Shelf -> Seq(Completion)] : c = Contents /\ d = Contents'
      BY <2>5
    <3>2. Arrived(c, d, Queue, attempt)
      BY <2>1, <2>5, <2>6, <2>7, <3>1, ShelfCases DEF Arrived
    <3>3. /\ \A S \in SUBSET Shelf : Distinct(c, S) => Distinct(d, S)
          /\ \A no : Somewhere(d, no) <=> Somewhere(c, no) \/ no = attempt.no
      BY <3>2, Arrives
    <3>4. /\ \A S \in SUBSET Shelf : Distinct(Contents, S)' <=> Distinct(d, S)
          /\ \A no : Somewhere(Contents, no)' <=> Somewhere(d, no)
      BY <3>1 DEF Distinct, Somewhere
    <3> QED
      BY <3>1, <3>3, <3>4
  <2>9. Bounds'
    <3> SUFFICES ASSUME NEW u \in Threads, NEW n \in DOMAIN job'[u].work PROVE job'[u].work[n].no <= received'
      BY DEF Bounds
    <3>1. CASE u = t
      BY <2>1, <2>3, <2>4, <3>1
    <3>2. CASE u # t
      <4>1. job'[u].work[n] \in Completion /\ job'[u].work[n].no <= received
        BY <1>t, <1>b, <2>4, <3>2, JobFields, ElementOfSeq, LenProperties DEF ApiTypes, Bounds
      <4> QED
        BY <2>1, <4>1 DEF Completion
    <3> QED
      BY <3>1, <3>2
  <2>10. Settlements'
    BY <1>b, <2>2 DEF Settlements, outcomes, serviceOne
  <2>11. \A h \in Shelf : \A n \in DOMAIN Contents'[h] : Contents'[h][n].no <= received'
    <3> SUFFICES ASSUME NEW h \in Shelf, NEW n \in DOMAIN Contents'[h] PROVE Contents'[h][n].no <= received'
      OBVIOUS
    <3>1. Contents'[h] \in Seq(Completion) /\ Contents'[h][n] \in Completion
      BY <2>5, ElementOfSeq, LenProperties
    <3>2. Somewhere(Contents, Contents'[h][n].no) \/ Contents'[h][n].no = attempt.no
      BY <2>8 DEF Somewhere
    <3> QED
      BY <2>1, <3>1, <3>2 DEF Somewhere, ApiInv, Completion
  <2>12. ~overlapped' => OncePlaced'
    <3> SUFFICES ASSUME ~overlapped' PROVE OncePlaced'
      OBVIOUS
    <3>1. OncePlaced /\ \A u \in Threads : job'[u].at # "clear"
      BY <2>2, <2>4 DEF ApiInv
    <3>2. \A no \in 1..received' : no \in 1..received \/ no = attempt.no
      BY <2>1
    <3> QED
      BY <2>8, <3>1, <3>2 DEF OncePlaced
  <2> QED
    BY <1>t, <2>8, <2>9, <2>10, <2>11, <2>12, ShelfCases DEF ApiInv, Bounds, Settlements
<1>a. ASSUME NEW t \in Threads, Answer(t)
      PROVE  /\ job'[t].at = "idle" /\ DOMAIN job'[t].work = {} /\ \A u \in Threads \ {t} : job'[u] = job[u]
  BY <1>t, <1>a, AnswerTyped
<1>3. ASSUME NEW t \in Threads, NotifyWebhook(t) PROVE ApiInv'
  <2>1. /\ Answer(t) /\ job[t].at = "notify" /\ UNCHANGED <<received, processing, overlapped, outcomes, settled>>
    BY <1>3 DEF NotifyWebhook
  <2> QED
    BY <1>a, <1>q, <2>1 DEF outcomes
<1>4. ASSUME NEW t \in Threads, NEW k \in Keys, StartCancel(t, k) PROVE ApiInv'
  <2>1. /\ job' = [job EXCEPT ![t] = [IdleJob EXCEPT !.at = "scan", !.key = k, !.i = 1]]
        /\ job[t].at = "idle" /\ UNCHANGED <<received, processing, overlapped, outcomes, serviceOne>>
    BY <1>4 DEF StartCancel
  <2>2. job'[t].at = "scan" /\ job'[t].work = <<>> /\ \A u \in Threads \ {t} : job'[u] = job[u]
    BY <1>t, <2>1 DEF ApiTypes, TypeOK, IdleJob
  <2> QED
    BY <1>q, <2>1, <2>2 DEF outcomes, serviceOne
<1>5. ASSUME NEW t \in Threads, ScanQueue(t) PROVE ApiInv'
  <2>1. job[t].at = "scan" /\ UNCHANGED <<received, processing, overlapped, outcomes, serviceOne>>
    BY <1>5 DEF ScanQueue
  <2>2. CASE Answer(t)
    BY <1>a, <1>q, <2>1, <2>2 DEF outcomes, serviceOne
  <2>3. CASE job' = [job EXCEPT ![t].i = @ + 1]
    <3>1. job[t] \in Job
      BY <1>t, JobFields DEF ApiTypes
    <3>2. job'[t].at = job[t].at /\ job'[t].work = job[t].work /\ \A u \in Threads \ {t} : job'[u] = job[u]
      <4> DEFINE next == [job[t] EXCEPT !.i = job[t].i + 1]
      <4>1. next.at = job[t].at /\ next.work = job[t].work
        BY <3>1 DEF Job
      <4>2. job' = [job EXCEPT ![t] = next]
        BY <2>3
      <4> HIDE DEF next
      <4> QED
        BY <1>t, <4>1, <4>2 DEF ApiTypes, TypeOK
    <3>3. \A n \in DOMAIN job'[t].work : job'[t].work[n].no <= received
      BY <1>b, <3>2 DEF Bounds
    <3> QED
      BY <1>q, <2>1, <3>2, <3>3 DEF outcomes, serviceOne
  <2>4. CASE job[t].i <= Len(processing) /\ Goto(t, "remove", <<processing[job[t].i]>>)
    <3>1. job[t].i \in 1..Len(processing)
      BY <1>t, <2>1, <2>4, JobFields DEF HandlersFit, ApiTypes
    <3>2. processing[job[t].i] \in Completion /\ processing[job[t].i].no <= received
      BY <1>c, <1>d, <3>1, ElementOfSeq, LenProperties, ShelfCases DEF ApiInv, ContentsFacts
    <3> DEFINE work == <<processing[job[t].i]>>
    <3>3. work \in Seq(Completion) /\ \A n \in DOMAIN work : work[n].no <= received
      BY <3>2
    <3>4. Goto(t, "remove", work)
      BY <2>4
    <3> HIDE DEF work
    <3>5. job'[t].at = "remove" /\ job'[t].work = work /\ \A u \in Threads \ {t} : job'[u] = job[u]
      BY <1>t, <3>3, <3>4, GotoTyped DEF Place
    <3> QED
      BY <1>q, <2>1, <3>3, <3>5 DEF outcomes, serviceOne
  <2> QED
    BY <1>5, <1>t, <1>d, <2>2, <2>3, <2>4, JobFields, LenProperties DEF ScanQueue, ApiTypes
<1>6. ASSUME NEW t \in Threads, RemoveAttempt(t) PROVE ApiInv'
  <2> DEFINE attempt == Head(job[t].work)
  <2>1. /\ job[t].work # <<>> /\ job[t].work \in Seq(Completion) /\ job[t].at = "remove"
        /\ attempt \in Completion /\ attempt = job[t].work[1] /\ 1 \in DOMAIN job[t].work
    BY <1>6, <1>t, JobFields, TailIsRemoveAt, LenProperties DEF RemoveAttempt, HandlersFit, ApiTypes
  <2>2. CASE Contains(processing, attempt)
    <3>1. PICK i \in 1..Len(processing) : processing[i] = attempt /\ RemoveFirst(processing, attempt) = RemoveAt(processing, i)
      BY <1>d, <2>2, RemoveFirstIsRemoveAt
    <3>2. /\ Goto(t, "file", <<attempt>>) /\ processing' = RemoveAt(processing, i)
          /\ UNCHANGED <<registered, received, outcomes, serviceOne>>
          /\ overlapped' = (overlapped \/ \E u \in Threads \ {t} : job[u].at = "clear")
      BY <1>6, <2>2, <3>1 DEF RemoveAttempt, ChangeQueue
    <3>3. /\ <<attempt>> \in Seq(Completion) /\ DOMAIN <<attempt>> = {1} /\ <<attempt>>[1] = attempt
          /\ Append(<<>>, attempt) = <<attempt>> /\ attempt.no <= received
      BY <1>b, <2>1 DEF Bounds
    <3> HIDE DEF attempt
    <3>4. job'[t].at = "file" /\ job'[t].work = <<attempt>> /\ \A u \in Threads \ {t} : job'[u] = job[u]
      BY <1>t, <3>2, <3>3, GotoTyped DEF Place
    <3>5. /\ Contents[Queue] = processing /\ Contents'[Queue] = processing'
          /\ Contents[Hand("file", t)] = <<>> /\ Contents'[Hand("file", t)] = <<attempt>>
      BY <1>c, <2>1, <3>4 DEF ContentsFacts
    <3>6. \A f \in Shelf \ {Queue, Hand("file", t)} : Contents'[f] = Contents[f]
      <4>1. Contents'[Hand("settle", t)] = Contents[Hand("settle", t)]
        BY <1>c, <2>1, <3>4 DEF ContentsFacts
      <4> QED
        BY <1>t, <3>2, <3>4, <4>1, Kept DEF outcomes
    <3>7. Bounds'
      BY <1>b, <3>2, <3>3, <3>4 DEF Bounds
    <3>8. Snapshots' /\ Settlements'
      BY <1>b, <3>2, <3>4 DEF Snapshots, Settlements, outcomes, serviceOne
    <3>9. Queue \in Shelf /\ Hand("file", t) \in Shelf /\ Hand("file", t) # Queue /\ Queue \in Canceling
      BY ShelfCases DEF Canceling
    <3>10. Shifted(Queue, Hand("file", t), i)
      BY <3>1, <3>2, <3>3, <3>5, <3>6, <3>9 DEF Shifted
    <3> QED
      BY <1>t, <3>2, <3>7, <3>8, <3>10, StepMoves
  <2>3. CASE ~Contains(processing, attempt)
    <3>1. Answer(t) /\ UNCHANGED <<received, processing, overlapped, outcomes, serviceOne>>
      BY <1>6, <2>3 DEF RemoveAttempt
    <3> QED
      BY <1>a, <1>q, <2>1, <3>1 DEF outcomes, serviceOne
  <2> QED
    BY <2>2, <2>3
<1>8. ASSUME NEW t \in Threads, SnapshotQueue(t) PROVE ApiInv'
  <2>1. /\ job[t].at = "idle" /\ Goto(t, "clear", processing)
        /\ UNCHANGED <<received, processing, overlapped, outcomes, serviceOne>>
    BY <1>8 DEF SnapshotQueue
  <2>2. job'[t].at = "clear" /\ job'[t].work = processing /\ \A u \in Threads \ {t} : job'[u] = job[u]
    BY <1>t, <1>d, <2>1, GotoTyped DEF Place
  <2>3. \A n \in DOMAIN processing : processing[n].no <= received
    BY <1>c, ShelfCases DEF ApiInv, ContentsFacts
  <2> QED
    BY <1>q, <2>1, <2>2, <2>3 DEF outcomes, serviceOne
<1>14. ASSUME NEW t \in Threads, SweepDone(t) PROVE ApiInv'
  <2>1. /\ Answer(t) /\ job[t].work = <<>> /\ UNCHANGED <<received, processing, overlapped, outcomes, serviceOne>>
    BY <1>14 DEF SweepDone
  <2> QED
    BY <1>a, <1>q, <2>1 DEF outcomes, serviceOne
\* A turn of a sweep's loop takes the first completion in hand.
<1>h. ASSUME NEW t \in Threads, SettleTurn(t), NextTurn(t)
      PROVE  /\ job[t].work \in Seq(Completion) /\ 1 \in 1..Len(job[t].work)
             /\ Head(job[t].work) = job[t].work[1] /\ Head(job[t].work) \in Completion
             /\ Contents[Hand("settle", t)] = job[t].work
             /\ Contents'[Hand("settle", t)] = RemoveAt(job[t].work, 1)
             /\ Contents'[Hand("file", t)] = Contents[Hand("file", t)]
             /\ \A u \in Threads \ {t} : job'[u] = job[u]
             /\ received' = received => Bounds'
             /\ UNCHANGED <<processing, overlapped>> => Snapshots'
  <2>1. job[t].at = "settle" /\ job[t].work # <<>> /\ job[t].work \in Seq(Completion)
    BY <1>h, <1>t, JobFields DEF SettleTurn, ApiTypes
  <2>2. /\ 1 \in 1..Len(job[t].work) /\ Head(job[t].work) = job[t].work[1] /\ Head(job[t].work) \in Completion
        /\ Tail(job[t].work) \in Seq(Completion) /\ Tail(job[t].work) = RemoveAt(job[t].work, 1)
    BY <2>1, TailIsRemoveAt
  <2>3. job'[t].at = "settle" /\ job'[t].work = Tail(job[t].work) /\ \A u \in Threads \ {t} : job'[u] = job[u]
    BY <1>h, <1>t, <2>2, GotoTyped DEF NextTurn, Place
  <2>4. /\ Contents[Hand("settle", t)] = job[t].work /\ Contents'[Hand("settle", t)] = RemoveAt(job[t].work, 1)
        /\ Contents'[Hand("file", t)] = Contents[Hand("file", t)]
    BY <1>c, <2>1, <2>2, <2>3 DEF ContentsFacts
  <2>5. ASSUME received' = received PROVE Bounds'
    <3> SUFFICES ASSUME NEW u \in Threads, NEW n \in DOMAIN job'[u].work PROVE job'[u].work[n].no <= received
      BY <2>5 DEF Bounds
    <3>1. CASE u = t
      <4>1. n \in 1..Len(Tail(job[t].work)) /\ n \in Nat
        <5>1. /\ DOMAIN Tail(job[t].work) = 1..Len(Tail(job[t].work)) /\ Len(Tail(job[t].work)) \in Nat
              /\ n \in DOMAIN Tail(job[t].work)
          BY <2>2, <2>3, <3>1, LenProperties
        <5> QED
          BY <5>1
      <4>2. n + 1 \in 1..Len(job[t].work) /\ Tail(job[t].work)[n] = job[t].work[n + 1]
        BY <2>1, <4>1, HeadTailProperties, LenProperties
      <4> QED
        BY <1>b, <2>1, <2>3, <3>1, <4>2, LenProperties DEF Bounds
    <3>2. CASE u # t
      BY <1>b, <2>3, <3>2 DEF Bounds
    <3> QED
      BY <3>1, <3>2
  <2>6. UNCHANGED <<processing, overlapped>> => Snapshots'
    BY <1>b, <2>3 DEF Snapshots
  <2> QED
    BY <2>1, <2>2, <2>3, <2>4, <2>5, <2>6
<1>11. ASSUME NEW t \in Threads, SkipAttempt(t) PROVE ApiInv'
  <2>1. /\ SettleTurn(t) /\ NextTurn(t) /\ skipped' = Append(skipped, Head(job[t].work))
        /\ UNCHANGED <<received, processing, overlapped, canceled, processed, failed, settled>>
    BY <1>11 DEF SkipAttempt, serviceOne
  <2>2. Settlements'
    BY <1>11, <1>b, <1>h, <2>1 DEF SkipAttempt, Settlements, serviceOne
  <2>3. /\ Filed("skipped") \in Shelf /\ Filed("skipped") \notin Canceling
        /\ Hand("settle", t) \in Shelf /\ Hand("settle", t) # Filed("skipped")
    BY ShelfCases DEF Outcome, Canceling
  <2>4. /\ Contents[Filed("skipped")] = skipped /\ Contents'[Filed("skipped")] = skipped'
    BY <1>c DEF ContentsFacts
  <2>5. \A f \in Shelf \ {Hand("settle", t), Filed("skipped")} : Contents'[f] = Contents[f]
    BY <1>t, <1>h, <2>1, Kept
  <2>6. Shifted(Hand("settle", t), Filed("skipped"), 1)
    BY <1>h, <2>1, <2>3, <2>4, <2>5 DEF Shifted
  <2>7. Bounds' /\ Snapshots' /\ received' = received /\ overlapped' = overlapped
    BY <1>h, <2>1
  <2> QED
    BY <1>t, <2>2, <2>6, <2>7, StepMoves
<1>12. ASSUME NEW t \in Threads, SettleAttempt(t) PROVE ApiInv'
  <2>1. /\ SettleTurn(t) /\ NextTurn(t) /\ processed' = Append(processed, Head(job[t].work))
        /\ UNCHANGED <<received, processing, overlapped, canceled, failed, skipped>>
    BY <1>12 DEF SettleAttempt
  <2>2. Settlements'
    <3>1. settled' = settled \union {Head(job[t].work).token}
      BY <1>12 DEF SettleAttempt
    <3>2. /\ DOMAIN processed' = 1..Len(processed) + 1 /\ processed'[Len(processed) + 1] = Head(job[t].work)
          /\ DOMAIN processed = 1..Len(processed) /\ \A n \in DOMAIN processed : processed'[n] = processed[n]
          /\ Len(processed) \in Nat
      BY <1>d, <1>h, <2>1, AppendProperties, LenProperties
    <3> QED
      BY <1>b, <3>1, <3>2 DEF Settlements
  <2>3. /\ Filed("processed") \in Shelf /\ Filed("processed") \notin Canceling
        /\ Hand("settle", t) \in Shelf /\ Hand("settle", t) # Filed("processed")
    BY ShelfCases DEF Outcome, Canceling
  <2>4. /\ Contents[Filed("processed")] = processed /\ Contents'[Filed("processed")] = processed'
    BY <1>c DEF ContentsFacts
  <2>5. \A f \in Shelf \ {Hand("settle", t), Filed("processed")} : Contents'[f] = Contents[f]
    BY <1>t, <1>h, <2>1, Kept
  <2>6. Shifted(Hand("settle", t), Filed("processed"), 1)
    BY <1>h, <2>1, <2>3, <2>4, <2>5 DEF Shifted
  <2>7. Bounds' /\ Snapshots' /\ received' = received /\ overlapped' = overlapped
    BY <1>h, <2>1
  <2> QED
    BY <1>t, <2>2, <2>6, <2>7, StepMoves
<1>13. ASSUME NEW t \in Threads, SettleAttemptFails(t) PROVE ApiInv'
  <2>1. /\ SettleTurn(t) /\ NextTurn(t) /\ failed' = Append(failed, Head(job[t].work))
        /\ UNCHANGED <<received, processing, overlapped, canceled, processed, skipped>>
    BY <1>13 DEF SettleAttemptFails
  <2>2. Settlements'
    BY <1>13, <1>b, <1>h, <2>1 DEF SettleAttemptFails, Settlements
  <2>3. /\ Filed("failed") \in Shelf /\ Filed("failed") \notin Canceling
        /\ Hand("settle", t) \in Shelf /\ Hand("settle", t) # Filed("failed")
    BY ShelfCases DEF Outcome, Canceling
  <2>4. /\ Contents[Filed("failed")] = failed /\ Contents'[Filed("failed")] = failed'
    BY <1>c DEF ContentsFacts
  <2>5. \A f \in Shelf \ {Hand("settle", t), Filed("failed")} : Contents'[f] = Contents[f]
    BY <1>t, <1>h, <2>1, Kept
  <2>6. Shifted(Hand("settle", t), Filed("failed"), 1)
    BY <1>h, <2>1, <2>3, <2>4, <2>5 DEF Shifted
  <2>7. Bounds' /\ Snapshots' /\ received' = received /\ overlapped' = overlapped
    BY <1>h, <2>1
  <2> QED
    BY <1>t, <2>2, <2>6, <2>7, StepMoves
<1>7. ASSUME NEW t \in Threads, FileCanceled(t) PROVE ApiInv'
  <2>1. /\ job[t].at = "file" /\ canceled' = canceled \o job[t].work /\ Answer(t)
        /\ UNCHANGED <<received, processing, overlapped, processed, failed, skipped, settled>>
    BY <1>7 DEF FileCanceled, serviceOne
  <2>2. job[t].work # <<>> /\ Len(job[t].work) = 1 /\ job[t].work \in Seq(Completion)
    BY <1>t, <2>1, JobFields DEF HandlersFit, ApiTypes
  <2>3. 1 \in 1..Len(job[t].work) /\ job[t].work[1] \in Completion /\ RemoveAt(job[t].work, 1) = <<>>
    <3>1. /\ 1 \in 1..Len(job[t].work) /\ job[t].work[1] \in Completion
          /\ Tail(job[t].work) = RemoveAt(job[t].work, 1) /\ Tail(job[t].work) \in Seq(Completion)
      BY <2>2, TailIsRemoveAt
    <3>2. Len(Tail(job[t].work)) = 0
      BY <2>2, HeadTailProperties
    <3>3. Tail(job[t].work) = <<>>
      BY <3>1, <3>2, EmptySeq
    <3> QED
      BY <3>1, <3>3
  <2>4. canceled' = Append(canceled, job[t].work[1])
    <3>1. job[t].work = <<job[t].work[1]>>
      BY <2>2, <2>3
    <3> QED
      BY <1>d, <2>1, <2>3, <3>1, AppendIsConcat
  <2>5. job'[t].at = "idle" /\ \A u \in Threads \ {t} : job'[u] = job[u]
    BY <1>a, <2>1
  <2>6. /\ Contents[Hand("file", t)] = job[t].work /\ Contents'[Hand("file", t)] = <<>>
        /\ Contents[Filed("canceled")] = canceled /\ Contents'[Filed("canceled")] = canceled'
        /\ Contents'[Hand("settle", t)] = Contents[Hand("settle", t)]
    BY <1>c, <2>1, <2>5 DEF ContentsFacts
  <2>7. \A f \in Shelf \ {Hand("file", t), Filed("canceled")} : Contents'[f] = Contents[f]
    BY <1>t, <2>1, <2>5, <2>6, Kept
  <2>8. Bounds' /\ Snapshots'
    BY <1>a, <1>b, <2>1 DEF Bounds, Snapshots
  <2>9. Settlements'
    BY <1>b, <2>1 DEF Settlements
  <2>10. /\ Hand("file", t) \in Shelf /\ Filed("canceled") \in Shelf /\ Hand("file", t) # Filed("canceled")
         /\ Hand("file", t) \in Canceling
    BY ShelfCases DEF Outcome, Canceling
  <2>11. Shifted(Hand("file", t), Filed("canceled"), 1)
    BY <2>3, <2>4, <2>6, <2>7, <2>10 DEF Shifted
  <2> QED
    BY <1>t, <2>1, <2>8, <2>9, <2>11, StepMoves
<1>9. ASSUME NEW t \in Threads, ClearQueue(t) PROVE ApiInv'
  <2>1. /\ job[t].at = "clear" /\ processing' = <<>> /\ Goto(t, "settle", job[t].work)
        /\ UNCHANGED <<received, outcomes, serviceOne>>
        /\ overlapped' = (overlapped \/ \E u \in Threads \ {t} : job[u].at = "clear")
    BY <1>9 DEF ClearQueue, ChangeQueue
  <2>2. job'[t].at = "settle" /\ job'[t].work = job[t].work /\ \A u \in Threads \ {t} : job'[u] = job[u]
    BY <1>t, <2>1, JobFields, GotoTyped DEF ApiTypes, Place
  <2>3. /\ Contents[Queue] = processing /\ Contents'[Queue] = <<>>
        /\ Contents[Hand("settle", t)] = <<>> /\ Contents'[Hand("settle", t)] = job[t].work
        /\ Contents'[Hand("file", t)] = Contents[Hand("file", t)]
    BY <1>c, <2>1, <2>2 DEF ContentsFacts
  <2>4. \A f \in Shelf \ {Queue, Hand("settle", t)} : Contents'[f] = Contents[f]
    BY <1>t, <2>1, <2>2, <2>3, Kept DEF outcomes
  <2>5. Queue \in Shelf /\ Hand("settle", t) \in Shelf /\ Queue # Hand("settle", t) /\ Hand("settle", t) \notin Canceling
    BY ShelfCases DEF Canceling, Hand, Queue, Filed
  <2>6. PICK c \in [Shelf -> Seq(Completion)], d \in [Shelf -> Seq(Completion)] : c = Contents /\ d = Contents'
    BY <1>t, ContentsTyped, ContentsAfter
  <2>7. Distinct(Contents, Canceling)'
    <3>1. Distinct(Contents, Canceling) /\ Canceling \subseteq Shelf
      BY ShelfCases DEF ApiInv
    <3>2. \A f \in Canceling : Contents'[f] = <<>> \/ Contents'[f] = Contents[f]
      BY <2>3, <2>4, <2>5, <3>1
    <3>3. ASSUME NEW f \in Canceling, NEW e \in Canceling, NEW n \in DOMAIN d[f], NEW m \in DOMAIN d[e],
                 d[f][n].no = d[e][m].no
          PROVE  f = e /\ n = m
      <4>1. d[f] # <<>> /\ d[e] # <<>>
        OBVIOUS
      <4>2. d[f] = c[f] /\ d[e] = c[e]
        BY <2>6, <3>2, <4>1
      <4>3. Distinct(c, Canceling)
        BY <2>6, <3>1
      <4> QED
        BY <3>3, <4>2, <4>3, DistinctSays
    <3>4. Distinct(d, Canceling)
      BY <3>3 DEF Distinct
    <3> QED
      BY <2>6, <3>4 DEF Distinct
  <2>8. Bounds' /\ Settlements'
    BY <1>b, <2>1, <2>2 DEF Bounds, Settlements, outcomes, serviceOne
  <2>9. \A h \in Shelf : \A n \in DOMAIN Contents'[h] : Contents'[h][n].no <= received'
    <3> SUFFICES ASSUME NEW h \in Shelf, NEW n \in DOMAIN Contents'[h] PROVE Contents'[h][n].no <= received
      BY <2>1
    <3>1. CASE h = Queue
      BY <2>3, <3>1
    <3>2. CASE h = Hand("settle", t)
      BY <1>b, <2>3, <3>2 DEF Bounds
    <3>3. CASE h \notin {Queue, Hand("settle", t)}
      BY <2>4, <3>3 DEF ApiInv
    <3> QED
      BY <3>1, <3>2, <3>3
  <2>10. ASSUME ~overlapped' PROVE OncePlaced'
    <3>1. OncePlaced /\ job[t].work = processing /\ \A u \in Threads \ {t} : job[u].at # "clear"
      BY <2>1, <2>10 DEF ApiInv, OncePlaced
    <3>2. Emptied(c, d, Queue, Hand("settle", t))
      BY <2>3, <2>4, <2>5, <2>6, <3>1 DEF Emptied
    <3>3. (Distinct(c, Shelf) => Distinct(d, Shelf)) /\ \A no : Somewhere(c, no) => Somewhere(d, no)
      BY <3>2, MoveAll
    <3>4. Distinct(Contents, Shelf)'
      BY <2>6, <3>1, <3>3 DEF OncePlaced, Distinct
    <3>5. \A no \in 1..received' : Somewhere(Contents, no)'
      <4> SUFFICES ASSUME NEW no \in 1..received PROVE Somewhere(Contents, no)'
        BY <2>1
      <4>1. Somewhere(c, no)
        BY <2>6, <3>1 DEF OncePlaced
      <4>2. Somewhere(d, no)
        BY <3>3, <4>1
      <4> QED
        BY <2>6, <4>2 DEF Somewhere
    <3> QED
      BY <2>2, <3>1, <3>4, <3>5 DEF OncePlaced
  <2> QED
    BY <1>t, <2>7, <2>8, <2>9, <2>10 DEF ApiInv, Bounds, Settlements
<1>15. ASSUME NEW t \in Threads, NEW k \in Keys, RefundPayment(t, k) PROVE ApiInv'
  BY <1>15, <1>q DEF RefundPayment, serviceOne
<1>16. CASE UNCHANGED vars
  BY <1>16, <1>q DEF vars, outcomes, serviceOne
<1> QED
  BY <1>1, <1>2, <1>3, <1>4, <1>5, <1>6, <1>7, <1>8, <1>9, <1>11, <1>12, <1>13, <1>14, <1>15, <1>16
     DEF Next, Continue

-----------------------------------------------------------------------------
(* The property counts the places of a completion. *)

AllFiled == canceled \o processed \o failed \o skipped

Offset(o) ==
  IF o = "canceled" THEN 0
  ELSE IF o = "processed" THEN Len(canceled)
  ELSE IF o = "failed" THEN Len(canceled) + Len(processed)
  ELSE Len(canceled) + Len(processed) + Len(failed)

\* The four outcome lists end to end, in both directions.
LEMMA FiledSlots ==
  ASSUME ApiTypes
  PROVE  /\ \A n \in DOMAIN AllFiled : \E o \in Outcome : \E k \in DOMAIN Contents[Filed(o)] :
              n = Offset(o) + k /\ AllFiled[n] = Contents[Filed(o)][k]
         /\ \A o \in Outcome : \A k \in DOMAIN Contents[Filed(o)] :
              Offset(o) + k \in DOMAIN AllFiled /\ AllFiled[Offset(o) + k] = Contents[Filed(o)][k]
<1>1. /\ canceled \in Seq(Completion) /\ processed \in Seq(Completion)
      /\ failed \in Seq(Completion) /\ skipped \in Seq(Completion)
  BY DEF ApiTypes, TypeOK
<1>2. /\ DOMAIN canceled = 1..Len(canceled) /\ Len(canceled) \in Nat
      /\ DOMAIN processed = 1..Len(processed) /\ Len(processed) \in Nat
      /\ DOMAIN failed = 1..Len(failed) /\ Len(failed) \in Nat
      /\ DOMAIN skipped = 1..Len(skipped) /\ Len(skipped) \in Nat
  BY <1>1, LenProperties
<1>3. PICK e \in Seq(Completion) :
        /\ e = canceled \o processed /\ Len(e) = Len(canceled) + Len(processed)
        /\ \A n \in 1..Len(canceled) + Len(processed) :
             e[n] = IF n <= Len(canceled) THEN canceled[n] ELSE processed[n - Len(canceled)]
  <2>1. PICK e : e = canceled \o processed
    OBVIOUS
  <2>2. /\ e \in Seq(Completion) /\ Len(e) = Len(canceled) + Len(processed)
        /\ \A n \in 1..Len(canceled) + Len(processed) :
             e[n] = IF n <= Len(canceled) THEN canceled[n] ELSE processed[n - Len(canceled)]
    BY <1>1, <2>1, ConcatProperties
  <2> QED
    BY <2>1, <2>2
<1>4. PICK f \in Seq(Completion) :
        /\ f = e \o failed /\ Len(f) = Len(e) + Len(failed)
        /\ \A n \in 1..Len(e) + Len(failed) : f[n] = IF n <= Len(e) THEN e[n] ELSE failed[n - Len(e)]
  <2>1. PICK f : f = e \o failed
    OBVIOUS
  <2>2. /\ f \in Seq(Completion) /\ Len(f) = Len(e) + Len(failed)
        /\ \A n \in 1..Len(e) + Len(failed) : f[n] = IF n <= Len(e) THEN e[n] ELSE failed[n - Len(e)]
    BY <1>1, <2>1, ConcatProperties
  <2> QED
    BY <2>1, <2>2
<1>5. AllFiled = f \o skipped
  BY <1>3, <1>4 DEF AllFiled
<1>6. /\ AllFiled \in Seq(Completion) /\ Len(AllFiled) = Len(f) + Len(skipped)
      /\ \A n \in 1..Len(f) + Len(skipped) : AllFiled[n] = IF n <= Len(f) THEN f[n] ELSE skipped[n - Len(f)]
  BY <1>1, <1>5, ConcatProperties
<1>7. DOMAIN AllFiled = 1..Len(canceled) + Len(processed) + Len(failed) + Len(skipped)
  BY <1>2, <1>3, <1>4, <1>6, LenProperties
<1>8. /\ \A k \in DOMAIN canceled : k \in DOMAIN AllFiled /\ AllFiled[k] = canceled[k]
      /\ \A k \in DOMAIN processed :
           Len(canceled) + k \in DOMAIN AllFiled /\ AllFiled[Len(canceled) + k] = processed[k]
      /\ \A k \in DOMAIN failed :
           /\ Len(canceled) + Len(processed) + k \in DOMAIN AllFiled
           /\ AllFiled[Len(canceled) + Len(processed) + k] = failed[k]
      /\ \A k \in DOMAIN skipped :
           /\ Len(canceled) + Len(processed) + Len(failed) + k \in DOMAIN AllFiled
           /\ AllFiled[Len(canceled) + Len(processed) + Len(failed) + k] = skipped[k]
  <2>1. /\ Len(e) = Len(canceled) + Len(processed)
        /\ Len(f) = Len(canceled) + Len(processed) + Len(failed)
    BY <1>2, <1>3, <1>4
  <2>2. ASSUME NEW k \in DOMAIN canceled PROVE k \in DOMAIN AllFiled /\ AllFiled[k] = canceled[k]
    <3>1. e[k] = canceled[k] /\ f[k] = e[k] /\ AllFiled[k] = f[k]
      BY <1>2, <1>3, <1>4, <1>6, <2>1
    <3> QED
      BY <1>2, <1>7, <3>1
  <2>3. ASSUME NEW k \in DOMAIN processed
        PROVE  Len(canceled) + k \in DOMAIN AllFiled /\ AllFiled[Len(canceled) + k] = processed[k]
    <3>1. PICK n \in 1..Len(e) : n = Len(canceled) + k
      BY <1>2, <2>1
    <3>2. e[n] = processed[k] /\ f[n] = e[n] /\ AllFiled[n] = f[n]
      BY <1>2, <1>3, <1>4, <1>6, <2>1, <3>1
    <3> QED
      BY <1>2, <1>7, <3>1, <3>2
  <2>4. ASSUME NEW k \in DOMAIN failed
        PROVE  /\ Len(canceled) + Len(processed) + k \in DOMAIN AllFiled
               /\ AllFiled[Len(canceled) + Len(processed) + k] = failed[k]
    <3>1. PICK n \in 1..Len(f) : n = Len(e) + k
      BY <1>2, <2>1
    <3>2. f[n] = failed[k] /\ AllFiled[n] = f[n]
      BY <1>2, <1>4, <1>6, <2>1, <3>1
    <3> QED
      BY <1>2, <1>7, <2>1, <3>1, <3>2
  <2>5. ASSUME NEW k \in DOMAIN skipped
        PROVE  /\ Len(canceled) + Len(processed) + Len(failed) + k \in DOMAIN AllFiled
               /\ AllFiled[Len(canceled) + Len(processed) + Len(failed) + k] = skipped[k]
    <3>1. PICK n \in 1..Len(f) + Len(skipped) : n = Len(f) + k
      BY <1>2, <2>1
    <3>2. AllFiled[n] = skipped[k]
      BY <1>2, <1>6, <2>1, <3>1
    <3> QED
      BY <1>2, <1>7, <2>1, <3>1, <3>2
  <2> QED
    BY <2>2, <2>3, <2>4, <2>5
<1>9. ASSUME NEW o \in Outcome, NEW k \in DOMAIN Contents[Filed(o)]
      PROVE  Offset(o) + k \in DOMAIN AllFiled /\ AllFiled[Offset(o) + k] = Contents[Filed(o)][k]
  <2>1. CASE o = "canceled"
    <3>1. Contents[Filed(o)] = canceled /\ Offset(o) + k = k
      BY <1>2, <2>1, ContentsAre DEF ContentsFacts, Offset
    <3> QED
      BY <1>8, <3>1
  <2>2. CASE o = "processed"
    <3>1. Contents[Filed(o)] = processed /\ Offset(o) = Len(canceled)
      BY <2>2, ContentsAre DEF ContentsFacts, Offset
    <3> QED
      BY <1>8, <3>1
  <2>3. CASE o = "failed"
    <3>1. Contents[Filed(o)] = failed /\ Offset(o) = Len(canceled) + Len(processed)
      BY <2>3, ContentsAre DEF ContentsFacts, Offset
    <3> QED
      BY <1>8, <3>1
  <2>4. CASE o = "skipped"
    <3>1. Contents[Filed(o)] = skipped /\ Offset(o) = Len(canceled) + Len(processed) + Len(failed)
      BY <2>4, ContentsAre DEF ContentsFacts, Offset
    <3> QED
      BY <1>8, <3>1
  <2> QED
    BY <2>1, <2>2, <2>3, <2>4 DEF Outcome
<1>10. ASSUME NEW n \in DOMAIN AllFiled
       PROVE  \E o \in Outcome : \E k \in DOMAIN Contents[Filed(o)] :
                n = Offset(o) + k /\ AllFiled[n] = Contents[Filed(o)][k]
  <2>1. \E o \in Outcome : \E k \in DOMAIN Contents[Filed(o)] : n = Offset(o) + k
    <3>1. CASE n <= Len(canceled)
      <4>1. n \in DOMAIN canceled /\ n = 0 + n
        BY <1>2, <1>7, <3>1
      <4> QED
        BY <4>1, ContentsAre DEF ContentsFacts, Outcome, Offset
    <3>2. CASE n > Len(canceled) /\ n <= Len(canceled) + Len(processed)
      <4>1. n - Len(canceled) \in DOMAIN processed /\ n = Len(canceled) + (n - Len(canceled))
        BY <1>2, <1>7, <3>2
      <4> QED
        BY <4>1, ContentsAre DEF ContentsFacts, Outcome, Offset
    <3>3. CASE n > Len(canceled) + Len(processed) /\ n <= Len(canceled) + Len(processed) + Len(failed)
      <4> DEFINE k == n - (Len(canceled) + Len(processed))
      <4>1. k \in DOMAIN failed /\ n = Len(canceled) + Len(processed) + k
        BY <1>2, <1>7, <3>3
      <4> HIDE DEF k
      <4> QED
        BY <4>1, ContentsAre DEF ContentsFacts, Outcome, Offset
    <3>4. CASE n > Len(canceled) + Len(processed) + Len(failed)
      <4> DEFINE k == n - (Len(canceled) + Len(processed) + Len(failed))
      <4>1. k \in DOMAIN skipped /\ n = Len(canceled) + Len(processed) + Len(failed) + k
        BY <1>2, <1>7, <3>4
      <4> HIDE DEF k
      <4> QED
        BY <4>1, ContentsAre DEF ContentsFacts, Outcome, Offset
    <3> QED
      BY <1>2, <1>7, <3>1, <3>2, <3>3, <3>4
  <2> QED
    BY <1>9, <2>1
<1> QED
  BY <1>9, <1>10

\* Handlers and outcomes of a number are the shelves that hold it.
LEMMA PlacesOf ==
  ASSUME ApiTypes, NEW no
  PROVE  /\ Queued(no) <=> \E n \in DOMAIN Contents[Queue] : Contents[Queue][n].no = no
         /\ \A t \in InHand(no) : t \in Threads /\
              \E place \in {"file", "settle"} : \E n \in DOMAIN Contents[Hand(place, t)] : Contents[Hand(place, t)][n].no = no
         /\ \A t \in Threads, place \in {"file", "settle"} :
              (\E n \in DOMAIN Contents[Hand(place, t)] : Contents[Hand(place, t)][n].no = no) => t \in InHand(no)
         /\ \A n \in OutcomesOf(no) : \E o \in Outcome : \E k \in DOMAIN Contents[Filed(o)] :
              n = Offset(o) + k /\ Contents[Filed(o)][k].no = no
         /\ \A o \in Outcome : \A k \in DOMAIN Contents[Filed(o)] :
              Contents[Filed(o)][k].no = no => Offset(o) + k \in OutcomesOf(no)
<1>1. OutcomesOf(no) = {n \in DOMAIN AllFiled : AllFiled[n].no = no}
  BY DEF OutcomesOf, AllFiled
<1>2. /\ \A n \in OutcomesOf(no) : \E o \in Outcome : \E k \in DOMAIN Contents[Filed(o)] :
           n = Offset(o) + k /\ Contents[Filed(o)][k].no = no
      /\ \A o \in Outcome : \A k \in DOMAIN Contents[Filed(o)] :
           Contents[Filed(o)][k].no = no => Offset(o) + k \in OutcomesOf(no)
  BY <1>1, FiledSlots
<1>3. ASSUME NEW t \in Threads, NEW place \in {"file", "settle"}
      PROVE  (\E n \in DOMAIN Contents[Hand(place, t)] : Contents[Hand(place, t)][n].no = no)
               <=> job[t].at = place /\ \E n \in DOMAIN job[t].work : job[t].work[n].no = no
  BY ContentsAre DEF ContentsFacts
<1>4. Queued(no) <=> \E n \in DOMAIN Contents[Queue] : Contents[Queue][n].no = no
  BY ContentsAre DEF ContentsFacts, Queued
<1>5. \A t \in InHand(no) : t \in Threads /\ job[t].at \in {"file", "settle"}
                            /\ \E n \in DOMAIN job[t].work : job[t].work[n].no = no
  BY DEF InHand
<1>6. \A t \in Threads : job[t].at \in {"file", "settle"} /\ (\E n \in DOMAIN job[t].work : job[t].work[n].no = no)
                         => t \in InHand(no)
  BY DEF InHand
<1> QED
  BY <1>2, <1>3, <1>4, <1>5, <1>6

\* What /cancel-payment and /process-payment owe a completion, for any number of
\* each at a time: one outcome and never two, unless a handler changed the queue
\* between a sweep's snapshot and its clear; no completion canceled twice even
\* then; and a payment that is processed is settled in service-1's ledger.
THEOREM ProcessedOnce == Spec => []ProcessedOnceAndSettled
<1>1. ASSUME ApiInv PROVE ProcessedOnceAndSettled
  <2>1. ApiTypes /\ \A n \in DOMAIN processed : processed[n].token \in settled
    BY <1>1 DEF ApiInv
  <2>2. IsInjective(canceled)
    <3> SUFFICES ASSUME NEW a \in DOMAIN canceled, NEW b \in DOMAIN canceled, canceled[a] = canceled[b]
                 PROVE  a = b
      BY DEF IsInjective
    <3> DEFINE h == Filed("canceled")
    <3>1. h \in Canceling /\ Contents[h] = canceled /\ Distinct(Contents, Canceling)
      BY <1>1, ContentsAre DEF ContentsFacts, Canceling, ApiInv
    <3> HIDE DEF h
    <3> QED
      BY <3>1, DistinctSays
  <2>3. ASSUME ~overlapped, NEW no \in 1..received
        PROVE  Cardinality(InHand(no)) + Cardinality(OutcomesOf(no)) = IF Queued(no) THEN 0 ELSE 1
    <3>1. Distinct(Contents, Shelf) /\ Somewhere(Contents, no)
      BY <1>1, <2>3 DEF ApiInv, OncePlaced
    <3>2. PICK h \in Shelf : \E n \in DOMAIN Contents[h] : Contents[h][n].no = no
      BY <3>1 DEF Somewhere
    <3>3. PICK n \in DOMAIN Contents[h] : Contents[h][n].no = no
      BY <3>2
    <3>4. ASSUME NEW g \in Shelf, NEW m \in DOMAIN Contents[g], Contents[g][m].no = no
          PROVE  g = h /\ m = n
      BY <3>1, <3>3, <3>4, DistinctSays
    <3>5. Cardinality({}) = 0
      BY FS_EmptySet
    <3>6. CASE h = Queue
      <4>1. Queued(no)
        BY <2>1, <3>3, <3>6, PlacesOf
      <4>2. InHand(no) = {}
        BY <2>1, <3>4, <3>6, PlacesOf, ShelfCases
      <4>3. OutcomesOf(no) = {}
        BY <2>1, <3>4, <3>6, PlacesOf, ShelfCases
      <4> QED
        BY <3>5, <4>1, <4>2, <4>3
    <3>7. CASE \E o \in Outcome : h = Filed(o)
      <4>1. PICK o \in Outcome : h = Filed(o)
        BY <3>7
      <4>2. ~Queued(no)
        BY <2>1, <3>4, <4>1, PlacesOf, ShelfCases
      <4>3. InHand(no) = {}
        BY <2>1, <3>4, <4>1, PlacesOf, ShelfCases
      <4>4. Offset(o) + n \in OutcomesOf(no)
        BY <2>1, <3>3, <4>1, PlacesOf
      <4>5. ASSUME NEW m \in OutcomesOf(no) PROVE m = Offset(o) + n
        <5>1. PICK q \in Outcome : \E k \in DOMAIN Contents[Filed(q)] :
                m = Offset(q) + k /\ Contents[Filed(q)][k].no = no
          BY <2>1, PlacesOf
        <5>2. PICK k \in DOMAIN Contents[Filed(q)] : m = Offset(q) + k /\ Contents[Filed(q)][k].no = no
          BY <5>1
        <5>3. Filed(q) = h /\ k = n
          BY <3>4, <5>2, ShelfCases
        <5>4. q = o
          BY <4>1, <5>3, ShelfCases
        <5> QED
          BY <5>2, <5>3, <5>4
      <4>6. OutcomesOf(no) = {Offset(o) + n}
        BY <4>4, <4>5
      <4>7. Cardinality(OutcomesOf(no)) = 1
        BY <4>6, FS_Singleton
      <4> QED
        BY <3>5, <4>2, <4>3, <4>7
    <3>8. CASE \E place \in {"file", "settle"} : \E t \in Threads : h = Hand(place, t)
      <4>1. PICK place \in {"file", "settle"}, t \in Threads : h = Hand(place, t)
        BY <3>8
      <4>2. ~Queued(no)
        BY <2>1, <3>4, <4>1, PlacesOf, ShelfCases
      <4>3. OutcomesOf(no) = {}
        BY <2>1, <3>4, <4>1, PlacesOf, ShelfCases
      <4>4. t \in InHand(no)
        BY <2>1, <3>3, <4>1, PlacesOf
      <4>5. ASSUME NEW u \in InHand(no) PROVE u = t
        BY <2>1, <3>4, <4>1, PlacesOf, ShelfCases
      <4>6. InHand(no) = {t}
        BY <4>4, <4>5
      <4>7. Cardinality(InHand(no)) = 1
        BY <4>6, FS_Singleton
      <4> QED
        BY <3>5, <4>2, <4>3, <4>7
    <3> QED
      BY <3>6, <3>7, <3>8, ShelfCases
  <2> QED
    BY <2>1, <2>2, <2>3 DEF ProcessedOnceAndSettled
<1> QED
  BY ApiInitial, ApiStep, <1>1, PTL DEF Spec
=============================================================================
