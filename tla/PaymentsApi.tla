----------------------------- MODULE PaymentsApi ----------------------------
(***************************************************************************)
(* payments-api: the stand-in payment provider.  Everything it knows is in *)
(* six in-memory lists and maps that the handlers share without a lock.    *)
(* create_payment is async and runs on the event loop; the other handlers  *)
(* run in the thread pool, where a thread can be preempted between any two *)
(* operations on a list: each such operation is one step.                  *)
(*                                                                         *)
(* service-1 is seen through its answers: paid and settled are the keys it *)
(* has posted step1_payin and step2a_payin-complete for (PaymentLedger).   *)
(* A restart empties every list and is the initial state again.            *)
(***************************************************************************)
EXTENDS Naturals, Sequences, FiniteSets, SequencesExt

CONSTANTS
  Keys,            \* idempotency keys; the token minted for a key stands for it
  Threads,         \* concurrent requests the thread pool serves
  MaxCompletions,  \* bound: requests to /complete-payment
  MaxRefunds,      \* bound: refunds filed
  None             \* a token that was never minted

ASSUME ApiAssumption ==
  /\ MaxCompletions \in Nat
  /\ MaxRefunds \in Nat
  /\ None \notin Keys

\* A MakePaymentRequest; no stands for its card number. Two requests that are
\* equal are interchangeable in every list, so they are told apart here.
Completion == [no : 1..MaxCompletions, token : Keys \union {None}]

Place == {"idle", "notify", "scan", "remove", "file", "clear", "settle"}

VARIABLES
  registered,  \* keys of _idempotency_to_token, and so of _token_to_request
  received,    \* how many completions have arrived
  processing,  \* _processing_payments
  canceled,    \* _canceled_payments
  processed,   \* _processed_payments, with the completion each entry is for
  failed,      \* _failed_payments, likewise
  overlapped,  \* a handler changed the queue between a sweep's snapshot and clear (history)
  skipped,     \* completions a sweep passed over: their token is unknown (history)
  refunded,    \* _refunded_payments
  paid,        \* service-1 has posted step1_payin
  settled,     \* service-1 has posted step2a_payin-complete
  job          \* job[t]: the request thread t serves

outcomes == <<canceled, processed, failed, skipped, refunded>>
serviceOne == <<paid, settled>>
vars == <<registered, received, processing, overlapped, outcomes, serviceOne, job>>

\* at: the place reached; key: the argument of cancel; i: its loop index;
\* work: the completions the handler holds.
Job == [at : Place, key : Keys \union {None}, i : Nat, work : Seq(Completion)]
IdleJob == [at |-> "idle", key |-> None, i |-> 0, work |-> <<>>]

Init ==
  /\ registered = {}
  /\ received = 0
  /\ processing = <<>>
  /\ overlapped = FALSE
  /\ canceled = <<>> /\ processed = <<>> /\ failed = <<>> /\ skipped = <<>>
  /\ refunded = <<>>
  /\ paid = {} /\ settled = {}
  /\ job = [t \in Threads |-> IdleJob]

Goto(t, place, work) ==
  job' = [job EXCEPT ![t] = [IdleJob EXCEPT !.at = place, !.work = work]]

Answer(t) == job' = [job EXCEPT ![t] = IdleJob]

\* The handler of t leaves the queue as list.
ChangeQueue(t, list) ==
  /\ processing' = list
  /\ overlapped' = (overlapped \/ \E u \in Threads \ {t} : job[u].at = "clear")

-----------------------------------------------------------------------------
\* POST /payment: a key registered before is answered with the token it has.
CreatePayment(k) ==
  /\ registered' = registered \union {k}
  /\ UNCHANGED <<received, processing, overlapped, outcomes, serviceOne, job>>

-----------------------------------------------------------------------------
\* POST /complete-payment

\* The attempt is queued before its token is looked up.
QueueCompletion(t, token) ==
  LET attempt == [no |-> received + 1, token |-> token]
  IN  /\ job[t].at = "idle"
      /\ received < MaxCompletions
      /\ received' = received + 1
      /\ ChangeQueue(t, Append(processing, attempt))
      /\ Goto(t, "notify", <<attempt>>)
      /\ UNCHANGED <<registered, outcomes, serviceOne>>

\* _notify_webhook: best effort, an error is swallowed. An unknown token is
\* reported as a failure of no payment order, which service-1 answers 404.
NotifyWebhook(t) ==
  LET token == Head(job[t].work).token
  IN  /\ job[t].at = "notify"
      /\ \/ token \in registered /\ paid' = paid \union {token}
         \/ UNCHANGED paid
      /\ Answer(t)
      /\ UNCHANGED <<registered, received, processing, overlapped, outcomes, settled>>

-----------------------------------------------------------------------------
\* POST /cancel-payment

StartCancel(t, k) ==
  /\ job[t].at = "idle"
  /\ job' = [job EXCEPT ![t] = [IdleJob EXCEPT !.at = "scan", !.key = k, !.i = 1]]
  /\ UNCHANGED <<registered, received, processing, overlapped, outcomes, serviceOne>>

\* for attempt in _processing_payments: the iterator holds an index into the
\* list, which other threads go on changing; past its end the answer is 404.
ScanQueue(t) ==
  LET c == job[t]
  IN  /\ c.at = "scan"
      /\ IF c.i > Len(processing)
         THEN Answer(t)
         ELSE LET attempt == processing[c.i]
              IN  IF attempt.token = c.key /\ c.key \in registered
                  THEN Goto(t, "remove", <<attempt>>)
                  ELSE job' = [job EXCEPT ![t].i = @ + 1]
      /\ UNCHANGED <<registered, received, processing, overlapped, outcomes, serviceOne>>

\* Mutant of RemoveAttempt: an attempt that is gone is not an error.
RemoveAttemptIfQueued(t) ==
  LET attempt == Head(job[t].work)
  IN  /\ job[t].at = "remove"
      /\ ChangeQueue(t, RemoveFirst(processing, attempt))
      /\ Goto(t, "file", <<attempt>>)
      /\ UNCHANGED <<registered, received, outcomes, serviceOne>>

\* _processing_payments.remove(attempt): a ValueError (500) when it is gone.
RemoveAttempt(t) ==
  LET attempt == Head(job[t].work)
  IN  /\ job[t].at = "remove"
      /\ IF Contains(processing, attempt)
         THEN /\ ChangeQueue(t, RemoveFirst(processing, attempt))
              /\ Goto(t, "file", <<attempt>>)
         ELSE UNCHANGED <<processing, overlapped>> /\ Answer(t)
      /\ UNCHANGED <<registered, received, outcomes, serviceOne>>

FileCanceled(t) ==
  /\ job[t].at = "file"
  /\ canceled' = canceled \o job[t].work
  /\ Answer(t)
  /\ UNCHANGED <<registered, received, processing, overlapped, processed, failed, skipped,
                 refunded, serviceOne>>

-----------------------------------------------------------------------------
\* POST /process-payment

\* attempts = list(_processing_payments)
SnapshotQueue(t) ==
  /\ job[t].at = "idle"
  /\ Goto(t, "clear", processing)
  /\ UNCHANGED <<registered, received, processing, overlapped, outcomes, serviceOne>>

\* _processing_payments.clear()
ClearQueue(t) ==
  /\ job[t].at = "clear"
  /\ ChangeQueue(t, <<>>)
  /\ Goto(t, "settle", job[t].work)
  /\ UNCHANGED <<registered, received, outcomes, serviceOne>>

\* One turn of the loop, or its end; next is what the turn does.
SettleTurn(t) == job[t].at = "settle" /\ job[t].work # <<>>

NextTurn(t) == Goto(t, "settle", Tail(job[t].work))

\* An unknown token has nothing to settle.
SkipAttempt(t) ==
  /\ SettleTurn(t)
  /\ Head(job[t].work).token \notin registered
  /\ skipped' = Append(skipped, Head(job[t].work))
  /\ NextTurn(t)
  /\ UNCHANGED <<registered, received, processing, overlapped, canceled, processed, failed,
                 refunded, serviceOne>>

\* service-1 answers 2a with 200: it wants the step1_payin first, and has posted
\* step2a_payin-complete when it says so.
SettleAttempt(t) ==
  LET attempt == Head(job[t].work)
  IN  /\ SettleTurn(t)
      /\ attempt.token \in registered \intersect paid
      /\ settled' = settled \union {attempt.token}
      /\ processed' = Append(processed, attempt)
      /\ NextTurn(t)
      /\ UNCHANGED <<registered, received, processing, overlapped, canceled, failed, skipped,
                     refunded, paid>>

\* Mutant of SettleAttemptFails: an exception ends the turn before it files.
SettleAttemptUnfiled(t) ==
  /\ SettleTurn(t)
  /\ Head(job[t].work).token \in registered
  /\ NextTurn(t)
  /\ UNCHANGED <<registered, received, processing, overlapped, outcomes, serviceOne>>

\* Another answer than 200, or none: service-1 may have posted the step even so.
SettleAttemptFails(t) ==
  LET attempt == Head(job[t].work)
  IN  /\ SettleTurn(t)
      /\ attempt.token \in registered
      /\ \/ attempt.token \in paid /\ settled' = settled \union {attempt.token}
         \/ UNCHANGED settled
      /\ failed' = Append(failed, attempt)
      /\ NextTurn(t)
      /\ UNCHANGED <<registered, received, processing, overlapped, canceled, processed, skipped,
                     refunded, paid>>

SweepDone(t) ==
  /\ job[t].at = "settle"
  /\ job[t].work = <<>>
  /\ Answer(t)
  /\ UNCHANGED <<registered, received, processing, overlapped, outcomes, serviceOne>>

-----------------------------------------------------------------------------
\* Mutant of RefundPayment: the end of the scan without a match is not a 404.
RefundWhateverFound(t, k) ==
  /\ job[t].at = "idle"
  /\ Len(refunded) < MaxRefunds
  /\ refunded' = Append(refunded, IF \E n \in DOMAIN processed : processed[n].token = k
                                  THEN k ELSE None)
  /\ UNCHANGED <<registered, received, processing, overlapped, canceled, processed, failed,
                 skipped, serviceOne, job>>

\* POST /refund-payment: _processed_payments only grows, so the scan is one
\* step; it does not look at _refunded_payments. A key never processed is a 404.
RefundPayment(t, k) ==
  /\ job[t].at = "idle"
  /\ \E n \in DOMAIN processed : processed[n].token = k
  /\ Len(refunded) < MaxRefunds
  /\ refunded' = Append(refunded, k)
  /\ UNCHANGED <<registered, received, processing, overlapped, canceled, processed, failed,
                 skipped, serviceOne, job>>

-----------------------------------------------------------------------------
Continue(t) ==
  \/ NotifyWebhook(t)
  \/ ScanQueue(t)
  \/ RemoveAttempt(t)
  \/ FileCanceled(t)
  \/ ClearQueue(t)
  \/ SkipAttempt(t)
  \/ SettleAttempt(t)
  \/ SettleAttemptFails(t)
  \/ SweepDone(t)

Next ==
  \/ \E k \in Keys : CreatePayment(k)
  \/ \E t \in Threads, token \in registered \union {None} : QueueCompletion(t, token)
  \/ \E t \in Threads, k \in Keys : StartCancel(t, k) \/ RefundPayment(t, k)
  \/ \E t \in Threads : SnapshotQueue(t) \/ Continue(t)

\* Every call a handler makes has a timeout, so a handler that has started comes
\* to its end; the externals-trigger client asks for a sweep again and again, and
\* a request that waits for a thread of the pool gets one.
Fairness ==
  /\ \A t \in Threads : WF_vars(Continue(t))
  /\ SF_vars(\E t \in Threads : SnapshotQueue(t))

Spec == Init /\ [][Next]_vars

FairSpec == Spec /\ Fairness

-----------------------------------------------------------------------------
\* Properties

\* Every variable has its type: only keys of known payments are filed as refunded.
TypeOK ==
  /\ overlapped \in BOOLEAN
  /\ registered \subseteq Keys
  /\ received \in 0..MaxCompletions
  /\ \A list \in {processing, canceled, processed, failed, skipped} :
       list \in Seq(Completion)
  /\ refunded \in Seq(Keys)
  /\ paid \subseteq Keys /\ settled \subseteq Keys
  /\ job \in [Threads -> Job]

\* Where a completion is: queued, in the hands of a handler that has taken it out
\* of the queue, or filed.
Queued(no) == \E n \in DOMAIN processing : processing[n].no = no

InHand(no) ==
  {t \in Threads : job[t].at \in {"file", "settle"} /\
                   \E n \in DOMAIN job[t].work : job[t].work[n].no = no}

OutcomesOf(no) ==
  LET filed == canceled \o processed \o failed \o skipped
  IN  {n \in DOMAIN filed : filed[n].no = no}

\* "each attempt is processed exactly once, while anything /complete-payment
\* appends during this sweep stays queued for the next call": a completion that
\* has arrived is queued, in one handler's hands, or has had its one outcome,
\* whatever cancellations and sweeps go on. The snapshot and the clear of a sweep
\* are two steps, and what happens to the queue between them is the one exception.
\* Two cancellations of one key never cancel one completion twice even then: the
\* second to remove it runs into a ValueError. And "all processed_payments
\* (payment-api) have equivalent step2a_payin-complete Transactions in the ledger
\* db", although service-1 may refuse, time out or post the step without
\* payments-api hearing of it.
ProcessedOnceAndSettled ==
  /\ \A n \in DOMAIN processed : processed[n].token \in settled
  /\ IsInjective(canceled)
  /\ ~overlapped =>
       \A no \in 1..received :
         Cardinality(InHand(no)) + Cardinality(OutcomesOf(no)) = IF Queued(no) THEN 0 ELSE 1

\* Every completion that has arrived is at last canceled or settled one way or
\* the other: whatever service-1 answers, a sweep files what it has taken.
OutcomeReached ==
  \A no \in 1..MaxCompletions : no <= received ~> overlapped \/ OutcomesOf(no) # {}
=============================================================================
