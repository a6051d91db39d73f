--------------------------- MODULE PaymentLedger ----------------------------
(***************************************************************************)
(* service-1 of the payment system: the four /payment-flow webhooks, run   *)
(* by a pool of threads over two databases, order-db (OrderPayment.status) *)
(* and ledger-db (Transaction, LedgerEntry, PayoutReadiness, Payout,       *)
(* Refund).                                                                *)
(*                                                                         *)
(* Every statement and every `with conn.transaction()` block is one atomic *)
(* step; between two of them a handler holds only what it has read (saw).  *)
(* A handler may stop at any such point: a crash of the process, a         *)
(* database error or a missing account all leave what was committed.       *)
(***************************************************************************)
EXTENDS Integers, FiniteSets

CONSTANTS
  Payments,      \* OrderPayment ids
  Orders,        \* order ids
  OrderOf,       \* OrderPayment.order_id
  Amount,        \* OrderPayment.amount, the same value the payin carries
  Threads,       \* concurrent requests the thread pool of service-1 serves
  IdCollisions,  \* whether two _snowflake_id() of one table can be equal
  None           \* no payment order

ASSUME ConstantsAssumption ==
  /\ OrderOf \in [Payments -> Orders]
  /\ Amount \in [Payments -> Nat]
  /\ IdCollisions \in BOOLEAN
  /\ None \notin Payments

Step == {"step1_payin", "step2a_payin-complete", "step2b_fufilled", "refund"}

PaymentStatus == {"absent", "pending", "register_success", "register_fail",
                  "payment_success", "payment_fail"}

Account == {"psp", "cash", "escrow", "income", "seller"}

\* The columns of payout_readiness that are true, and "row" once the row exists.
ReadinessFlag == {"row", "payin_complete", "fufilled"}

\* Where a handler stands between two atomic steps.
Place == {"idle", "mark", "post2a", "read2b", "post2b", "readRefund", "postRefund"}

VARIABLES
  status,     \* order-db: status[p] of the OrderPayment row
  steps,      \* ledger-db: steps[p], the steps of p's Transactions
  balance,    \* ledger-db: balance[p][a], credits less debits of a by p's entries
  readiness,  \* ledger-db: p's PayoutReadiness row
  payouts,    \* ledger-db: payouts[p], the number of Payout rows
  refunds,    \* ledger-db: refunds[p], the number of Refund rows
  raced,      \* orders' payments a 2b and a refund have worked on at once (history)
  acked,      \* acked[p]: the steps a 200 answer has said are posted (history)
  job         \* job[t]: the request thread t serves, and what it has read

ledgerVars == <<steps, balance, readiness, payouts, refunds>>
vars == <<status, ledgerVars, raced, acked, job>>

Job == [at : Place, po : Payments \union {None}, saw : SUBSET Step]
IdleJob == [at |-> "idle", po |-> None, saw |-> {}]

Init ==
  /\ status = [p \in Payments |-> "absent"]
  /\ steps = [p \in Payments |-> {}]
  /\ balance = [p \in Payments |-> [a \in Account |-> 0]]
  /\ readiness = [p \in Payments |-> {}]
  /\ payouts = [p \in Payments |-> 0]
  /\ refunds = [p \in Payments |-> 0]
  /\ raced = {}
  /\ acked = [p \in Payments |-> {}]
  /\ job = [t \in Threads |-> IdleJob]

-----------------------------------------------------------------------------
\* Threads

Goto(t, place, p, seen) == job' = [job EXCEPT ![t] = [at |-> place, po |-> p, saw |-> seen]]

Answer(t) == job' = [job EXCEPT ![t] = IdleJob]

Ack(p, s) == acked' = [acked EXCEPT ![p] = @ \union {s}]

-----------------------------------------------------------------------------
\* The double entries of each step, as credits less debits per account.

\* seller_amount of the fulfilment split, nine tenths rounded up.
SellerShare(a) == (a * 9 + 9) \div 10

\* Mutant of IncomeShare: the platform's tenth rounded up as well.
IncomeShareRoundedUp(a) == (a + 9) \div 10

\* income_amount, one tenth rounded down.
IncomeShare(a) == a \div 10

PayinEntries(a) ==
  [x \in Account |-> CASE x = "psp" -> -a [] x = "escrow" -> a [] OTHER -> 0]

PayinCompleteEntries(a) ==
  [x \in Account |-> CASE x = "cash" -> -a [] x = "psp" -> a [] OTHER -> 0]

FulfilEntries(a) ==
  [x \in Account |-> CASE x = "escrow" -> -a
                       [] x = "seller" -> SellerShare(a)
                       [] x = "income" -> IncomeShare(a)
                       [] OTHER -> 0]

RefundEntries(a, payinCompleted) ==
  [x \in Account |-> CASE x = "escrow" -> -a
                       [] x = (IF payinCompleted THEN "cash" ELSE "psp") -> a
                       [] OTHER -> 0]

\* Mutant of Insert: no UNIQUE (payment_order_id, step) on transaction.
InsertUnchecked(p, s, entries) ==
  /\ steps' = [steps EXCEPT ![p] = @ \union {s}]
  /\ balance' = [balance EXCEPT ![p] = [x \in Account |-> @[x] + entries[x]]]

\* INSERT the Transaction (UNIQUE (payment_order_id, step)) and its entries.
Insert(p, s, entries) ==
  /\ s \notin steps[p]
  /\ steps' = [steps EXCEPT ![p] = @ \union {s}]
  /\ balance' = [balance EXCEPT ![p] = [x \in Account |-> @[x] + entries[x]]]

\* Mutant of RaiseReadiness: the UPDATE returns the row as it was before it.
RaiseReadinessStale(p, flag) ==
  /\ readiness' = [readiness EXCEPT ![p] = IF "row" \in @ THEN @ \union {flag} ELSE {}]
  /\ payouts' = IF {"payin_complete", "fufilled"} \subseteq readiness[p]
                THEN [payouts EXCEPT ![p] = @ + 1]
                ELSE payouts

\* Mutant of RaiseReadiness: the UPDATE writes both columns, from the handler's view.
RaiseReadinessOverwrites(p, flag) ==
  /\ readiness' = [readiness EXCEPT ![p] = {"row", flag}]
  /\ UNCHANGED payouts

\* UPDATE payout_readiness SET flag = true ... RETURNING both flags, and the
\* INSERT INTO payout when both are true.
RaiseReadiness(p, flag) ==
  LET row == IF "row" \in readiness[p] THEN readiness[p] \union {flag} ELSE {}
  IN  /\ readiness' = [readiness EXCEPT ![p] = row]
      /\ payouts' = IF {"payin_complete", "fufilled"} \subseteq row
                    THEN [payouts EXCEPT ![p] = @ + 1]
                    ELSE payouts

-----------------------------------------------------------------------------
\* POST /payment-flow/1

\* status = 'fail': one UPDATE of the attempt, whatever its status. (payments-api
\* itself sends it with an empty id only, which matches no row: a 404.)
PayinFailed(t, p) ==
  /\ job[t].at = "idle"
  /\ status[p] # "absent"
  /\ status' = [status EXCEPT ![p] = "payment_fail"]
  /\ UNCHANGED <<ledgerVars, acked, job, raced>>

\* Mutant of PostPayin: an error of the ledger transaction is swallowed.
PostPayinErrorSwallowed(t, p) ==
  /\ job[t].at = "idle"
  /\ Goto(t, "mark", p, {})
  /\ UNCHANGED <<status, ledgerVars, acked, raced>>

\* status = 'success': the payin's transaction. A second delivery runs into the
\* unique constraint and is answered 400, before order-db is touched.
PostPayin(t, p) ==
  /\ job[t].at = "idle"
  /\ Insert(p, "step1_payin", PayinEntries(Amount[p]))
  /\ readiness' = [readiness EXCEPT ![p] = {"row"}]
  /\ Goto(t, "mark", p, {})
  /\ UNCHANGED <<status, payouts, refunds, acked, raced>>

\* Mutant of MarkPaid: a status the CHECK constraint of order-db does not know.
MarkPaidUnknownStatus(t) ==
  /\ job[t].at = "mark"
  /\ status' = [status EXCEPT ![job[t].po] = "paid"]
  /\ Answer(t)
  /\ UNCHANGED <<ledgerVars, acked, raced>>

\* ... then, in another database, UPDATE order_payment SET payment_success.
MarkPaid(t) ==
  LET p == job[t].po
  IN  /\ job[t].at = "mark"
      /\ status' = [status EXCEPT ![p] = "payment_success"]
      /\ Ack(p, "step1_payin")
      /\ Answer(t)
      /\ UNCHANGED <<ledgerVars, raced>>

-----------------------------------------------------------------------------
\* POST /payment-flow/2a

\* Mutant of ReadFor2a: the step1_payin is not required.
ReadFor2aWithoutPayin(t, p) ==
  /\ job[t].at = "idle"
  /\ "step2a_payin-complete" \notin steps[p]
  /\ Goto(t, "post2a", p, {})
  /\ UNCHANGED <<status, ledgerVars, acked, raced>>

\* The two SELECTs. Transactions are never deleted, so one step stands for both.
\* Without a step1_payin the handler answers 400.
ReadFor2a(t, p) ==
  /\ job[t].at = "idle"
  /\ "step1_payin" \in steps[p]
  /\ IF "step2a_payin-complete" \in steps[p]
     THEN Ack(p, "step2a_payin-complete") /\ UNCHANGED job
     ELSE Goto(t, "post2a", p, {}) /\ UNCHANGED acked
  /\ UNCHANGED <<status, ledgerVars, raced>>

Post2a(t) ==
  LET p == job[t].po
  IN  /\ job[t].at = "post2a"
      /\ Insert(p, "step2a_payin-complete", PayinCompleteEntries(Amount[p]))
      /\ RaiseReadiness(p, "payin_complete")
      /\ Ack(p, "step2a_payin-complete")
      /\ Answer(t)
      /\ UNCHANGED <<status, refunds, raced>>

-----------------------------------------------------------------------------
\* POST /payment-flow/2b and POST /payment-flow/refund

\* Both start with an order-db read of a payment_success attempt of the order;
\* without one the answer is 400. next is "read2b" or "readRefund".
FindPaid(t, o, next) ==
  /\ job[t].at = "idle"
  /\ \E p \in Payments :
       /\ OrderOf[p] = o
       /\ status[p] = "payment_success"
       /\ Goto(t, next, p, {})
  /\ UNCHANGED <<status, ledgerVars, acked, raced>>

\* A terminal step the caller is told about (200); nothing is posted.
AnswerTerminal(t, p) ==
  /\ \/ "refund" \in steps[p] /\ Ack(p, "refund")
     \/ /\ "refund" \notin steps[p]
        /\ "step2b_fufilled" \in steps[p]
        /\ Ack(p, "step2b_fufilled")
  /\ Answer(t)

\* History: a handler has read p's steps while the rival one stood between its own
\* read and its transaction.
NoteRace(p, next) ==
  raced' = IF \E u \in Threads : job[u].at \in {"post2b", "postRefund"} \ {next}
                                 /\ job[u].po = p
           THEN raced \union {p}
           ELSE raced

\* Mutant of ReadSteps: only the handler's own step counts as terminal.
ReadStepsOwnOnly(t, place, next) ==
  LET p == job[t].po
      own == IF place = "read2b" THEN "step2b_fufilled" ELSE "refund"
  IN  /\ job[t].at = place
      /\ IF own \in steps[p]
         THEN Answer(t) /\ UNCHANGED raced
         ELSE Goto(t, next, p, steps[p]) /\ NoteRace(p, next)
      /\ UNCHANGED <<status, ledgerVars, acked>>

\* The SELECT of the order's steps, and what each handler concludes from it:
\* next is the transaction it goes on to, "post2b" or "postRefund".
ReadSteps(t, place, next) ==
  LET p == job[t].po
  IN  /\ job[t].at = place
      /\ \/ AnswerTerminal(t, p) /\ UNCHANGED raced
         \/ /\ {"refund", "step2b_fufilled"} \intersect steps[p] = {}
            /\ IF "step1_payin" \in steps[p]
               THEN Goto(t, next, p, steps[p]) /\ NoteRace(p, next)
               ELSE Answer(t) /\ UNCHANGED raced                     \* 400
            /\ UNCHANGED acked
      /\ UNCHANGED <<status, ledgerVars>>

ReadFor2b(t) == ReadSteps(t, "read2b", "post2b")

Post2b(t) ==
  LET p == job[t].po
  IN  /\ job[t].at = "post2b"
      /\ Insert(p, "step2b_fufilled", FulfilEntries(Amount[p]))
      /\ RaiseReadiness(p, "fufilled")
      /\ Ack(p, "step2b_fufilled")
      /\ Answer(t)
      /\ UNCHANGED <<status, refunds, raced>>

ReadForRefund(t) == ReadSteps(t, "readRefund", "postRefund")

\* Where the escrow goes back to was decided by the read, not by the transaction.
PostRefund(t) ==
  LET p == job[t].po
      payinCompleted == "step2a_payin-complete" \in job[t].saw
  IN  /\ job[t].at = "postRefund"
      /\ Insert(p, "refund", RefundEntries(Amount[p], payinCompleted))
      /\ refunds' = [refunds EXCEPT ![p] = @ + 1]
      /\ Ack(p, "refund")
      /\ Answer(t)
      /\ UNCHANGED <<status, readiness, payouts, raced>>

-----------------------------------------------------------------------------
\* How a transaction ends otherwise

\* The step each transaction inserts.
StepPosted(place) ==
  CASE place = "post2a" -> "step2a_payin-complete"
    [] place = "post2b" -> "step2b_fufilled"
    [] place = "postRefund" -> "refund"

\* except psycopg.errors.UniqueViolation: rolled back, and answered 200 as if a
\* concurrent caller had posted the step. The constraint that was violated is
\* not looked at: it is UNIQUE (payment_order_id, step), or the primary key of a
\* table whose id _snowflake_id() has drawn twice.
UniqueViolation(t) ==
  LET s == StepPosted(job[t].at)
      p == job[t].po
  IN  /\ job[t].at \in {"post2a", "post2b", "postRefund"}
      /\ s \in steps[p] \/ IdCollisions
      /\ Ack(p, s)
      /\ Answer(t)
      /\ UNCHANGED <<status, ledgerVars, raced>>

\* Mutant of Abandon: any psycopg.Error of the transaction is answered 200.
AbandonAsDone(t) ==
  /\ job[t].at \in {"post2a", "post2b", "postRefund"}
  /\ Ack(job[t].po, StepPosted(job[t].at))
  /\ Answer(t)
  /\ UNCHANGED <<status, ledgerVars, raced>>

\* A crash, a psycopg.Error (400) or a missing account (500) before the next
\* atomic step: the open transaction is rolled back, what was committed stays.
Abandon(t) ==
  /\ job[t].at # "idle"
  /\ Answer(t)
  /\ UNCHANGED <<status, ledgerVars, acked, raced>>

-----------------------------------------------------------------------------
\* orders-service, the other writer of order_payment (see OrderCheckout).
OrdersServiceWrites(p) ==
  /\ \/ /\ status[p] = "absent"
        /\ status' = [status EXCEPT ![p] = "pending"]
     \/ /\ status[p] = "pending"
        /\ status' = [status EXCEPT ![p] = "register_success"]
     \/ /\ status[p] # "absent"
        /\ status' = [status EXCEPT ![p] = "register_fail"]
  /\ UNCHANGED <<ledgerVars, acked, job, raced>>

\* payments-api calls back only about an attempt orders-service has registered,
\* so its row exists.
Registered(p) == status[p] # "absent"

Webhook(t, p) ==
  /\ Registered(p)
  /\ PayinFailed(t, p) \/ PostPayin(t, p) \/ ReadFor2a(t, p)

\* mobile-app's shipOrder and refund.
OrderRequest(t, o) == FindPaid(t, o, "read2b") \/ FindPaid(t, o, "readRefund")

Continue(t) ==
  \/ MarkPaid(t)
  \/ Post2a(t)
  \/ ReadFor2b(t)
  \/ Post2b(t)
  \/ ReadForRefund(t)
  \/ PostRefund(t)
  \/ UniqueViolation(t)

Next ==
  \/ \E p \in Payments : OrdersServiceWrites(p)
  \/ \E t \in Threads, p \in Payments : Webhook(t, p)
  \/ \E t \in Threads, o \in Orders : OrderRequest(t, o)
  \/ \E t \in Threads : Continue(t)
  \/ \E t \in Threads : Abandon(t)

Spec == Init /\ [][Next]_vars

-----------------------------------------------------------------------------
\* Properties

\* Every variable of the two databases and of the handlers has its type: a status is one the
\* CHECK constraint of order_payment allows.
TypeOK ==
  /\ status \in [Payments -> PaymentStatus]
  /\ steps \in [Payments -> SUBSET Step]
  /\ balance \in [Payments -> [Account -> Int]]
  /\ readiness \in [Payments -> SUBSET ReadinessFlag]
  /\ payouts \in [Payments -> Nat]
  /\ refunds \in [Payments -> Nat]
  /\ raced \subseteq Payments
  /\ acked \in [Payments -> SUBSET Step]
  /\ job \in [Threads -> Job]

Posted(p, s) == IF s \in steps[p] THEN 1 ELSE 0

\* An order's Payout is posted exactly once, by whichever of 2a and 2b commits
\* second, however their handlers interleave: the payout table itself has no
\* unique constraint, only the readiness row of the same transaction prevents
\* none or two.
PayoutExactlyOnce ==
  \A p \in Payments :
    payouts[p] = IF {"step2a_payin-complete", "step2b_fufilled"} \subseteq steps[p]
                 THEN 1 ELSE 0

\* The readiness row tells of exactly the steps that have been posted.
ReadinessAgrees ==
  \A p \in Payments :
    /\ "row" \in readiness[p] <=> "step1_payin" \in steps[p]
    /\ "payin_complete" \in readiness[p] <=> "step2a_payin-complete" \in steps[p]
    /\ "fufilled" \in readiness[p] <=> "step2b_fufilled" \in steps[p]

\* Every account's balance is explained by the steps posted, each counted once:
\* the sum of debits equals the sum of credits, concurrent deliveries of one
\* webhook never post an entry twice, and no handler posts entries without its
\* Transaction. psp and cash are taken together because a refund credits the one
\* or the other.
BalancesExplained ==
  \A p \in Payments :
    LET Moved(step) == IF step \in steps[p] THEN Amount[p] ELSE 0
        b == balance[p]
    IN  /\ b["escrow"] = Moved("step1_payin") - Moved("step2b_fufilled") - Moved("refund")
        /\ b["seller"] + b["income"] = Moved("step2b_fufilled")
        /\ b["psp"] + b["cash"] = Moved("refund") - Moved("step1_payin")

\* order-db never says payment_success of an attempt whose payin is not in
\* ledger-db, although the two databases are written one after the other.
PaidMeansPayin ==
  \A p \in Payments : status[p] = "payment_success" => "step1_payin" \in steps[p]

\* Every Refund row stands for one refund Transaction, so the CDC pipeline that
\* reads the refund table sends each refund to the provider once.
RefundRowPerRefund == \A p \in Payments : refunds[p] = Posted(p, "refund")

\* A 200 answer that names a step is only given when the step is posted. The
\* callers rely on it: payments-api files the payin under processed_payments.
AckedIsPosted == \A p \in Payments : acked[p] \subseteq steps[p]

\* Escrow released is never more than escrow held: an order is fulfilled or
\* refunded, not both.
EscrowNeverOverdrawn == \A p \in Payments : balance[p]["escrow"] >= 0

\* ... and the only way to lose that is for a 2b and a refund of one payment to
\* have stood between read and transaction at the same time: a sequence of 2b's
\* and refunds, crashes and redeliveries included, never overdraws.
OverdrawnOnlyByRace ==
  \A p \in Payments : balance[p]["escrow"] < 0 => p \in raced

\* The promise of AppendOnlyLedger.
NeedsOf == [s \in Step |-> IF s = "step1_payin" THEN {} ELSE {"step1_payin"}]

Ledger == INSTANCE AppendOnlyLedger
            WITH Needs <- NeedsOf,
                 PayoutOn <- {"step2a_payin-complete", "step2b_fufilled"}

\* service-1 implements the append-only ledger of payment orders.
LedgerImplemented == Ledger!Spec
=============================================================================
