------------------------ MODULE PaymentLedger_proofs ------------------------
(***************************************************************************)
(* Safety of service-1 for every set of orders, attempts, amounts and      *)
(* threads.                                                                *)
(*                                                                         *)
(* TypeInv fixes the types and what a busy thread refers to; the other     *)
(* invariants are inductive relative to it and to one another, in the      *)
(* order in which they are proved here.                                    *)
(***************************************************************************)
EXTENDS PaymentLedger, TLAPS

\* A busy thread works for a payment order.
JobPayment == \A t \in Threads : job[t].at # "idle" => job[t].po \in Payments

TypeInv == TypeOK /\ JobPayment

-----------------------------------------------------------------------------
\* The split of a fulfilled order loses no unit: SellerShare, nine tenths
\* rounded up, and IncomeShare, one tenth rounded down, add up to the amount.
LEMMA SplitIsExact ==
  ASSUME NEW a \in Nat
  PROVE  /\ SellerShare(a) \in Nat
         /\ IncomeShare(a) \in Nat
         /\ SellerShare(a) + IncomeShare(a) = a
<1> DEFINE q == a \div 10
           r == a % 10
<1>1. q \in Nat /\ r \in 0..9 /\ a = 10 * q + r
  OBVIOUS
<1>2. a * 9 + 9 = 10 * (9 * q + r) + (9 - r)
  BY <1>1
<1>3. (a * 9 + 9) \div 10 = 9 * q + r
  <2> DEFINE n == 9 * q + r
  <2>1. n \in Nat /\ 9 - r \in 0..9
    BY <1>1
  <2> HIDE DEF n
  <2>2. (10 * n + (9 - r)) \div 10 = n
    BY <2>1
  <2> QED  BY <1>2, <2>2 DEF n
<1> QED  BY <1>1, <1>3 DEF SellerShare, IncomeShare

\* The double entries of a step are integers on every account.
LEMMA EntriesType ==
  ASSUME NEW a \in Nat, NEW done
  PROVE  /\ PayinEntries(a) \in [Account -> Int]
         /\ PayinCompleteEntries(a) \in [Account -> Int]
         /\ FulfilEntries(a) \in [Account -> Int]
         /\ RefundEntries(a, done) \in [Account -> Int]
BY SplitIsExact DEF PayinEntries, PayinCompleteEntries, FulfilEntries,
                    RefundEntries, Account

\* What the insertion of a Transaction and its entries leaves behind.
LEMMA InsertType ==
  ASSUME NEW p \in Payments, NEW s \in Step, NEW e \in [Account -> Int],
         TypeOK, Insert(p, s, e)
  PROVE  /\ steps' \in [Payments -> SUBSET Step]
         /\ balance' \in [Payments -> [Account -> Int]]
BY DEF Insert, TypeOK

LEMMA RaiseReadinessType ==
  ASSUME NEW p \in Payments, NEW flag \in ReadinessFlag,
         TypeOK, RaiseReadiness(p, flag)
  PROVE  /\ readiness' \in [Payments -> SUBSET ReadinessFlag]
         /\ payouts' \in [Payments -> Nat]
BY DEF RaiseReadiness, TypeOK, ReadinessFlag

\* Sending a thread to its next place, and answering, keep the jobs well formed.
LEMMA GotoType ==
  ASSUME NEW t \in Threads, NEW place \in Place, NEW p \in Payments,
         NEW seen \in SUBSET Step, TypeInv, Goto(t, place, p, seen)
  PROVE  job' \in [Threads -> Job] /\ JobPayment'
BY DEF Goto, TypeInv, TypeOK, JobPayment, Job

LEMMA AnswerType ==
  ASSUME NEW t \in Threads, TypeInv, Answer(t)
  PROVE  job' \in [Threads -> Job] /\ JobPayment'
BY DEF Answer, IdleJob, TypeInv, TypeOK, JobPayment, Job, Place

LEMMA AckType ==
  ASSUME NEW p \in Payments, NEW s \in Step, TypeOK, Ack(p, s)
  PROVE  acked' \in [Payments -> SUBSET Step]
BY DEF Ack, TypeOK

\* The variables keep their types, and every busy thread works for a payment
\* order of the system.
THEOREM TypeCorrect == Spec => []TypeInv
<1>1. Init => TypeInv
  BY DEF Init, TypeInv, TypeOK, JobPayment, Job, IdleJob, Place, PaymentStatus
<1>2. TypeInv /\ [Next]_vars => TypeInv'
  <2> SUFFICES ASSUME TypeInv, [Next]_vars
               PROVE  TypeInv'
    OBVIOUS
  <2> USE ConstantsAssumption
  <2>0. /\ "step1_payin" \in Step /\ "step2a_payin-complete" \in Step
        /\ "step2b_fufilled" \in Step /\ "refund" \in Step
        /\ {} \in SUBSET Step
        /\ \A p \in Payments : Amount[p] \in Nat /\ steps[p] \in SUBSET Step
    BY DEF Step, TypeInv, TypeOK
  <2>1. ASSUME NEW p \in Payments, OrdersServiceWrites(p)
        PROVE  TypeInv'
    BY <2>1 DEF OrdersServiceWrites, ledgerVars, TypeInv, TypeOK, JobPayment, PaymentStatus
  <2>2. ASSUME NEW t \in Threads, NEW p \in Payments, PayinFailed(t, p)
        PROVE  TypeInv'
    BY <2>2 DEF PayinFailed, ledgerVars, TypeInv, TypeOK, JobPayment, PaymentStatus
  <2>3. ASSUME NEW t \in Threads, NEW p \in Payments, PostPayin(t, p)
        PROVE  TypeInv'
    <3>1. steps' \in [Payments -> SUBSET Step] /\ balance' \in [Payments -> [Account -> Int]]
      BY <2>0, <2>3, EntriesType, InsertType DEF PostPayin, TypeInv
    <3>2. job' \in [Threads -> Job] /\ JobPayment'
      BY <2>0, <2>3, GotoType DEF PostPayin, Place
    <3> QED  BY <2>3, <3>1, <3>2 DEF PostPayin, TypeInv, TypeOK, ReadinessFlag
  <2>4. ASSUME NEW t \in Threads, MarkPaid(t)
        PROVE  TypeInv'
    <3>1. job[t].po \in Payments
      BY <2>4 DEF MarkPaid, TypeInv, JobPayment
    <3>2. acked' \in [Payments -> SUBSET Step]
      BY <2>0, <2>4, <3>1, AckType DEF MarkPaid, TypeInv
    <3>3. job' \in [Threads -> Job] /\ JobPayment'
      BY <2>4, AnswerType DEF MarkPaid
    <3> QED  BY <2>4, <3>2, <3>3 DEF MarkPaid, ledgerVars, TypeInv, TypeOK, PaymentStatus
  <2>5. ASSUME NEW t \in Threads, NEW p \in Payments, ReadFor2a(t, p)
        PROVE  TypeInv'
    <3>1. acked' \in [Payments -> SUBSET Step]
      BY <2>0, <2>5, AckType DEF ReadFor2a, TypeInv, TypeOK
    <3>2. job' \in [Threads -> Job] /\ JobPayment'
      BY <2>0, <2>5, GotoType DEF ReadFor2a, Place, TypeInv, TypeOK, JobPayment
    <3> QED  BY <2>5, <3>1, <3>2 DEF ReadFor2a, ledgerVars, TypeInv, TypeOK
  <2>6. ASSUME NEW t \in Threads, Post2a(t)
        PROVE  TypeInv'
    <3>1. job[t].po \in Payments
      BY <2>6 DEF Post2a, TypeInv, JobPayment
    <3>2. steps' \in [Payments -> SUBSET Step] /\ balance' \in [Payments -> [Account -> Int]]
      BY <2>0, <2>6, <3>1, EntriesType, InsertType DEF Post2a, TypeInv
    <3>3. readiness' \in [Payments -> SUBSET ReadinessFlag] /\ payouts' \in [Payments -> Nat]
      BY <2>6, <3>1, RaiseReadinessType DEF Post2a, TypeInv, ReadinessFlag
    <3>4. acked' \in [Payments -> SUBSET Step]
      BY <2>0, <2>6, <3>1, AckType DEF Post2a, TypeInv
    <3>5. job' \in [Threads -> Job] /\ JobPayment'
      BY <2>6, AnswerType DEF Post2a
    <3> QED  BY <2>6, <3>2, <3>3, <3>4, <3>5 DEF Post2a, TypeInv, TypeOK
  <2>7. ASSUME NEW t \in Threads, NEW o \in Orders, NEW next \in {"read2b", "readRefund"},
               FindPaid(t, o, next)
        PROVE  TypeInv'
    <3>1. job' \in [Threads -> Job] /\ JobPayment'
      BY <2>0, <2>7, GotoType DEF FindPaid, Place
    <3> QED  BY <2>7, <3>1 DEF FindPaid, ledgerVars, TypeInv, TypeOK
  <2>8. ASSUME NEW t \in Threads, NEW place \in {"read2b", "readRefund"},
               NEW next \in {"post2b", "postRefund"}, ReadSteps(t, place, next)
        PROVE  TypeInv'
    <3>1. job[t].po \in Payments
      BY <2>8 DEF ReadSteps, TypeInv, JobPayment
    <3>2. acked' \in [Payments -> SUBSET Step]
      BY <2>0, <2>8, <3>1, AckType DEF ReadSteps, AnswerTerminal, TypeInv, TypeOK
    <3>3. job' \in [Threads -> Job] /\ JobPayment'
      BY <2>0, <2>8, <3>1, GotoType, AnswerType DEF ReadSteps, AnswerTerminal, Place
    <3>4. raced' \subseteq Payments
      BY <2>8, <3>1 DEF ReadSteps, NoteRace, TypeInv, TypeOK
    <3> QED  BY <2>8, <3>2, <3>3, <3>4 DEF ReadSteps, ledgerVars, TypeInv, TypeOK
  <2>9. ASSUME NEW t \in Threads, Post2b(t)
        PROVE  TypeInv'
    <3>1. job[t].po \in Payments
      BY <2>9 DEF Post2b, TypeInv, JobPayment
    <3>2. steps' \in [Payments -> SUBSET Step] /\ balance' \in [Payments -> [Account -> Int]]
      BY <2>0, <2>9, <3>1, EntriesType, InsertType DEF Post2b, TypeInv
    <3>3. readiness' \in [Payments -> SUBSET ReadinessFlag] /\ payouts' \in [Payments -> Nat]
      BY <2>9, <3>1, RaiseReadinessType DEF Post2b, TypeInv, ReadinessFlag
    <3>4. acked' \in [Payments -> SUBSET Step]
      BY <2>0, <2>9, <3>1, AckType DEF Post2b, TypeInv
    <3>5. job' \in [Threads -> Job] /\ JobPayment'
      BY <2>9, AnswerType DEF Post2b
    <3> QED  BY <2>9, <3>2, <3>3, <3>4, <3>5 DEF Post2b, TypeInv, TypeOK
  <2>10. ASSUME NEW t \in Threads, PostRefund(t)
         PROVE  TypeInv'
    <3>1. job[t].po \in Payments
      BY <2>10 DEF PostRefund, TypeInv, JobPayment
    <3> DEFINE completed == "step2a_payin-complete" \in job[t].saw
               entries == RefundEntries(Amount[job[t].po], completed)
    <3>0. /\ Insert(job[t].po, "refund", entries)
          /\ refunds' = [refunds EXCEPT ![job[t].po] = @ + 1]
          /\ UNCHANGED <<status, readiness, payouts, raced>>
      BY <2>10 DEF PostRefund
    <3>2. steps' \in [Payments -> SUBSET Step] /\ balance' \in [Payments -> [Account -> Int]]
      <4>1. entries \in [Account -> Int]
        BY <2>0, <3>1, EntriesType
      <4> HIDE DEF entries
      <4> QED  BY <2>0, <3>0, <3>1, <4>1, InsertType DEF TypeInv
    <3>3. acked' \in [Payments -> SUBSET Step]
      BY <2>0, <2>10, <3>1, AckType DEF PostRefund, TypeInv
    <3>4. job' \in [Threads -> Job] /\ JobPayment'
      BY <2>10, AnswerType DEF PostRefund
    <3>5. refunds' \in [Payments -> Nat]
      BY <3>0, <3>1 DEF TypeInv, TypeOK
    <3>6. UNCHANGED <<status, readiness, payouts, raced>>
      BY <3>0
    <3> HIDE DEF entries
    <3> QED  BY <3>2, <3>3, <3>4, <3>5, <3>6 DEF TypeInv, TypeOK
  <2>11. ASSUME NEW t \in Threads, UniqueViolation(t)
         PROVE  TypeInv'
    <3>1. job[t].po \in Payments /\ StepPosted(job[t].at) \in Step
      BY <2>11 DEF UniqueViolation, TypeInv, JobPayment, StepPosted, Step
    <3>2. acked' \in [Payments -> SUBSET Step]
      BY <2>11, <3>1, AckType DEF UniqueViolation, TypeInv
    <3>3. job' \in [Threads -> Job] /\ JobPayment'
      BY <2>11, AnswerType DEF UniqueViolation
    <3> QED  BY <2>11, <3>2, <3>3 DEF UniqueViolation, ledgerVars, TypeInv, TypeOK
  <2>12. ASSUME NEW t \in Threads, Abandon(t)
         PROVE  TypeInv'
    <3>1. job' \in [Threads -> Job] /\ JobPayment'
      BY <2>12, AnswerType DEF Abandon
    <3> QED  BY <2>12, <3>1 DEF Abandon, ledgerVars, TypeInv, TypeOK
  <2>13. CASE UNCHANGED vars
    BY <2>13 DEF vars, ledgerVars, TypeInv, TypeOK, JobPayment
  <2> QED
    BY <2>1, <2>2, <2>3, <2>4, <2>5, <2>6, <2>7, <2>8, <2>9, <2>10, <2>11, <2>12, <2>13
       DEF Next, Webhook, OrderRequest, Continue, ReadFor2b, ReadForRefund
<1> QED  BY <1>1, <1>2, PTL DEF Spec

\* The variables keep their types: no counter goes below zero, no thread is left
\* at a place without a payment order to work for.
THEOREM LedgerTypes == Spec => []TypeOK
BY TypeCorrect, PTL DEF TypeInv

-----------------------------------------------------------------------------
(***************************************************************************)
(* The steps of an order.  JobPayin and PayinFirst strengthen the checked  *)
(* invariants to an inductive one: a handler that is about to write has    *)
(* seen the step1_payin, so its UPDATE finds the readiness row, and a      *)
(* payin finds no step of the order, so the row it seeds is up to date.    *)
(***************************************************************************)
JobPayin ==
  \A t \in Threads : job[t].at \in {"mark", "post2a", "post2b", "postRefund"}
                       => "step1_payin" \in steps[job[t].po]

PayinFirst == \A p \in Payments : steps[p] # {} => "step1_payin" \in steps[p]

SafetyInv ==
  /\ JobPayin
  /\ PayinFirst
  /\ ReadinessAgrees
  /\ PayoutExactlyOnce
  /\ RefundRowPerRefund
  /\ PaidMeansPayin

\* SafetyInv holds initially and every step preserves it.
THEOREM SafetyInvariant == Spec => []SafetyInv
<1>1. Init => SafetyInv
  BY DEF Init, SafetyInv, JobPayin, PayinFirst, ReadinessAgrees, PayoutExactlyOnce,
         RefundRowPerRefund, PaidMeansPayin, Posted, IdleJob
<1>2. TypeInv /\ SafetyInv /\ [Next]_vars => SafetyInv'
  <2> SUFFICES ASSUME TypeInv, SafetyInv, [Next]_vars
               PROVE  SafetyInv'
    OBVIOUS
  <2> USE DEF SafetyInv, TypeInv, TypeOK, JobPayment
  <2>1. ASSUME NEW p \in Payments, OrdersServiceWrites(p)
        PROVE  SafetyInv'
    BY <2>1 DEF OrdersServiceWrites, ledgerVars, JobPayin, PayinFirst, ReadinessAgrees,
                PayoutExactlyOnce, RefundRowPerRefund, PaidMeansPayin, Posted
  <2>2. ASSUME NEW t \in Threads, NEW p \in Payments, PayinFailed(t, p)
        PROVE  SafetyInv'
    BY <2>2 DEF PayinFailed, ledgerVars, JobPayin, PayinFirst, ReadinessAgrees,
                PayoutExactlyOnce, RefundRowPerRefund, PaidMeansPayin, Posted
  <2>3. ASSUME NEW t \in Threads, NEW p \in Payments, PostPayin(t, p)
        PROVE  SafetyInv'
    <3>1. steps[p] = {} /\ steps' = [steps EXCEPT ![p] = {"step1_payin"}]
      BY <2>3 DEF PostPayin, Insert, PayinFirst
    <3>2. JobPayin' /\ PayinFirst' /\ PaidMeansPayin'
      BY <2>3, <3>1 DEF PostPayin, Goto, JobPayin, PayinFirst, PaidMeansPayin, Job
    <3>3. ReadinessAgrees' /\ PayoutExactlyOnce' /\ RefundRowPerRefund'
      BY <2>3, <3>1 DEF PostPayin, ReadinessAgrees, PayoutExactlyOnce,
                        RefundRowPerRefund, Posted
    <3> QED  BY <3>2, <3>3
  <2>4. ASSUME NEW t \in Threads, MarkPaid(t)
        PROVE  SafetyInv'
    BY <2>4 DEF MarkPaid, Answer, IdleJob, ledgerVars, JobPayin, PayinFirst, ReadinessAgrees,
                PayoutExactlyOnce, RefundRowPerRefund, PaidMeansPayin, Posted
  <2>5. ASSUME NEW t \in Threads, NEW p \in Payments, ReadFor2a(t, p)
        PROVE  SafetyInv'
    BY <2>5 DEF ReadFor2a, Goto, ledgerVars, JobPayin, PayinFirst, ReadinessAgrees,
                PayoutExactlyOnce, RefundRowPerRefund, PaidMeansPayin, Posted
  <2>6. ASSUME NEW t \in Threads, Post2a(t)
        PROVE  SafetyInv'
    <3> DEFINE p == job[t].po
    <3>1. /\ p \in Payments /\ "step1_payin" \in steps[p]
          /\ "step2a_payin-complete" \notin steps[p]
          /\ steps' = [steps EXCEPT ![p] = @ \union {"step2a_payin-complete"}]
          /\ RaiseReadiness(p, "payin_complete")
          /\ Answer(t)
          /\ UNCHANGED <<status, refunds>>
      BY <2>6 DEF Post2a, Insert, JobPayin
    <3> HIDE DEF p
    <3>2. JobPayin' /\ PayinFirst' /\ PaidMeansPayin' /\ RefundRowPerRefund'
      BY <3>1 DEF Answer, IdleJob, JobPayin, PayinFirst, PaidMeansPayin,
                  RefundRowPerRefund, Posted
    <3>3. readiness' = [readiness EXCEPT ![p] = @ \union {"payin_complete"}]
      BY <3>1 DEF RaiseReadiness, ReadinessAgrees
    <3>4. ReadinessAgrees'
      BY <3>1, <3>3 DEF ReadinessAgrees
    <3>5. PayoutExactlyOnce'
      BY <3>1, <3>3 DEF RaiseReadiness, ReadinessAgrees, PayoutExactlyOnce
    <3> QED  BY <3>2, <3>4, <3>5
  <2>7. ASSUME NEW t \in Threads, NEW o \in Orders, NEW next \in {"read2b", "readRefund"},
               FindPaid(t, o, next)
        PROVE  SafetyInv'
    BY <2>7 DEF FindPaid, Goto, ledgerVars, JobPayin, PayinFirst, ReadinessAgrees,
                PayoutExactlyOnce, RefundRowPerRefund, PaidMeansPayin, Posted
  <2>8. ASSUME NEW t \in Threads, NEW place \in {"read2b", "readRefund"},
               NEW next \in {"post2b", "postRefund"}, ReadSteps(t, place, next)
        PROVE  SafetyInv'
    <3> DEFINE p == job[t].po
    <3>0. /\ UNCHANGED steps
          /\ \/ Answer(t)
             \/ "step1_payin" \in steps[p] /\ Goto(t, next, p, steps[p])
      BY <2>8 DEF ReadSteps, AnswerTerminal, ledgerVars
    <3>1. JobPayin'
      <4>1. CASE Answer(t)
        BY <3>0, <4>1 DEF Answer, IdleJob, JobPayin
      <4>2. CASE "step1_payin" \in steps[p] /\ Goto(t, next, p, steps[p])
        BY <3>0, <4>2 DEF Goto, JobPayin
      <4> QED  BY <3>0, <4>1, <4>2
    <3> QED
      BY <2>8, <3>1 DEF ReadSteps, ledgerVars, PayinFirst, ReadinessAgrees,
                        PayoutExactlyOnce, RefundRowPerRefund, PaidMeansPayin, Posted
  <2>9. ASSUME NEW t \in Threads, Post2b(t)
        PROVE  SafetyInv'
    <3> DEFINE p == job[t].po
    <3>1. /\ p \in Payments /\ "step1_payin" \in steps[p]
          /\ "step2b_fufilled" \notin steps[p]
          /\ steps' = [steps EXCEPT ![p] = @ \union {"step2b_fufilled"}]
          /\ RaiseReadiness(p, "fufilled")
          /\ Answer(t)
          /\ UNCHANGED <<status, refunds>>
      BY <2>9 DEF Post2b, Insert, JobPayin
    <3> HIDE DEF p
    <3>2. JobPayin' /\ PayinFirst' /\ PaidMeansPayin' /\ RefundRowPerRefund'
      BY <3>1 DEF Answer, IdleJob, JobPayin, PayinFirst, PaidMeansPayin,
                  RefundRowPerRefund, Posted
    <3>3. readiness' = [readiness EXCEPT ![p] = @ \union {"fufilled"}]
      BY <3>1 DEF RaiseReadiness, ReadinessAgrees
    <3>4. ReadinessAgrees'
      BY <3>1, <3>3 DEF ReadinessAgrees
    <3>5. PayoutExactlyOnce'
      BY <3>1, <3>3 DEF RaiseReadiness, ReadinessAgrees, PayoutExactlyOnce
    <3> QED  BY <3>2, <3>4, <3>5
  <2>10. ASSUME NEW t \in Threads, PostRefund(t)
         PROVE  SafetyInv'
    <3> DEFINE p == job[t].po
    <3>1. /\ p \in Payments /\ "step1_payin" \in steps[p]
          /\ "refund" \notin steps[p]
          /\ steps' = [steps EXCEPT ![p] = @ \union {"refund"}]
          /\ refunds' = [refunds EXCEPT ![p] = @ + 1]
          /\ Answer(t)
          /\ UNCHANGED <<status, readiness, payouts>>
      BY <2>10 DEF PostRefund, Insert, JobPayin
    <3> HIDE DEF p
    <3>2. JobPayin' /\ PayinFirst' /\ PaidMeansPayin'
      BY <3>1 DEF Answer, IdleJob, JobPayin, PayinFirst, PaidMeansPayin
    <3>3. ReadinessAgrees'
      BY <3>1 DEF ReadinessAgrees
    <3>4. PayoutExactlyOnce'
      BY <3>1 DEF PayoutExactlyOnce
    <3>5. RefundRowPerRefund'
      BY <3>1 DEF RefundRowPerRefund, Posted
    <3> QED  BY <3>2, <3>3, <3>4, <3>5
  <2>11. ASSUME NEW t \in Threads, UniqueViolation(t) \/ Abandon(t)
         PROVE  SafetyInv'
    <3>1. UNCHANGED <<status, ledgerVars>> /\ Answer(t)
      BY <2>11 DEF UniqueViolation, Abandon
    <3> QED
      BY <3>1 DEF Answer, IdleJob, ledgerVars, JobPayin, PayinFirst, ReadinessAgrees,
                  PayoutExactlyOnce, RefundRowPerRefund, PaidMeansPayin, Posted
  <2>12. CASE UNCHANGED vars
    BY <2>12 DEF vars, ledgerVars, JobPayin, PayinFirst, ReadinessAgrees,
                 PayoutExactlyOnce, RefundRowPerRefund, PaidMeansPayin, Posted
  <2> QED
    BY <2>1, <2>2, <2>3, <2>4, <2>5, <2>6, <2>7, <2>8, <2>9, <2>10, <2>11, <2>12
       DEF Next, Webhook, OrderRequest, Continue, ReadFor2b, ReadForRefund
<1> QED  BY <1>1, <1>2, TypeCorrect, PTL DEF Spec
\* Every payment order has its payout posted exactly once, when it is ready.
THEOREM PayoutPostedExactlyOnce == Spec => []PayoutExactlyOnce
BY SafetyInvariant, PTL DEF SafetyInv

\* The readiness row agrees with the Transactions, although 2a and 2b raise its
\* two flags in transactions of their own.
THEOREM ReadinessRowAgrees == Spec => []ReadinessAgrees
BY SafetyInvariant, PTL DEF SafetyInv

\* order-db is never ahead of ledger-db, although they share no transaction.
THEOREM PaidHasPayin == Spec => []PaidMeansPayin
BY SafetyInvariant, PTL DEF SafetyInv

\* There is one Refund row, hence one refund message, per refund Transaction.
THEOREM RefundRowsMatch == Spec => []RefundRowPerRefund
BY SafetyInvariant, PTL DEF SafetyInv

-----------------------------------------------------------------------------
(***************************************************************************)
(* The money.  Explained(b, S, a) is BalancesExplained for one order with  *)
(* balances b, steps S and amount a; Moved is what a step moves.           *)
(***************************************************************************)
Moved(step, S, a) == IF step \in S THEN a ELSE 0

Explained(b, S, a) ==
  /\ b["escrow"] = Moved("step1_payin", S, a) - Moved("step2b_fufilled", S, a)
                     - Moved("refund", S, a)
  /\ b["seller"] + b["income"] = Moved("step2b_fufilled", S, a)
  /\ b["psp"] + b["cash"] = Moved("refund", S, a) - Moved("step1_payin", S, a)

\* The entries of a step move exactly what the step stands for.
LEMMA StepExplained ==
  ASSUME NEW b \in [Account -> Int], NEW S \in SUBSET Step, NEW a \in Nat, NEW done,
         Explained(b, S, a)
  PROVE  /\ "step1_payin" \notin S =>
              Explained([x \in Account |-> b[x] + PayinEntries(a)[x]],
                        S \union {"step1_payin"}, a)
         /\ "step2a_payin-complete" \notin S =>
              Explained([x \in Account |-> b[x] + PayinCompleteEntries(a)[x]],
                        S \union {"step2a_payin-complete"}, a)
         /\ "step2b_fufilled" \notin S =>
              Explained([x \in Account |-> b[x] + FulfilEntries(a)[x]],
                        S \union {"step2b_fufilled"}, a)
         /\ "refund" \notin S =>
              Explained([x \in Account |-> b[x] + RefundEntries(a, done)[x]],
                        S \union {"refund"}, a)
<1>1. /\ b["psp"] \in Int /\ b["cash"] \in Int /\ b["escrow"] \in Int
      /\ b["seller"] \in Int /\ b["income"] \in Int
      /\ \A step : Moved(step, S, a) \in Int
  BY DEF Account, Moved
<1>2. ASSUME "step1_payin" \notin S
      PROVE  Explained([x \in Account |-> b[x] + PayinEntries(a)[x]], S \union {"step1_payin"}, a)
  <2> DEFINE after == [x \in Account |-> b[x] + PayinEntries(a)[x]]
  <2>1. /\ after["psp"] = b["psp"] + (-a)
        /\ after["cash"] = b["cash"] + 0
        /\ after["escrow"] = b["escrow"] + a
        /\ after["seller"] = b["seller"] + 0
        /\ after["income"] = b["income"] + 0
    BY DEF PayinEntries, Account
  <2> HIDE DEF after
  <2>2. /\ Moved("step1_payin", S \union {"step1_payin"}, a) = Moved("step1_payin", S, a) + a
        /\ Moved("step2b_fufilled", S \union {"step1_payin"}, a) = Moved("step2b_fufilled", S, a)
        /\ Moved("refund", S \union {"step1_payin"}, a) = Moved("refund", S, a)
    BY <1>2 DEF Moved
  <2>3. /\ after["escrow"] = b["escrow"] + a
        /\ after["seller"] + after["income"] = b["seller"] + b["income"]
        /\ after["psp"] + after["cash"] = b["psp"] + b["cash"] + (-a)
    BY <1>1, <2>1
  <2>4. Explained(after, S \union {"step1_payin"}, a)
    BY <1>1, <2>2, <2>3 DEF Explained
  <2> QED  BY <2>4 DEF after
<1>3. ASSUME "step2a_payin-complete" \notin S
      PROVE  Explained([x \in Account |-> b[x] + PayinCompleteEntries(a)[x]], S \union {"step2a_payin-complete"}, a)
  <2> DEFINE after == [x \in Account |-> b[x] + PayinCompleteEntries(a)[x]]
  <2>1. /\ after["psp"] = b["psp"] + a
        /\ after["cash"] = b["cash"] + (-a)
        /\ after["escrow"] = b["escrow"] + 0
        /\ after["seller"] = b["seller"] + 0
        /\ after["income"] = b["income"] + 0
    BY DEF PayinCompleteEntries, Account
  <2> HIDE DEF after
  <2>2. /\ Moved("step1_payin", S \union {"step2a_payin-complete"}, a) = Moved("step1_payin", S, a)
        /\ Moved("step2b_fufilled", S \union {"step2a_payin-complete"}, a) = Moved("step2b_fufilled", S, a)
        /\ Moved("refund", S \union {"step2a_payin-complete"}, a) = Moved("refund", S, a)
    BY <1>3 DEF Moved
  <2>3. /\ after["escrow"] = b["escrow"] + 0
        /\ after["seller"] + after["income"] = b["seller"] + b["income"]
        /\ after["psp"] + after["cash"] = b["psp"] + b["cash"] + 0
    BY <1>1, <2>1
  <2>4. Explained(after, S \union {"step2a_payin-complete"}, a)
    BY <1>1, <2>2, <2>3 DEF Explained
  <2> QED  BY <2>4 DEF after
<1>4. ASSUME "step2b_fufilled" \notin S
      PROVE  Explained([x \in Account |-> b[x] + FulfilEntries(a)[x]], S \union {"step2b_fufilled"}, a)
  <2> DEFINE after == [x \in Account |-> b[x] + FulfilEntries(a)[x]]
  <2>1. /\ after["psp"] = b["psp"] + 0
        /\ after["cash"] = b["cash"] + 0
        /\ after["escrow"] = b["escrow"] + (-a)
        /\ after["seller"] = b["seller"] + SellerShare(a)
        /\ after["income"] = b["income"] + IncomeShare(a)
    BY DEF FulfilEntries, Account
  <2> HIDE DEF after
  <2>2. /\ Moved("step1_payin", S \union {"step2b_fufilled"}, a) = Moved("step1_payin", S, a)
        /\ Moved("step2b_fufilled", S \union {"step2b_fufilled"}, a) = Moved("step2b_fufilled", S, a) + a
        /\ Moved("refund", S \union {"step2b_fufilled"}, a) = Moved("refund", S, a)
    BY <1>4 DEF Moved
  <2> DEFINE seller == SellerShare(a)
             income == IncomeShare(a)
  <2>3. seller \in Int /\ income \in Int /\ seller + income = a
    BY SplitIsExact
  <2>4. /\ after["seller"] = b["seller"] + seller
        /\ after["income"] = b["income"] + income
    BY <2>1
  <2> HIDE DEF seller, income
  <2>5. after["seller"] + after["income"] = b["seller"] + b["income"] + a
    BY <1>1, <2>3, <2>4
  <2>6. /\ after["escrow"] = b["escrow"] + (-a)
        /\ after["psp"] + after["cash"] = b["psp"] + b["cash"]
    BY <1>1, <2>1
  <2>7. Explained(after, S \union {"step2b_fufilled"}, a)
    BY <1>1, <2>2, <2>5, <2>6 DEF Explained
  <2> QED  BY <2>7 DEF after
<1>5. ASSUME "refund" \notin S
      PROVE  Explained([x \in Account |-> b[x] + RefundEntries(a, done)[x]],
                       S \union {"refund"}, a)
  <2> DEFINE after == [x \in Account |-> b[x] + RefundEntries(a, done)[x]]
             holder == IF done THEN "cash" ELSE "psp"
  <2>1. /\ after["escrow"] = b["escrow"] + (-a)
        /\ after["seller"] = b["seller"] + 0
        /\ after["income"] = b["income"] + 0
        /\ after["psp"] = b["psp"] + (IF holder = "psp" THEN a ELSE 0)
        /\ after["cash"] = b["cash"] + (IF holder = "cash" THEN a ELSE 0)
        /\ holder = "cash" \/ holder = "psp"
    BY DEF RefundEntries, Account
  <2> HIDE DEF after, holder
  <2>2. /\ Moved("step1_payin", S \union {"refund"}, a) = Moved("step1_payin", S, a)
        /\ Moved("step2b_fufilled", S \union {"refund"}, a) = Moved("step2b_fufilled", S, a)
        /\ Moved("refund", S \union {"refund"}, a) = Moved("refund", S, a) + a
    BY <1>5 DEF Moved
  <2>3. after["psp"] + after["cash"] = b["psp"] + b["cash"] + a
    <3>1. CASE holder = "psp"
      BY <1>1, <2>1, <3>1
    <3>2. CASE holder = "cash"
      BY <1>1, <2>1, <3>2
    <3> QED  BY <2>1, <3>1, <3>2
  <2>4. Explained(after, S \union {"refund"}, a)
    <3>1. after["escrow"] = b["escrow"] + (-a) /\ after["seller"] = b["seller"] + 0
          /\ after["income"] = b["income"] + 0
      BY <2>1
    <3> QED  BY <1>1, <2>2, <2>3, <3>1 DEF Explained
  <2> QED  BY <2>4 DEF after
<1> QED  BY <1>2, <1>3, <1>4, <1>5

LEMMA ExplainedIsBalancesExplained ==
  BalancesExplained <=> \A p \in Payments : Explained(balance[p], steps[p], Amount[p])
BY DEF BalancesExplained, Explained, Moved

\* A transaction whose entries explain their step keeps every balance explained.
LEMMA InsertExplained ==
  ASSUME NEW p \in Payments, NEW s \in Step, NEW e,
         TypeOK, BalancesExplained, Insert(p, s, e),
         Explained([x \in Account |-> balance[p][x] + e[x]], steps[p] \union {s}, Amount[p])
  PROVE  BalancesExplained'
<1>1. /\ balance' = [balance EXCEPT ![p] = [x \in Account |-> balance[p][x] + e[x]]]
      /\ steps' = [steps EXCEPT ![p] = steps[p] \union {s}]
  BY DEF Insert
<1>2. \A q \in Payments : Explained(balance'[q], steps'[q], Amount[q])
  BY <1>1, ExplainedIsBalancesExplained DEF TypeOK
<1> QED  BY <1>2 DEF BalancesExplained, Explained, Moved

\* Every balance is what the order's steps say, each counted once: debits equal
\* credits, and no delivery of a webhook posts its entries twice.
THEOREM BalancesInvariant == Spec => []BalancesExplained
<1>1. Init => BalancesExplained
  BY DEF Init, BalancesExplained, Account
<1>2. TypeInv /\ BalancesExplained /\ [Next]_vars => BalancesExplained'
  <2> SUFFICES ASSUME TypeInv, BalancesExplained, [Next]_vars
               PROVE  BalancesExplained'
    OBVIOUS
  <2>1. TypeOK /\ JobPayment /\ ConstantsAssumption
    BY ConstantsAssumption DEF TypeInv
  <2>2. ASSUME NEW p \in Payments, NEW done
        PROVE  /\ balance[p] \in [Account -> Int] /\ steps[p] \in SUBSET Step
               /\ Amount[p] \in Nat /\ Explained(balance[p], steps[p], Amount[p])
    BY <2>1, ExplainedIsBalancesExplained DEF TypeOK, ConstantsAssumption
  <2>3. ASSUME UNCHANGED <<balance, steps>>
        PROVE  BalancesExplained'
    BY <2>3 DEF BalancesExplained
  <2>4. ASSUME NEW t \in Threads, NEW p \in Payments, PostPayin(t, p)
        PROVE  BalancesExplained'
    <3>1. Insert(p, "step1_payin", PayinEntries(Amount[p]))
      BY <2>4 DEF PostPayin
    <3>2. "step1_payin" \notin steps[p] /\ "step1_payin" \in Step
      BY <3>1 DEF Insert, Step
    <3>3. Explained([x \in Account |-> balance[p][x] + PayinEntries(Amount[p])[x]],
                    steps[p] \union {"step1_payin"}, Amount[p])
      BY <2>2, <3>2, StepExplained
    <3> QED  BY <2>1, <3>1, <3>2, <3>3, InsertExplained
  <2>5. ASSUME NEW t \in Threads, Post2a(t)
        PROVE  BalancesExplained'
    <3> DEFINE p == job[t].po
    <3>1. p \in Payments
      BY <2>1, <2>5 DEF Post2a, JobPayment
    <3>2. Insert(p, "step2a_payin-complete", PayinCompleteEntries(Amount[p]))
      BY <2>5 DEF Post2a
    <3> HIDE DEF p
    <3>3. "step2a_payin-complete" \notin steps[p] /\ "step2a_payin-complete" \in Step
      BY <3>2 DEF Insert, Step
    <3>4. Explained([x \in Account |-> balance[p][x] + PayinCompleteEntries(Amount[p])[x]],
                    steps[p] \union {"step2a_payin-complete"}, Amount[p])
      BY <2>2, <3>1, <3>3, StepExplained
    <3> QED  BY <2>1, <3>1, <3>2, <3>3, <3>4, InsertExplained
  <2>6. ASSUME NEW t \in Threads, Post2b(t)
        PROVE  BalancesExplained'
    <3> DEFINE p == job[t].po
    <3>1. p \in Payments
      BY <2>1, <2>6 DEF Post2b, JobPayment
    <3>2. Insert(p, "step2b_fufilled", FulfilEntries(Amount[p]))
      BY <2>6 DEF Post2b
    <3> HIDE DEF p
    <3>3. "step2b_fufilled" \notin steps[p] /\ "step2b_fufilled" \in Step
      BY <3>2 DEF Insert, Step
    <3>4. Explained([x \in Account |-> balance[p][x] + FulfilEntries(Amount[p])[x]],
                    steps[p] \union {"step2b_fufilled"}, Amount[p])
      BY <2>2, <3>1, <3>3, StepExplained
    <3> QED  BY <2>1, <3>1, <3>2, <3>3, <3>4, InsertExplained
  <2>7. ASSUME NEW t \in Threads, PostRefund(t)
        PROVE  BalancesExplained'
    <3> DEFINE p == job[t].po
               done == "step2a_payin-complete" \in job[t].saw
    <3>1. p \in Payments
      BY <2>1, <2>7 DEF PostRefund, JobPayment
    <3>2. Insert(p, "refund", RefundEntries(Amount[p], done))
      BY <2>7 DEF PostRefund
    <3> HIDE DEF p, done
    <3>3. "refund" \notin steps[p] /\ "refund" \in Step
      BY <3>2 DEF Insert, Step
    <3>4. Explained([x \in Account |-> balance[p][x] + RefundEntries(Amount[p], done)[x]],
                    steps[p] \union {"refund"}, Amount[p])
      BY <2>2, <3>1, <3>3, StepExplained
    <3> QED  BY <2>1, <3>1, <3>2, <3>3, <3>4, InsertExplained
  <2> QED
    BY <2>3, <2>4, <2>5, <2>6, <2>7
       DEF Next, Webhook, OrderRequest, Continue, ReadFor2b, ReadForRefund, ReadSteps,
           OrdersServiceWrites, PayinFailed, MarkPaid, ReadFor2a, FindPaid,
           UniqueViolation, Abandon, vars, ledgerVars
<1> QED  BY <1>1, <1>2, TypeCorrect, PTL DEF Spec
-----------------------------------------------------------------------------
\* While no two ids of a table are equal, an answer that says a step is posted is
\* true, whichever of two concurrent callers posted it.
THEOREM AckedInvariant ==
  ASSUME ~IdCollisions
  PROVE  Spec => []AckedIsPosted
<1>1. Init => AckedIsPosted
  BY DEF Init, AckedIsPosted
<1>2. TypeInv /\ SafetyInv /\ AckedIsPosted /\ [Next]_vars => AckedIsPosted'
  <2> SUFFICES ASSUME TypeInv, SafetyInv, AckedIsPosted, [Next]_vars
               PROVE  AckedIsPosted'
    OBVIOUS
  <2> USE DEF TypeInv, TypeOK, JobPayment
  <2>1. ASSUME NEW p \in Payments, NEW s, acked' = [acked EXCEPT ![p] = @ \union {s}],
               s \in steps'[p], \A q \in Payments : steps[q] \subseteq steps'[q]
        PROVE  AckedIsPosted'
    BY <2>1 DEF AckedIsPosted
  <2>2. ASSUME UNCHANGED acked, \A q \in Payments : steps[q] \subseteq steps'[q]
        PROVE  AckedIsPosted'
    BY <2>2 DEF AckedIsPosted
  <2>3. ASSUME NEW t \in Threads, NEW p \in Payments, PostPayin(t, p)
        PROVE  AckedIsPosted'
    BY <2>2, <2>3 DEF PostPayin, Insert
  <2>4. ASSUME NEW t \in Threads, MarkPaid(t)
        PROVE  AckedIsPosted'
    BY <2>1, <2>4 DEF MarkPaid, Ack, ledgerVars, SafetyInv, JobPayin
  <2>5. ASSUME NEW t \in Threads, NEW p \in Payments, ReadFor2a(t, p)
        PROVE  AckedIsPosted'
    BY <2>1, <2>2, <2>5 DEF ReadFor2a, Ack, ledgerVars
  <2>6. ASSUME NEW t \in Threads, Post2a(t)
        PROVE  AckedIsPosted'
    BY <2>1, <2>6 DEF Post2a, Insert, Ack
  <2>7. ASSUME NEW t \in Threads, NEW place \in {"read2b", "readRefund"},
               NEW next \in {"post2b", "postRefund"}, ReadSteps(t, place, next)
        PROVE  AckedIsPosted'
    BY <2>1, <2>2, <2>7 DEF ReadSteps, AnswerTerminal, Ack, ledgerVars
  <2>8. ASSUME NEW t \in Threads, Post2b(t)
        PROVE  AckedIsPosted'
    BY <2>1, <2>8 DEF Post2b, Insert, Ack
  <2>9. ASSUME NEW t \in Threads, PostRefund(t)
        PROVE  AckedIsPosted'
    BY <2>1, <2>9 DEF PostRefund, Insert, Ack
  <2>10. ASSUME NEW t \in Threads, UniqueViolation(t)
         PROVE  AckedIsPosted'
    BY <2>1, <2>10 DEF UniqueViolation, Ack, ledgerVars
  <2> QED
    BY <2>2, <2>3, <2>4, <2>5, <2>6, <2>7, <2>8, <2>9, <2>10
       DEF Next, Webhook, OrderRequest, Continue, ReadFor2b, ReadForRefund,
           OrdersServiceWrites, PayinFailed, FindPaid, Abandon, vars, ledgerVars
<1> QED  BY <1>1, <1>2, TypeCorrect, SafetyInvariant, PTL DEF Spec

-----------------------------------------------------------------------------
(***************************************************************************)
(* Fulfilment against refund.  As long as a payment has not raced, the     *)
(* read of a handler that is about to post still holds: no rival is about  *)
(* to post, and no rival has posted.                                       *)
(***************************************************************************)
RaceNoted ==
  \A t, u \in Threads :
    /\ job[t].at = "post2b" /\ job[u].at = "postRefund" /\ job[t].po = job[u].po
    => job[t].po \in raced

ReadHolds ==
  \A t \in Threads :
    /\ job[t].at = "post2b" /\ job[t].po \notin raced => "refund" \notin steps[job[t].po]
    /\ job[t].at = "postRefund" /\ job[t].po \notin raced
         => "step2b_fufilled" \notin steps[job[t].po]

OneTerminal ==
  \A p \in Payments \ raced : ~ {"refund", "step2b_fufilled"} \subseteq steps[p]

RaceInv == RaceNoted /\ ReadHolds /\ OneTerminal

\* Escrow is overdrawn by nothing but a race of a fulfilment with a refund.
THEOREM RacesOnly == Spec => []OverdrawnOnlyByRace
<1>1. Init => RaceInv
  BY DEF Init, RaceInv, RaceNoted, ReadHolds, OneTerminal, IdleJob
<1>2. TypeInv /\ RaceInv /\ [Next]_vars => RaceInv'
  <2> SUFFICES ASSUME TypeInv, RaceInv, [Next]_vars
               PROVE  RaceInv'
    OBVIOUS
  <2> USE DEF TypeInv, TypeOK, JobPayment
  <2>1. ASSUME UNCHANGED <<steps, raced, job>>
        PROVE  RaceInv'
    BY <2>1 DEF RaceInv, RaceNoted, ReadHolds, OneTerminal
  <2>2. ASSUME NEW t \in Threads, UNCHANGED <<steps, raced>>, Answer(t)
        PROVE  RaceInv'
    BY <2>2 DEF Answer, IdleJob, RaceInv, RaceNoted, ReadHolds, OneTerminal
  <2>3. ASSUME NEW t \in Threads, NEW p \in Payments, NEW seen, UNCHANGED <<steps, raced>>,
               NEW place \in {"mark", "post2a", "read2b", "readRefund"},
               Goto(t, place, p, seen)
        PROVE  RaceInv'
    BY <2>3 DEF Goto, RaceInv, RaceNoted, ReadHolds, OneTerminal
  <2>4. ASSUME NEW t \in Threads, NEW p \in Payments, PostPayin(t, p)
        PROVE  RaceInv'
    BY <2>4 DEF PostPayin, Insert, Goto, RaceInv, RaceNoted, ReadHolds, OneTerminal
  <2>5. ASSUME NEW t \in Threads, Post2a(t)
        PROVE  RaceInv'
    BY <2>5 DEF Post2a, Insert, Answer, IdleJob, RaceInv, RaceNoted, ReadHolds, OneTerminal
  <2>6. ASSUME NEW t \in Threads, ReadFor2b(t) \/ ReadForRefund(t)
        PROVE  RaceInv'
    <3>1. CASE Answer(t) /\ UNCHANGED <<steps, raced>>
      BY <2>2, <3>1
    <3>2. ASSUME NEW next \in {"post2b", "postRefund"}, NoteRace(job[t].po, next),
                 Goto(t, next, job[t].po, steps[job[t].po]), UNCHANGED steps,
                 {"refund", "step2b_fufilled"} \intersect steps[job[t].po] = {},
                 job[t].po \in Payments
          PROVE  RaceInv'
      <4> DEFINE p == job[t].po
      <4>1. /\ p \in Payments
            /\ job' = [job EXCEPT ![t] = [at |-> next, po |-> p, saw |-> steps[p]]]
            /\ "refund" \notin steps[p] /\ "step2b_fufilled" \notin steps[p]
        BY <3>2 DEF Goto
      <4>2. /\ raced \subseteq raced'
            /\ \A u \in Threads : job[u].at \in {"post2b", "postRefund"} \ {next}
                                   /\ job[u].po = p => p \in raced'
        BY <3>2 DEF NoteRace
      <4> HIDE DEF p
      <4>3. RaceNoted'
        BY <3>2, <4>1, <4>2 DEF RaceInv, RaceNoted
      <4>4. ReadHolds'
        BY <3>2, <4>1, <4>2 DEF RaceInv, ReadHolds
      <4>5. OneTerminal'
        BY <3>2, <4>2 DEF RaceInv, OneTerminal
      <4> QED  BY <4>3, <4>4, <4>5 DEF RaceInv
    <3> QED
      BY <2>6, <3>1, <3>2
         DEF ReadFor2b, ReadForRefund, ReadSteps, AnswerTerminal, ledgerVars
  <2>7. ASSUME NEW t \in Threads, Post2b(t)
        PROVE  RaceInv'
    BY <2>7 DEF Post2b, Insert, Answer, IdleJob, RaceInv, RaceNoted, ReadHolds, OneTerminal
  <2>8. ASSUME NEW t \in Threads, PostRefund(t)
        PROVE  RaceInv'
    BY <2>8 DEF PostRefund, Insert, Answer, IdleJob, RaceInv, RaceNoted, ReadHolds, OneTerminal
  <2> QED
    BY <2>1, <2>2, <2>3, <2>4, <2>5, <2>6, <2>7, <2>8
       DEF Next, Webhook, OrderRequest, Continue, OrdersServiceWrites, PayinFailed, MarkPaid,
           ReadFor2a, FindPaid, UniqueViolation, Abandon, vars, ledgerVars
<1>3. TypeInv /\ SafetyInv /\ BalancesExplained /\ RaceInv => OverdrawnOnlyByRace
  <2> SUFFICES ASSUME TypeInv, SafetyInv, BalancesExplained, RaceInv,
                      NEW p \in Payments, p \notin raced
               PROVE  ~ (balance[p]["escrow"] < 0)
    BY DEF OverdrawnOnlyByRace
  <2>1. /\ Amount[p] \in Nat
        /\ steps[p] # {} => "step1_payin" \in steps[p]
        /\ ~ {"refund", "step2b_fufilled"} \subseteq steps[p]
    BY ConstantsAssumption DEF SafetyInv, PayinFirst, RaceInv, OneTerminal
  <2>2. balance[p]["escrow"] = Moved("step1_payin", steps[p], Amount[p])
                                 - Moved("step2b_fufilled", steps[p], Amount[p])
                                 - Moved("refund", steps[p], Amount[p])
    BY DEF BalancesExplained, Moved
  <2> QED  BY <2>1, <2>2 DEF Moved
<1> QED  BY <1>1, <1>2, <1>3, TypeCorrect, SafetyInvariant, BalancesInvariant, PTL DEF Spec

-----------------------------------------------------------------------------
\* service-1 implements the append-only ledger: a step is posted at most once and
\* only after the payin, and the payout in the same transaction as the later of
\* step 2a and step 2b.
THEOREM LedgerRefinement == Spec => LedgerImplemented
<1>1. Init => Ledger!Init
  BY DEF Init, Ledger!Init
<1>2. TypeInv /\ SafetyInv /\ [Next]_vars => [Ledger!Next]_(Ledger!vars)
  <2> SUFFICES ASSUME TypeInv, SafetyInv, [Next]_vars
               PROVE  [Ledger!Next]_(Ledger!vars)
    OBVIOUS
  <2> USE DEF TypeInv, TypeOK, JobPayment
  <2>1. ASSUME UNCHANGED <<steps, payouts>>
        PROVE  [Ledger!Next]_(Ledger!vars)
    BY <2>1 DEF Ledger!vars
  <2>2. ASSUME NEW p \in Payments, NEW s \in Step, Ledger!Post(p, s)
        PROVE  [Ledger!Next]_(Ledger!vars)
    BY <2>2 DEF Ledger!Next
  <2>3. ASSUME NEW t \in Threads, NEW p \in Payments, PostPayin(t, p)
        PROVE  Ledger!Post(p, "step1_payin")
    BY <2>3 DEF PostPayin, Insert, Ledger!Post, NeedsOf, Step
  <2>4. ASSUME NEW t \in Threads, Post2a(t)
        PROVE  Ledger!Post(job[t].po, "step2a_payin-complete")
    <3> DEFINE p == job[t].po
    <3>1. /\ p \in Payments
          /\ "step1_payin" \in steps[p]
          /\ "step2a_payin-complete" \notin steps[p]
          /\ steps' = [steps EXCEPT ![p] = @ \union {"step2a_payin-complete"}]
          /\ RaiseReadiness(p, "payin_complete")
      BY <2>4 DEF Post2a, Insert, SafetyInv, JobPayin
    <3> HIDE DEF p
    <3>2. "row" \in readiness[p] /\ ("fufilled" \in readiness[p] <=> "step2b_fufilled" \in steps[p])
      BY <3>1 DEF SafetyInv, ReadinessAgrees
    <3>3. payouts' = IF "step2b_fufilled" \in steps[p]
                     THEN [payouts EXCEPT ![p] = @ + 1] ELSE payouts
      BY <3>1, <3>2 DEF RaiseReadiness
    <3>4. Ledger!Post(p, "step2a_payin-complete")
      BY <3>1, <3>3 DEF Ledger!Post, NeedsOf, Step
    <3> QED  BY <3>4 DEF p
  <2>5. ASSUME NEW t \in Threads, Post2b(t)
        PROVE  Ledger!Post(job[t].po, "step2b_fufilled")
    <3> DEFINE p == job[t].po
    <3>1. /\ p \in Payments
          /\ "step1_payin" \in steps[p]
          /\ "step2b_fufilled" \notin steps[p]
          /\ steps' = [steps EXCEPT ![p] = @ \union {"step2b_fufilled"}]
          /\ RaiseReadiness(p, "fufilled")
      BY <2>5 DEF Post2b, Insert, SafetyInv, JobPayin
    <3> HIDE DEF p
    <3>2. /\ "row" \in readiness[p]
          /\ "payin_complete" \in readiness[p] <=> "step2a_payin-complete" \in steps[p]
      BY <3>1 DEF SafetyInv, ReadinessAgrees
    <3>3. payouts' = IF "step2a_payin-complete" \in steps[p]
                     THEN [payouts EXCEPT ![p] = @ + 1] ELSE payouts
      BY <3>1, <3>2 DEF RaiseReadiness
    <3>4. Ledger!Post(p, "step2b_fufilled")
      BY <3>1, <3>3 DEF Ledger!Post, NeedsOf, Step
    <3> QED  BY <3>4 DEF p
  <2>6. ASSUME NEW t \in Threads, PostRefund(t)
        PROVE  Ledger!Post(job[t].po, "refund")
    <3>1. "step1_payin" \in steps[job[t].po]
      BY <2>6 DEF PostRefund, SafetyInv, JobPayin
    <3>2. /\ job[t].po \in Payments
          /\ "refund" \notin steps[job[t].po]
          /\ steps' = [steps EXCEPT ![job[t].po] = @ \union {"refund"}]
          /\ payouts' = payouts
      BY <2>6 DEF PostRefund, Insert
    <3> QED  BY <3>1, <3>2 DEF Ledger!Post, NeedsOf, Step
  <2> QED
    <3>1. ASSUME NEW t \in Threads, Post2a(t) \/ Post2b(t) \/ PostRefund(t)
          PROVE  [Ledger!Next]_(Ledger!vars)
      BY <2>2, <2>4, <2>5, <2>6, <3>1 DEF Step, Post2a, Post2b, PostRefund
    <3>2. ASSUME NEW t \in Threads, NEW p \in Payments, PostPayin(t, p)
          PROVE  [Ledger!Next]_(Ledger!vars)
      BY <2>2, <2>3, <3>2 DEF Step
    <3> QED
      BY <2>1, <3>1, <3>2
         DEF Next, Webhook, OrderRequest, Continue, ReadFor2b, ReadForRefund, ReadSteps,
             OrdersServiceWrites, PayinFailed, MarkPaid, ReadFor2a, FindPaid,
             UniqueViolation, Abandon, vars, ledgerVars
<1> QED  BY <1>1, <1>2, TypeCorrect, SafetyInvariant, PTL DEF Spec, LedgerImplemented, Ledger!Spec
=============================================================================
