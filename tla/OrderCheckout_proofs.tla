------------------------ MODULE OrderCheckout_proofs ------------------------
(***************************************************************************)
(* Safety of POST /checkout for every set of orders and threads, any       *)
(* number of attempts and restarts of payments-api.                        *)
(*                                                                         *)
(* SupersededIsClosed alone is not inductive: a thread that is about to    *)
(* insert attempt i must know that every earlier attempt is still closed   *)
(* (InsertAfterClosed), and a thread or a client that can write a row      *)
(* later must refer to one that exists (WritersHaveRow).                   *)
(***************************************************************************)
EXTENDS OrderCheckout, TLAPS

Closed == {"register_fail", "payment_success", "payment_fail"}

\* A busy thread works for a payment of the system.
CheckoutPayment ==
  \A t \in Threads : checkouts[t].at # "idle" => checkouts[t].po \in Payments

TypeInv == TypeOK /\ CheckoutPayment

-----------------------------------------------------------------------------
LEMMA GotoType ==
  ASSUME NEW t \in Threads, NEW place \in Place, NEW p \in Payments, NEW token \in Nat,
         TypeInv, Goto(t, place, p, token)
  PROVE  checkouts' \in [Threads -> Checkout] /\ CheckoutPayment'
BY DEF Goto, TypeInv, TypeOK, CheckoutPayment, Checkout

LEMMA AnswerType ==
  ASSUME NEW t \in Threads, TypeInv, Answer(t)
  PROVE  checkouts' \in [Threads -> Checkout] /\ CheckoutPayment'
BY DEF Answer, IdleCheckout, TypeInv, TypeOK, CheckoutPayment, Checkout, Place

LEMMA CreatePaymentType ==
  ASSUME NEW p \in Payments, TypeInv, CreatePayment(p) \/ UNCHANGED <<registered, minted>>
  PROVE  registered' \in [Payments -> Nat] /\ minted' \in Nat
BY DEF CreatePayment, TypeInv, TypeOK

LEMMA PairIsPayment ==
  ASSUME NEW o \in Orders, NEW i \in 1..MaxAttempts
  PROVE  <<o, i>> \in Payments
BY DEF Payments

\* The variables of the checkout keep their types.
THEOREM TypeCorrect == Spec => []TypeInv
<1> USE CheckoutAssumption
<1>1. Init => TypeInv
  BY DEF Init, TypeInv, TypeOK, CheckoutPayment, Checkout, IdleCheckout, Place, PaymentStatus
<1>2. TypeInv /\ [Next]_vars => TypeInv'
  <2> SUFFICES ASSUME TypeInv, [Next]_vars
               PROVE  TypeInv'
    OBVIOUS
  <2>1. ASSUME NEW t \in Threads, NEW o \in Orders, ReadAttempts(t, o)
        PROVE  TypeInv'
    <3>1. CASE FirstAttempt(t, o)
      <4>1. <<o, 1>> \in Payments
        BY PairIsPayment
      <4>2. checkouts' \in [Threads -> Checkout] /\ CheckoutPayment'
        BY <3>1, <4>1, GotoType DEF FirstAttempt, Place
      <4> QED  BY <2>1, <3>1, <4>2 DEF ReadAttempts, FirstAttempt, apiVars, TypeInv, TypeOK
    <3>2. ASSUME NEW i \in 1..MaxAttempts, NextAttempt(t, o, i)
          PROVE  TypeInv'
      <4>1. <<o, i + 1>> \in Payments
        BY <3>2, PairIsPayment DEF NextAttempt
      <4>2. checkouts' \in [Threads -> Checkout] /\ CheckoutPayment'
        BY <3>2, <4>1, GotoType DEF NextAttempt, Place
      <4> QED  BY <2>1, <3>2, <4>2 DEF ReadAttempts, NextAttempt, apiVars, TypeInv, TypeOK
    <3>3. ASSUME NEW p \in Payments, ReplayAttempt(p)
          PROVE  TypeInv'
      BY <2>1, <3>3 DEF ReadAttempts, ReplayAttempt, apiVars, TypeInv, TypeOK, CheckoutPayment
    <3>4. ASSUME NEW p \in Payments, ResumeAttempt(t, p)
          PROVE  TypeInv'
      <4>1. checkouts' \in [Threads -> Checkout] /\ CheckoutPayment'
        BY <3>4, GotoType DEF ResumeAttempt, Place
      <4> QED  BY <2>1, <3>4, <4>1 DEF ReadAttempts, ResumeAttempt, apiVars, TypeInv, TypeOK
    <3> QED  BY <2>1, <3>1, <3>2, <3>3, <3>4, PairIsPayment DEF ReadAttempts
  <2>2. ASSUME NEW t \in Threads, InsertAttempt(t)
        PROVE  TypeInv'
    <3>1. checkouts[t].po \in Payments
      BY <2>2 DEF InsertAttempt, TypeInv, CheckoutPayment
    <3>2. checkouts' \in [Threads -> Checkout] /\ CheckoutPayment'
      BY <2>2, <3>1, GotoType, AnswerType DEF InsertAttempt, Place
    <3> QED  BY <2>2, <3>1, <3>2 DEF InsertAttempt, apiVars, TypeInv, TypeOK, PaymentStatus
  <2>3. ASSUME NEW t \in Threads, RegisterReplied(t)
        PROVE  TypeInv'
    <3>1. checkouts[t].po \in Payments
      BY <2>3 DEF RegisterReplied, TypeInv, CheckoutPayment
    <3>2. registered' \in [Payments -> Nat] /\ minted' \in Nat
      BY <2>3, <3>1, CreatePaymentType DEF RegisterReplied
    <3>3. checkouts' \in [Threads -> Checkout] /\ CheckoutPayment'
      BY <2>3, <3>1, <3>2, GotoType DEF RegisterReplied, Place
    <3> QED  BY <2>3, <3>2, <3>3 DEF RegisterReplied, TypeInv, TypeOK
  <2>4. ASSUME NEW t \in Threads, RegisterFailed(t)
        PROVE  TypeInv'
    <3>1. checkouts[t].po \in Payments
      BY <2>4 DEF RegisterFailed, TypeInv, CheckoutPayment
    <3>2. registered' \in [Payments -> Nat] /\ minted' \in Nat
      BY <2>4, <3>1, CreatePaymentType DEF RegisterFailed
    <3>3. checkouts' \in [Threads -> Checkout] /\ CheckoutPayment'
      BY <2>4, <3>1, GotoType DEF RegisterFailed, Place
    <3> QED  BY <2>4, <3>2, <3>3 DEF RegisterFailed, TypeInv, TypeOK
  <2>5. ASSUME NEW t \in Threads, MarkRegisterFail(t)
        PROVE  TypeInv'
    <3>1. checkouts' \in [Threads -> Checkout] /\ CheckoutPayment'
      BY <2>5, AnswerType DEF MarkRegisterFail
    <3> QED  BY <2>5, <3>1 DEF MarkRegisterFail, apiVars, TypeInv, TypeOK, PaymentStatus
  <2>6. ASSUME NEW t \in Threads, CheckPending(t)
        PROVE  TypeInv'
    <3>1. checkouts[t].po \in Payments /\ checkouts[t].token \in Nat
      BY <2>6 DEF CheckPending, TypeInv, TypeOK, CheckoutPayment, Checkout
    <3>2. checkouts' \in [Threads -> Checkout] /\ CheckoutPayment'
      BY <2>6, <3>1, GotoType, AnswerType DEF CheckPending, Place
    <3> QED  BY <2>6, <3>2 DEF CheckPending, apiVars, TypeInv, TypeOK
  <2>7. ASSUME NEW t \in Threads, Settle(t)
        PROVE  TypeInv'
    <3>1. checkouts[t].po \in Payments /\ checkouts[t].token \in Nat
      BY <2>7 DEF Settle, TypeInv, TypeOK, CheckoutPayment, Checkout
    <3>2. checkouts' \in [Threads -> Checkout] /\ CheckoutPayment'
      BY <2>7, AnswerType DEF Settle
    <3> QED  BY <2>7, <3>1, <3>2 DEF Settle, apiVars, TypeInv, TypeOK, PaymentStatus
  <2>8. ASSUME NEW t \in Threads, Abandon(t)
        PROVE  TypeInv'
    <3>1. checkouts' \in [Threads -> Checkout] /\ CheckoutPayment'
      BY <2>8, AnswerType DEF Abandon
    <3> QED  BY <2>8, <3>1 DEF Abandon, apiVars, TypeInv, TypeOK
  <2>9. CASE ApiRestart
    BY <2>9 DEF ApiRestart, TypeInv, TypeOK, CheckoutPayment
  <2>10. ASSUME NEW p \in Payments, ServiceOneWrites(p)
         PROVE  TypeInv'
    BY <2>10 DEF ServiceOneWrites, Outcomes, apiVars, TypeInv, TypeOK, CheckoutPayment,
                 PaymentStatus
  <2>11. CASE UNCHANGED vars
    BY <2>11 DEF vars, apiVars, TypeInv, TypeOK, CheckoutPayment
  <2> QED
    BY <2>1, <2>2, <2>3, <2>4, <2>5, <2>6, <2>7, <2>8, <2>9, <2>10, <2>11
       DEF Next, OrdersService, Continue
<1> QED  BY <1>1, <1>2, PTL DEF Spec

\* In particular every row's status is one the CHECK constraint of order-db allows.
THEOREM CheckoutTypes == Spec => []TypeOK
BY TypeCorrect, PTL DEF TypeInv

-----------------------------------------------------------------------------
\* Whoever can write a row later refers to one that exists: a thread past its
\* INSERT, and a client that holds a token.
WritersHaveRow ==
  /\ \A t \in Threads : checkouts[t].at \notin {"idle", "insert"}
                           => status[checkouts[t].po] # "absent"
  /\ \A h \in held : status[h[1]] # "absent"

\* Any step keeps WritersHaveRow, and moves each row only forward.
LEMMA WritersHaveRowStep ==
  ASSUME TypeInv, WritersHaveRow, [Next]_vars
  PROVE  WritersHaveRow' /\ RowsOnlyAdvance
<1> USE DEF WritersHaveRow, TypeInv, TypeOK, CheckoutPayment
<1>1. ASSUME NEW t \in Threads, NEW o \in Orders, ReadAttempts(t, o)
      PROVE  WritersHaveRow' /\ RowsOnlyAdvance
  <2>1. UNCHANGED status
    BY <1>1 DEF ReadAttempts
  <2>2. RowsOnlyAdvance
    BY <2>1 DEF RowsOnlyAdvance
  <2>3. CASE FirstAttempt(t, o)
    BY <2>1, <2>2, <2>3 DEF FirstAttempt, Goto
  <2>4. ASSUME NEW i \in 1..MaxAttempts, NextAttempt(t, o, i)
        PROVE  WritersHaveRow'
    BY <2>1, <2>4 DEF NextAttempt, Goto
  <2>5. ASSUME NEW p \in Payments, ReplayAttempt(p)
        PROVE  WritersHaveRow'
    BY <2>1, <2>5 DEF ReplayAttempt
  <2>6. ASSUME NEW p \in Payments, ResumeAttempt(t, p)
        PROVE  WritersHaveRow'
    BY <2>1, <2>6 DEF ResumeAttempt, Goto
  <2> QED  BY <1>1, <2>2, <2>3, <2>4, <2>5, <2>6, PairIsPayment DEF ReadAttempts
<1>2. ASSUME NEW t \in Threads, InsertAttempt(t)
      PROVE  WritersHaveRow' /\ RowsOnlyAdvance
  <2> DEFINE p == checkouts[t].po
  <2>1. /\ p \in Payments /\ UNCHANGED held
        /\ \/ /\ status[p] = "absent"
              /\ status' = [status EXCEPT ![p] = "pending"]
              /\ Goto(t, "register", p, 0)
           \/ UNCHANGED status /\ Answer(t)
    BY <1>2 DEF InsertAttempt
  <2> HIDE DEF p
  <2>2. RowsOnlyAdvance
    BY <2>1 DEF RowsOnlyAdvance
  <2>3. \A q \in Payments : status[q] # "absent" => status'[q] # "absent"
    BY <2>1
  <2>4. \A h \in held' : status'[h[1]] # "absent"
    BY <2>1, <2>3
  <2>5. \A u \in Threads : checkouts'[u].at \notin {"idle", "insert"}
                              => status'[checkouts'[u].po] # "absent"
    BY <2>1, <2>3 DEF Goto, Answer, IdleCheckout
  <2> QED  BY <2>2, <2>4, <2>5
<1>3. ASSUME NEW t \in Threads, RegisterReplied(t) \/ RegisterFailed(t)
      PROVE  WritersHaveRow' /\ RowsOnlyAdvance
  BY <1>3 DEF RegisterReplied, RegisterFailed, Goto, RowsOnlyAdvance
<1>4. ASSUME NEW t \in Threads, MarkRegisterFail(t)
      PROVE  WritersHaveRow' /\ RowsOnlyAdvance
  BY <1>4 DEF MarkRegisterFail, Answer, IdleCheckout, RowsOnlyAdvance
<1>5. ASSUME NEW t \in Threads, CheckPending(t)
      PROVE  WritersHaveRow' /\ RowsOnlyAdvance
  BY <1>5 DEF CheckPending, Goto, Answer, IdleCheckout, RowsOnlyAdvance
<1>6. ASSUME NEW t \in Threads, Settle(t)
      PROVE  WritersHaveRow' /\ RowsOnlyAdvance
  BY <1>6 DEF Settle, Answer, IdleCheckout, RowsOnlyAdvance
<1>7. ASSUME NEW t \in Threads, Abandon(t)
      PROVE  WritersHaveRow' /\ RowsOnlyAdvance
  BY <1>7 DEF Abandon, Answer, IdleCheckout, RowsOnlyAdvance
<1>8. CASE ApiRestart
  BY <1>8 DEF ApiRestart, RowsOnlyAdvance
<1>9. ASSUME NEW p \in Payments, ServiceOneWrites(p)
      PROVE  WritersHaveRow' /\ RowsOnlyAdvance
  BY <1>9 DEF ServiceOneWrites, Outcomes, RowsOnlyAdvance
<1>10. CASE UNCHANGED vars
  BY <1>10 DEF vars, RowsOnlyAdvance
<1> QED
  BY <1>1, <1>2, <1>3, <1>4, <1>5, <1>6, <1>7, <1>8, <1>9, <1>10
     DEF Next, OrdersService, Continue

LEMMA WritersHaveRowInit == Init => WritersHaveRow
BY DEF Init, WritersHaveRow, IdleCheckout

\* No row goes back to pending, nor to registered from anything but pending, for
\* any number of concurrent checkouts: what PaymentLedger assumes of them.
THEOREM RowsAdvance == Spec => StatusOnlyAdvances
<1>1. TypeInv /\ WritersHaveRow /\ [Next]_vars => WritersHaveRow' /\ [RowsOnlyAdvance]_vars
  BY WritersHaveRowStep
<1> QED  BY <1>1, WritersHaveRowInit, TypeCorrect, PTL DEF Spec, StatusOnlyAdvances

-----------------------------------------------------------------------------
\* A thread that is about to insert an attempt finds every earlier one closed.
InsertAfterClosed ==
  \A t \in Threads : checkouts[t].at = "insert"
    => \A o \in Orders, i, k \in 1..MaxAttempts :
         checkouts[t].po = <<o, i>> /\ k < i => status[<<o, k>>] \in Closed

AttemptsInv == WritersHaveRow /\ InsertAfterClosed /\ SupersededIsClosed

\* A closed row stays closed, whichever thread writes it.
LEMMA ClosedStaysClosed ==
  ASSUME RowsOnlyAdvance, NEW p \in Payments, status[p] \in Closed
  PROVE  status'[p] \in Closed
BY DEF RowsOnlyAdvance, Closed

\* A step sends a thread to insert only where the earlier attempts are closed.
LEMMA InsertAfterClosedStep ==
  ASSUME TypeInv, AttemptsInv, [Next]_vars, RowsOnlyAdvance
  PROVE  InsertAfterClosed'
<1> SUFFICES ASSUME NEW u \in Threads, checkouts'[u].at = "insert",
                    NEW o \in Orders, NEW i \in 1..MaxAttempts, NEW k \in 1..MaxAttempts,
                    checkouts'[u].po = <<o, i>>, k < i
             PROVE  status'[<<o, k>>] \in Closed
  BY DEF InsertAfterClosed
<1> USE DEF TypeInv, TypeOK, CheckoutPayment
<1>1. <<o, k>> \in Payments
  BY PairIsPayment
<1>2. SUFFICES status[<<o, k>>] \in Closed
  BY <1>1, ClosedStaysClosed
<1>3. CASE checkouts'[u] = checkouts[u]
  BY <1>3 DEF AttemptsInv, InsertAfterClosed
<1>4. ASSUME NEW r \in Orders, ReadAttempts(u, r), checkouts'[u] # checkouts[u]
      PROVE  status[<<o, k>>] \in Closed
  <2>1. CASE FirstAttempt(u, r)
    <3>1. checkouts'[u].po = <<r, 1>>
      BY <2>1 DEF FirstAttempt, Goto
    <3>2. i = 1
      BY <3>1
    <3> QED  BY <3>2
  <2>2. ASSUME NEW j \in 1..MaxAttempts, NextAttempt(u, r, j)
        PROVE  status[<<o, k>>] \in Closed
    <3>1. checkouts'[u].po = <<r, j + 1>> /\ status[<<r, j>>] \in Closed
      BY <2>2 DEF NextAttempt, Goto, Closed
    <3>2. o = r /\ i = j + 1
      BY <3>1
    <3>3. status[<<o, j>>] # "absent" /\ (k = j \/ k < j)
      BY <3>1, <3>2 DEF Closed
    <3>4. k < j => status[<<o, k>>] \in Closed
      BY <3>3 DEF AttemptsInv, SupersededIsClosed, Closed
    <3> QED  BY <3>1, <3>2, <3>3, <3>4
  <2>3. ASSUME NEW p \in Payments, ReplayAttempt(p)
        PROVE  FALSE
    BY <1>4, <2>3 DEF ReplayAttempt
  <2>4. ASSUME NEW p \in Payments, ResumeAttempt(u, p)
        PROVE  FALSE
    BY <2>4 DEF ResumeAttempt, Goto
  <2> QED  BY <1>4, <2>1, <2>2, <2>3, <2>4, PairIsPayment DEF ReadAttempts
<1>5. checkouts'[u] = checkouts[u] \/ \E r \in Orders : ReadAttempts(u, r)
  <2>1. ASSUME NEW t \in Threads, NEW r \in Orders, ReadAttempts(t, r), t # u
        PROVE  checkouts'[u] = checkouts[u]
    BY <2>1 DEF ReadAttempts, FirstAttempt, NextAttempt, ReplayAttempt, ResumeAttempt, Goto
  <2>2. ASSUME NEW t \in Threads, Continue(t) \/ Abandon(t)
        PROVE  checkouts'[u] = checkouts[u]
    BY <2>2 DEF Continue, InsertAttempt, RegisterReplied, RegisterFailed, MarkRegisterFail,
                CheckPending, Settle, Abandon, Goto, Answer, IdleCheckout
  <2>3. ASSUME \/ ApiRestart
               \/ \E p \in Payments : ServiceOneWrites(p)
               \/ UNCHANGED vars
        PROVE  checkouts'[u] = checkouts[u]
    BY <2>3 DEF ApiRestart, ServiceOneWrites, vars
  <2> QED  BY <2>1, <2>2, <2>3 DEF Next, OrdersService
<1> QED  BY <1>3, <1>4, <1>5

\* A row comes into being only by the INSERT of its attempt.
LEMMA NewRowStep ==
  ASSUME TypeInv, AttemptsInv, [Next]_vars,
         NEW p \in Payments, status[p] = "absent", status'[p] # "absent"
  PROVE  \E t \in Threads : checkouts[t].at = "insert" /\ checkouts[t].po = p
<1> USE DEF TypeInv, TypeOK, CheckoutPayment
<1>1. ASSUME NEW t \in Threads, InsertAttempt(t)
      PROVE  checkouts[t].at = "insert" /\ checkouts[t].po = p
  BY <1>1 DEF InsertAttempt
<1>2. ASSUME NEW t \in Threads, MarkRegisterFail(t) \/ Settle(t)
      PROVE  FALSE
  BY <1>2 DEF MarkRegisterFail, Settle, AttemptsInv, WritersHaveRow
<1>3. ASSUME NEW q \in Payments, ServiceOneWrites(q)
      PROVE  FALSE
  BY <1>3 DEF ServiceOneWrites, AttemptsInv, WritersHaveRow
<1>4. ASSUME UNCHANGED status
      PROVE  FALSE
  BY <1>4
<1> QED
  BY <1>1, <1>2, <1>3, <1>4
     DEF Next, OrdersService, Continue, ReadAttempts, RegisterReplied, RegisterFailed,
         CheckPending, Abandon, ApiRestart, vars

\* An order has one open attempt: a superseded one is never opened again.
THEOREM SupersededStaysClosed == Spec => []SupersededIsClosed
<1>1. Init => AttemptsInv
  BY WritersHaveRowInit, PairIsPayment
     DEF Init, AttemptsInv, InsertAfterClosed, SupersededIsClosed, IdleCheckout
<1>2. TypeInv /\ AttemptsInv /\ [Next]_vars => AttemptsInv'
  <2> SUFFICES ASSUME TypeInv, AttemptsInv, [Next]_vars
               PROVE  AttemptsInv'
    OBVIOUS
  <2>1. WritersHaveRow' /\ RowsOnlyAdvance
    BY WritersHaveRowStep DEF AttemptsInv
  <2>2. InsertAfterClosed'
    BY <2>1, InsertAfterClosedStep
  <2>3. ASSUME NEW o \in Orders, NEW i \in 1..MaxAttempts, NEW j \in 1..MaxAttempts,
               i < j, status'[<<o, j>>] # "absent"
        PROVE  status'[<<o, i>>] \in Closed
    <3>1. <<o, i>> \in Payments /\ <<o, j>> \in Payments
      BY PairIsPayment
    <3>2. SUFFICES status[<<o, i>>] \in Closed
      BY <2>1, <3>1, ClosedStaysClosed
    <3>3. CASE status[<<o, j>>] # "absent"
      BY <2>3, <3>3 DEF AttemptsInv, SupersededIsClosed, Closed
    <3>4. CASE status[<<o, j>>] = "absent"
      <4>1. PICK t \in Threads : checkouts[t].at = "insert" /\ checkouts[t].po = <<o, j>>
        BY <2>3, <3>1, <3>4, NewRowStep
      <4> QED  BY <2>3, <4>1 DEF AttemptsInv, InsertAfterClosed
    <3> QED  BY <3>3, <3>4
  <2>4. SupersededIsClosed'
    BY <2>3 DEF SupersededIsClosed, Closed
  <2> QED  BY <2>1, <2>2, <2>4 DEF AttemptsInv
<1>3. AttemptsInv => SupersededIsClosed
  BY DEF AttemptsInv
<1> QED  BY <1>1, <1>2, <1>3, TypeCorrect, PTL DEF Spec

-----------------------------------------------------------------------------
(***************************************************************************)
(* One token per attempt.  While payments-api keeps its memory, the token  *)
(* it has registered for p is the one that every row, every handler and    *)
(* every client of p has.                                                  *)
(***************************************************************************)
IsTokenOf(p, token) == token = registered[p] /\ registered[p] # 0

RowsHoldToken ==
  \A p \in Payments : status[p] = "register_success" => IsTokenOf(p, rowToken[p])

HandlersHoldToken ==
  \A t \in Threads : checkouts[t].at \in {"check", "settle"} =>
                        IsTokenOf(checkouts[t].po, checkouts[t].token)

ClientsHoldToken == \A p \in Payments, n \in Nat : <<p, n>> \in held => IsTokenOf(p, n)

TokenInv == restarts = 0 => RowsHoldToken /\ HandlersHoldToken /\ ClientsHoldToken

\* Registering p again does not change a token it has.
LEMMA CreatePaymentKeeps ==
  ASSUME NEW p \in Payments, TypeInv, CreatePayment(p) \/ UNCHANGED <<registered, minted>>
  PROVE  /\ \A q \in Payments : registered[q] # 0 => registered'[q] = registered[q]
         /\ CreatePayment(p) => registered'[p] # 0
BY DEF CreatePayment, TypeInv, TypeOK

\* The clients of one attempt hold one token as long as payments-api does not
\* restart: a lost answer, a retry or a concurrent checkout never mints another.
THEOREM TokenIsUnique == Spec => []OneTokenPerAttempt
<1>1. Init => TokenInv
  BY DEF Init, TokenInv, RowsHoldToken, HandlersHoldToken, ClientsHoldToken, IdleCheckout
<1>2. TypeInv /\ TokenInv /\ [Next]_vars => TokenInv'
  <2> SUFFICES ASSUME TypeInv, TokenInv, [Next]_vars, restarts' = 0
               PROVE  (RowsHoldToken /\ HandlersHoldToken /\ ClientsHoldToken)'
    BY DEF TokenInv
  <2> USE DEF TypeInv, TypeOK, CheckoutPayment
  <2>0. restarts = 0 /\ ~ApiRestart
    BY DEF Next, OrdersService, ReadAttempts, Continue, InsertAttempt, RegisterReplied,
           RegisterFailed, MarkRegisterFail, CheckPending, Settle, Abandon, ApiRestart,
           ServiceOneWrites, vars, apiVars
  <2>1. RowsHoldToken /\ HandlersHoldToken /\ ClientsHoldToken
    BY <2>0 DEF TokenInv
  <2> USE DEF RowsHoldToken, HandlersHoldToken, ClientsHoldToken, IsTokenOf
  <2>2. ASSUME NEW t \in Threads, NEW o \in Orders, ReadAttempts(t, o)
        PROVE  (RowsHoldToken /\ HandlersHoldToken /\ ClientsHoldToken)'
    <3>1. UNCHANGED <<status, rowToken, registered>>
      BY <2>2 DEF ReadAttempts, apiVars
    <3>2. \A i \in 1..MaxAttempts : <<o, i>> \in Payments
      BY PairIsPayment
    <3>3. HandlersHoldToken'
      <4>1. ASSUME NEW place \in {"insert", "register"}, NEW p, Goto(t, place, p, 0)
            PROVE  HandlersHoldToken'
        BY <2>1, <3>1, <4>1 DEF Goto
      <4>2. CASE FirstAttempt(t, o)
        BY <4>1, <4>2 DEF FirstAttempt
      <4>3. ASSUME NEW i \in 1..MaxAttempts,
                   NextAttempt(t, o, i) \/ ResumeAttempt(t, <<o, i>>)
            PROVE  HandlersHoldToken'
        BY <4>1, <4>3 DEF NextAttempt, ResumeAttempt
      <4>4. ASSUME NEW i \in 1..MaxAttempts, ReplayAttempt(<<o, i>>)
            PROVE  HandlersHoldToken'
        BY <2>1, <3>1, <4>4 DEF ReplayAttempt
      <4> QED  BY <2>2, <4>2, <4>3, <4>4 DEF ReadAttempts
    <3>4. ClientsHoldToken'
      <4>1. CASE held' = held
        BY <2>1, <3>1, <4>1
      <4>2. ASSUME NEW i \in 1..MaxAttempts, ReplayAttempt(<<o, i>>)
            PROVE  ClientsHoldToken'
        <5> DEFINE p == <<o, i>>
        <5>0. p \in Payments
          BY <3>2
        <5>1. ReplayAttempt(p)
          BY <4>2
        <5> HIDE DEF p
        <5>2. \/ held' = held
              \/ status[p] = "register_success" /\ held' = held \union {<<p, rowToken[p]>>}
          BY <5>1 DEF ReplayAttempt
        <5>3. status[p] = "register_success" => IsTokenOf(p, rowToken[p])
          BY <2>1, <5>0
        <5> QED  BY <2>1, <3>1, <5>2, <5>3
      <4> QED
        BY <2>2, <4>1, <4>2 DEF ReadAttempts, FirstAttempt, NextAttempt, ResumeAttempt
    <3> QED  BY <2>1, <3>1, <3>3, <3>4
  <2>3. ASSUME NEW t \in Threads, InsertAttempt(t) \/ MarkRegisterFail(t) \/ Abandon(t) \/ CheckPending(t)
        PROVE  (RowsHoldToken /\ HandlersHoldToken /\ ClientsHoldToken)'
    BY <2>1, <2>3
       DEF InsertAttempt, MarkRegisterFail, Abandon, CheckPending, Goto, Answer, IdleCheckout, apiVars
  <2>4. ASSUME NEW t \in Threads, RegisterReplied(t) \/ RegisterFailed(t)
        PROVE  (RowsHoldToken /\ HandlersHoldToken /\ ClientsHoldToken)'
    <3> DEFINE p == checkouts[t].po
    <3>1. /\ p \in Payments
          /\ UNCHANGED <<status, rowToken, held>>
          /\ CreatePayment(p) \/ UNCHANGED <<registered, minted>>
          /\ \/ CreatePayment(p) /\ Goto(t, "check", p, registered'[p])
             \/ Goto(t, "fail", p, 0)
      BY <2>4 DEF RegisterReplied, RegisterFailed
    <3> HIDE DEF p
    <3>2. /\ \A q \in Payments : registered[q] # 0 => registered'[q] = registered[q]
          /\ CreatePayment(p) => registered'[p] # 0
      BY <3>1, CreatePaymentKeeps
    <3>3. RowsHoldToken' /\ ClientsHoldToken'
      BY <2>1, <3>1, <3>2
    <3>4. ASSUME NEW u \in Threads, checkouts'[u].at \in {"check", "settle"}
          PROVE  IsTokenOf(checkouts[u].po, checkouts[u].token)'
      <4>1. CASE u = t
        BY <3>1, <3>2, <3>4, <4>1 DEF Goto
      <4>2. CASE u # t
        <5>1. checkouts'[u] = checkouts[u]
          BY <3>1, <4>2 DEF Goto
        <5>2. checkouts[u].po \in Payments
          BY <3>4, <5>1
        <5> QED  BY <2>1, <3>2, <3>4, <5>1, <5>2
      <4> QED  BY <4>1, <4>2
    <3> QED  BY <3>3, <3>4
  <2>5. ASSUME NEW t \in Threads, Settle(t)
        PROVE  (RowsHoldToken /\ HandlersHoldToken /\ ClientsHoldToken)'
    <3> DEFINE p == checkouts[t].po
               n == checkouts[t].token
    <3>1. /\ p \in Payments /\ n \in Nat /\ IsTokenOf(p, n)
          /\ UNCHANGED registered
          /\ held' = held \union {<<p, n>>}
          /\ \/ UNCHANGED <<status, rowToken>>
             \/ /\ status' = [status EXCEPT ![p] = "register_success"]
                /\ rowToken' = [rowToken EXCEPT ![p] = n]
      BY <2>1, <2>5 DEF Settle, apiVars, Checkout
    <3> HIDE DEF p, n
    <3>2. RowsHoldToken' /\ ClientsHoldToken'
      BY <2>1, <3>1
    <3>3. HandlersHoldToken'
      BY <2>1, <2>5, <3>1 DEF Settle, Answer, IdleCheckout
    <3> QED  BY <3>2, <3>3
  <2>6. ASSUME NEW p \in Payments, ServiceOneWrites(p)
        PROVE  (RowsHoldToken /\ HandlersHoldToken /\ ClientsHoldToken)'
    BY <2>1, <2>6 DEF ServiceOneWrites, Outcomes, apiVars
  <2>7. CASE UNCHANGED vars
    BY <2>1, <2>7 DEF vars, apiVars
  <2> QED
    BY <2>0, <2>2, <2>3, <2>4, <2>5, <2>6, <2>7 DEF Next, OrdersService, Continue
<1>3. TypeInv /\ TokenInv => OneTokenPerAttempt
  <2> SUFFICES ASSUME TypeInv, TokenInv, restarts = 0, NEW h \in held, NEW g \in held,
                      h[1] = g[1]
               PROVE  h[2] = g[2]
    BY DEF OneTokenPerAttempt
  <2>1. /\ h[1] \in Payments /\ h[2] \in Nat /\ h = <<h[1], h[2]>>
        /\ g[1] \in Payments /\ g[2] \in Nat /\ g = <<g[1], g[2]>>
    BY DEF TypeInv, TypeOK
  <2> QED  BY <2>1 DEF TokenInv, ClientsHoldToken, IsTokenOf
<1> QED  BY <1>1, <1>2, <1>3, TypeCorrect, PTL DEF Spec
=============================================================================
