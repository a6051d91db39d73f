--------------------------- MODULE OrderCheckout ----------------------------
(***************************************************************************)
(* orders-service: POST /checkout starts or resumes the payment of an      *)
(* order.  Each request runs in a thread of its own over an autocommit     *)
(* connection, so every statement is an atomic step and the rows a handler *)
(* has read may be stale when it writes.  The registration at payments-api *)
(* is an HTTP call that can fail before or after it has taken effect.      *)
(*                                                                         *)
(* A token is a number: the n-th token payments-api has minted; 0 is none. *)
(***************************************************************************)
EXTENDS Naturals, FiniteSets

CONSTANTS
  Orders,        \* the orders of order-db
  MaxAttempts,   \* bound: attempts per order
  Threads,       \* concurrent checkouts
  MaxRestarts,   \* bound: restarts of payments-api
  Declines,      \* whether service-1 is ever told that a known attempt failed
  None           \* no payment order

ASSUME CheckoutAssumption ==
  /\ MaxAttempts \in Nat \ {0}
  /\ Declines \in BOOLEAN
  /\ MaxRestarts \in Nat
  /\ None \notin Orders \X (1..MaxAttempts)

\* OrderPayment.id is `<order_id>:<attempt_idx>`.
Payments == Orders \X (1..MaxAttempts)

PaymentStatus == {"absent", "pending", "register_success", "register_fail",
                  "payment_success", "payment_fail"}

\* Where a checkout stands between two atomic steps.
Place == {"idle", "insert", "register", "fail", "check", "settle"}

VARIABLES
  status,      \* order-db: status[p] of the OrderPayment row, "absent" if none
  rowToken,    \* order-db: OrderPayment.token
  registered,  \* payments-api: registered[p], the token of idempotency key p
  minted,      \* payments-api: how many tokens were minted
  restarts,    \* how often payments-api has restarted
  held,        \* <<p, token>> answered to a client (history)
  checkouts    \* checkouts[t]: the request thread t serves

apiVars == <<registered, minted, restarts>>
vars == <<status, rowToken, apiVars, held, checkouts>>

Checkout == [at : Place, po : Payments \union {None}, token : Nat]
IdleCheckout == [at |-> "idle", po |-> None, token |-> 0]

Init ==
  /\ status = [p \in Payments |-> "absent"]
  /\ rowToken = [p \in Payments |-> 0]
  /\ registered = [p \in Payments |-> 0]
  /\ minted = 0
  /\ restarts = 0
  /\ held = {}
  /\ checkouts = [t \in Threads |-> IdleCheckout]

Goto(t, place, p, token) ==
  checkouts' = [checkouts EXCEPT ![t] = [at |-> place, po |-> p, token |-> token]]

Answer(t) == checkouts' = [checkouts EXCEPT ![t] = IdleCheckout]

-----------------------------------------------------------------------------
\* checkout: the order's attempts, oldest first, and what the last one asks for.

Attempts(o) == {i \in 1..MaxAttempts : status[<<o, i>>] # "absent"}

IsLast(o, i) == i \in Attempts(o) /\ \A j \in Attempts(o) : j <= i

\* No attempt yet: the first one.
FirstAttempt(t, o) ==
  /\ Attempts(o) = {}
  /\ Goto(t, "insert", <<o, 1>>, 0)
  /\ UNCHANGED held

\* The last attempt failed: the next one.
NextAttempt(t, o, i) ==
  /\ status[<<o, i>>] \in {"register_fail", "payment_fail"}
  /\ i < MaxAttempts
  /\ Goto(t, "insert", <<o, i + 1>>, 0)
  /\ UNCHANGED held

\* The last attempt is registered or paid: replay its state.
ReplayAttempt(p) ==
  /\ \/ status[p] = "payment_success" /\ UNCHANGED held
     \/ status[p] = "register_success" /\ held' = held \union {<<p, rowToken[p]>>}
  /\ UNCHANGED checkouts

\* The last attempt is pending: register it again under the same key.
ResumeAttempt(t, p) ==
  /\ status[p] = "pending"
  /\ Goto(t, "register", p, 0)
  /\ UNCHANGED held

ReadAttempts(t, o) ==
  /\ checkouts[t].at = "idle"
  /\ \/ FirstAttempt(t, o)
     \/ \E i \in 1..MaxAttempts :
          /\ IsLast(o, i)
          /\ NextAttempt(t, o, i) \/ ReplayAttempt(<<o, i>>) \/ ResumeAttempt(t, <<o, i>>)
  /\ UNCHANGED <<status, rowToken, apiVars>>

-----------------------------------------------------------------------------
\* _checkout_create_order_payment

\* Mutant of InsertAttempt: INSERT ... ON CONFLICT DO UPDATE SET status = 'pending'.
UpsertAttempt(t) ==
  LET p == checkouts[t].po
  IN  /\ checkouts[t].at = "insert"
      /\ status' = [status EXCEPT ![p] = "pending"]
      /\ Goto(t, "register", p, 0)
      /\ UNCHANGED <<rowToken, apiVars, held>>

\* The INSERT of the pending row; the loser of two concurrent ones runs into the
\* primary key and answers 400.
InsertAttempt(t) ==
  LET p == checkouts[t].po
  IN  /\ checkouts[t].at = "insert"
      /\ IF status[p] = "absent"
         THEN status' = [status EXCEPT ![p] = "pending"] /\ Goto(t, "register", p, 0)
         ELSE UNCHANGED status /\ Answer(t)
      /\ UNCHANGED <<rowToken, apiVars, held>>

-----------------------------------------------------------------------------
\* _checkout_call_payment_api

\* Mutant of CreatePayment: the idempotency key is not looked up.
MintAlways(p) ==
  /\ registered' = [registered EXCEPT ![p] = minted + 1]
  /\ minted' = minted + 1

\* payments-api create_payment: a known key replays its token, a new one mints.
CreatePayment(p) ==
  IF registered[p] = 0
  THEN /\ registered' = [registered EXCEPT ![p] = minted + 1]
       /\ minted' = minted + 1
  ELSE UNCHANGED <<registered, minted>>

\* The call is answered with a token.
RegisterReplied(t) ==
  LET p == checkouts[t].po
  IN  /\ checkouts[t].at = "register"
      /\ CreatePayment(p)
      /\ Goto(t, "check", p, registered'[p])
      /\ UNCHANGED <<status, rowToken, restarts, held>>

\* The call fails (refused, 10 s timeout, no 2xx), before or after payments-api
\* has registered the payment.
RegisterFailed(t) ==
  LET p == checkouts[t].po
  IN  /\ checkouts[t].at = "register"
      /\ CreatePayment(p) \/ UNCHANGED <<registered, minted>>
      /\ Goto(t, "fail", p, 0)
      /\ UNCHANGED <<status, rowToken, restarts, held>>

\* Mutant of MarkRegisterFail: a status the CHECK constraint does not know.
MarkRegisterFailUnknown(t) ==
  LET p == checkouts[t].po
  IN  /\ checkouts[t].at = "fail"
      /\ status' = [status EXCEPT ![p] = "registration_failed"]
      /\ Answer(t)
      /\ UNCHANGED <<rowToken, apiVars, held>>

\* UPDATE ... SET status = 'register_fail' WHERE id = p: not conditional.
MarkRegisterFail(t) ==
  LET p == checkouts[t].po
  IN  /\ checkouts[t].at = "fail"
      /\ status' = [status EXCEPT ![p] = "register_fail"]
      /\ Answer(t)
      /\ UNCHANGED <<rowToken, apiVars, held>>

\* SELECT status: anything but pending is answered 400.
CheckPending(t) ==
  LET c == checkouts[t]
  IN  /\ c.at = "check"
      /\ IF status[c.po] = "pending" THEN Goto(t, "settle", c.po, c.token) ELSE Answer(t)
      /\ UNCHANGED <<status, rowToken, apiVars, held>>

\* Mutant of Settle: the UPDATE relies on the SELECT before it.
SettleUnguarded(t) ==
  LET c == checkouts[t]
  IN  /\ c.at = "settle"
      /\ status' = [status EXCEPT ![c.po] = "register_success"]
      /\ rowToken' = [rowToken EXCEPT ![c.po] = c.token]
      /\ held' = held \union {<<c.po, c.token>>}
      /\ Answer(t)
      /\ UNCHANGED apiVars

\* UPDATE ... SET register_success, token WHERE id = p AND status = 'pending'.
\* The token is answered whether or not a row was updated.
Settle(t) ==
  LET c == checkouts[t]
  IN  /\ c.at = "settle"
      /\ IF status[c.po] = "pending"
         THEN /\ status' = [status EXCEPT ![c.po] = "register_success"]
              /\ rowToken' = [rowToken EXCEPT ![c.po] = c.token]
         ELSE UNCHANGED <<status, rowToken>>
      /\ held' = held \union {<<c.po, c.token>>}
      /\ Answer(t)
      /\ UNCHANGED apiVars

\* A crash of orders-service or a psycopg.Error (400).
Abandon(t) ==
  /\ checkouts[t].at # "idle"
  /\ Answer(t)
  /\ UNCHANGED <<status, rowToken, apiVars, held>>

Continue(t) ==
  \/ InsertAttempt(t)
  \/ RegisterReplied(t)
  \/ RegisterFailed(t)
  \/ MarkRegisterFail(t)
  \/ CheckPending(t)
  \/ Settle(t)

OrdersService ==
  \/ \E t \in Threads, o \in Orders : ReadAttempts(t, o)
  \/ \E t \in Threads : Continue(t) \/ Abandon(t)

-----------------------------------------------------------------------------
\* The environment: payments-api and service-1.

\* The idempotency maps of payments-api live in memory.
ApiRestart ==
  /\ restarts < MaxRestarts
  /\ restarts' = restarts + 1
  /\ registered' = [p \in Payments |-> 0]
  /\ UNCHANGED <<status, rowToken, minted, held, checkouts>>

\* A client completes the payment it holds a token for, payments-api calls
\* service-1's webhook, and service-1 writes the outcome whatever the row says,
\* at any later time: payments-api may have restarted since.
\* payments-api reports a failure only with an empty payment_order_id, which
\* matches no row; the webhook takes one for any id (Declines).
Outcomes == {"payment_success"} \union IF Declines THEN {"payment_fail"} ELSE {}

ServiceOneWrites(p) ==
  /\ \E h \in held : h[1] = p
  /\ \E outcome \in Outcomes : status' = [status EXCEPT ![p] = outcome]
  /\ UNCHANGED <<rowToken, apiVars, held, checkouts>>

Next ==
  \/ OrdersService
  \/ ApiRestart
  \/ \E p \in Payments : ServiceOneWrites(p)

Spec == Init /\ [][Next]_vars

-----------------------------------------------------------------------------
\* Properties

\* Every variable has its type: a status is one the CHECK constraint of order_payment allows.
TypeOK ==
  /\ status \in [Payments -> PaymentStatus]
  /\ rowToken \in [Payments -> Nat]
  /\ registered \in [Payments -> Nat]
  /\ minted \in Nat
  /\ restarts \in 0..MaxRestarts
  /\ held \subseteq Payments \X Nat
  /\ checkouts \in [Threads -> Checkout]

\* An order has one open attempt: once a later attempt exists, no checkout that
\* still works on an earlier one can make it pending or registered again. The
\* read-then-write guard of _checkout_call_payment_api is for this.
SupersededIsClosed ==
  \A o \in Orders : \A i, j \in 1..MaxAttempts :
    i < j /\ status[<<o, j>>] # "absent"
      => status[<<o, i>>] \in {"register_fail", "payment_success", "payment_fail"}

\* "re-registering the same attempt replays the same token rather than
\* re-charging": the clients of one attempt all hold one token, whichever of them
\* registered it and whatever calls failed after they had taken effect. It is a
\* restart of payments-api, and nothing else, that takes this away.
OneTokenPerAttempt ==
  restarts = 0 => \A h, g \in held : h[1] = g[1] => h[2] = g[2]

\* An order is paid once: at most one of its attempts is marked paid.
OnePaymentPerOrder ==
  \A o \in Orders : \A i, j \in 1..MaxAttempts :
    status[<<o, i>>] = "payment_success" /\ status[<<o, j>>] = "payment_success" => i = j

\* The environment that PaymentLedger assumes of order-db's other writer.
RowsOnlyAdvance ==
  \A p \in Payments :
    \/ status[p] = "absent" /\ status'[p] = "pending"
    \/ status[p] = "pending" /\ status'[p] = "register_success"
    \/ status[p] # "absent" /\ status'[p] \in {"register_fail", "payment_success", "payment_fail"}
    \/ status'[p] = status[p]

\* A row never goes back to pending, nor to registered from anything but pending,
\* whichever thread writes it last.
StatusOnlyAdvances == [][RowsOnlyAdvance]_vars
=============================================================================
