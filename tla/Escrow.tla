------------------------------- MODULE Escrow -------------------------------
(***************************************************************************)
(* One purchase of the marketplace: its transaction row, its dispute row   *)
(* and the payment that Stripe holds for it.                               *)
(*                                                                         *)
(*   src/api/marketplace_router.py   purchase, confirm, cancel, refund,    *)
(*                                   the Stripe webhook                    *)
(*   src/api/disputes_router.py      open, message, escalate, resolve,     *)
(*                                   adjudicate                            *)
(*   src/payments/escrow.py          release, cancel, partial capture      *)
(*                                                                         *)
(* A request is one database session (get_db): it sees committed rows, its *)
(* UPDATEs wait for row locks, and what it wrote is there for others when  *)
(* it commits.  A call to Stripe is never rolled back.                     *)
(***************************************************************************)
EXTENDS Naturals, FiniteSets

CONSTANTS
  Users,      \* requests of the buyer, the seller and admins
  Hooks,      \* deliveries of Stripe events
  Price,      \* the price in cents
  MaxFaults,  \* bound: failed commits and crashes
  NoOne       \* nobody holds the lock

Requests == Users \cup Hooks

ASSUME EscrowAssumption ==
  /\ Users \cap Hooks = {}
  /\ Price \in Nat \ {0}
  /\ MaxFaults \in Nat
  /\ NoOne \notin Requests

VARIABLES
  status,       \* Transaction.status, "none" before the purchase
  amount,       \* Transaction.amount_cents
  dispute,      \* Dispute.status, "none" when there is no row
  pi,           \* the PaymentIntent at Stripe
  paid,         \* the cents that were captured
  unacked,      \* the events Stripe still has to deliver
  pc,           \* where a request stands
  op,           \* what a request does
  txnLock,      \* who holds the lock of the transaction row
  disputeLock,  \* who holds the lock of the dispute row
  faults        \* faults so far (bounds the model)

vars == <<status, amount, dispute, pi, paid, unacked, pc, op, txnLock, disputeLock, faults>>
rows == <<status, amount, dispute>>
stripe == <<pi, paid>>

Resolutions == {"release_funds", "cancel_auth", "partial_refund"}
Events == {"succeeded", "canceled", "refunded"}
Kinds == {"confirm", "cancel", "refund", "open_dispute", "message", "escalate", "none"}
           \cup Resolutions \cup Events

\* cents matters for a partial_refund only.
Ops == [kind : Kinds, cents : 0 .. Price]
NoOp == [kind |-> "none", cents |-> 0]

TypeOK ==
  /\ status \in {"none", "pending", "escrow", "completed", "disputed", "refunded", "cancelled"}
  /\ amount \in 1 .. Price
  /\ dispute \in {"none", "open", "negotiating", "escalated", "resolved"}
  /\ pi \in {"none", "new", "held", "captured", "canceled", "refunded"}
  /\ paid \in 0 .. Price
  /\ unacked \subseteq Events
  /\ pc \in [Requests -> {"idle", "lock", "call", "write", "commit"}]
  /\ op \in [Requests -> Ops]
  /\ txnLock \in Requests \cup {NoOne}
  /\ disputeLock \in Requests \cup {NoOne}
  /\ faults \in 0 .. MaxFaults

Init ==
  /\ status = "none"
  /\ amount = Price
  /\ dispute = "none"
  /\ pi = "none"
  /\ paid = 0
  /\ unacked = {}
  /\ pc = [r \in Requests |-> "idle"]
  /\ op = [r \in Requests |-> NoOp]
  /\ txnLock = NoOne
  /\ disputeLock = NoOne
  /\ faults = 0
-----------------------------------------------------------------------------
Kind(r) == op[r].kind

\* A mutant of From: the webhook also settles what is in dispute.
FromDisputed(kind) ==
  CASE kind \in {"confirm", "open_dispute"} -> {"escrow"}
    [] kind \in {"cancel", "canceled"} -> {"pending", "escrow"}
    [] kind = "succeeded" -> {"pending", "escrow", "disputed"}
    [] OTHER -> {"completed"}

\* The statuses in which a handler goes on.
From(kind) ==
  CASE kind \in {"confirm", "open_dispute"} -> {"escrow"}
    [] kind \in {"cancel", "succeeded", "canceled"} -> {"pending", "escrow"}
    [] OTHER -> {"completed"}

\* What a handler writes.
NewStatus(kind) ==
  CASE kind \in {"confirm", "release_funds", "partial_refund", "succeeded"} -> "completed"
    [] kind \in {"cancel", "cancel_auth", "canceled"} -> "cancelled"
    [] kind \in {"refund", "refunded"} -> "refunded"
    [] kind = "open_dispute" -> "disputed"
    [] OTHER -> status

\* A mutant of NewDispute: a refund settles the dispute as well.
NewDisputeByRefund(kind) ==
  CASE kind = "open_dispute" -> "open"
    [] kind = "message" -> "negotiating"
    [] kind = "escalate" -> "escalated"
    [] kind \in Resolutions \cup {"refund"} -> "resolved"
    [] OTHER -> dispute

NewDispute(kind) ==
  CASE kind = "open_dispute" -> "open"
    [] kind = "message" -> "negotiating"
    [] kind = "escalate" -> "escalated"
    [] kind \in Resolutions -> "resolved"
    [] OTHER -> dispute

\* Stripe has sent event e.
Emitted(e) ==
  CASE e = "succeeded" -> pi \in {"captured", "refunded"}
    [] e = "canceled" -> pi = "canceled"
    [] OTHER -> pi = "refunded"

Start(r, there, kind, cents) ==
  /\ pc[r] = "idle"
  /\ pc' = [pc EXCEPT ![r] = there]
  /\ op' = [op EXCEPT ![r] = [kind |-> kind, cents |-> cents]]

Free(lock, r) == IF lock = r THEN NoOne ELSE lock

\* The session of r ends and its row locks with it.
End(r) ==
  /\ pc' = [pc EXCEPT ![r] = "idle"]
  /\ op' = [op EXCEPT ![r] = NoOp]
  /\ txnLock' = Free(txnLock, r)
  /\ disputeLock' = Free(disputeLock, r)

Rollback(r) == End(r) /\ UNCHANGED <<rows, stripe, unacked>>
-----------------------------------------------------------------------------
(* Requests.                                                               *)

\* purchase_listing: a free listing (and every one while Stripe is not set up)
\* is completed at once, a paid one gets a PaymentIntent that the buyer has still
\* to authorize; the MCP tool leaves a pending row without a payment.
Purchase ==
  /\ status = "none"
  /\ status' \in {"completed", "escrow", "pending"}
  /\ pi' = IF status' = "escrow" THEN "new" ELSE "none"
  /\ UNCHANGED <<amount, dispute, paid, unacked, pc, op, txnLock, disputeLock, faults>>

\* confirm_purchase, cancel_transaction, refund_transaction: SELECT FOR UPDATE,
\* then the check of the status, then Stripe when there is a payment.
LockAndCheck(r, kind) ==
  /\ txnLock = NoOne
  /\ status \in From(kind)
  /\ txnLock' = r
  /\ Start(r, IF pi = "none" \/ (kind = "cancel" /\ status # "escrow") THEN "commit" ELSE "call",
           kind, 0)
  /\ UNCHANGED <<rows, stripe, unacked, disputeLock, faults>>

\* open_dispute reads both rows without a lock.
OpenDispute(r) ==
  /\ status \in From("open_dispute")
  /\ dispute = "none"
  /\ Start(r, "write", "open_dispute", 0)
  /\ UNCHANGED <<rows, stripe, unacked, txnLock, disputeLock, faults>>

\* add_dispute_message writes the dispute only when it is open.
Message(r) ==
  /\ dispute = "open"
  /\ Start(r, "write", "message", 0)
  /\ UNCHANGED <<rows, stripe, unacked, txnLock, disputeLock, faults>>

Escalate(r) ==
  /\ dispute \in {"open", "negotiating"}
  /\ Start(r, "write", "escalate", 0)
  /\ UNCHANGED <<rows, stripe, unacked, txnLock, disputeLock, faults>>

\* resolve_dispute and admin_adjudicate_dispute: the dispute is read without a
\* lock.  Who may choose which resolution leaves each of them to somebody.
Resolve(r, kind, cents) ==
  /\ dispute \notin {"none", "resolved"}
  /\ Start(r, "lock", kind, cents)
  /\ UNCHANGED <<rows, stripe, unacked, txnLock, disputeLock, faults>>

\* A mutant of ValidPart: the lower bound is gone.
ValidPartNoFloor(cents) == cents < amount

ValidPart(cents) == 0 < cents /\ cents < amount

\* The transaction is locked, the amount of a partial refund checked; the status
\* of the transaction is not.
LockTransaction(r) ==
  /\ pc[r] = "lock"
  /\ txnLock = NoOne
  /\ IF Kind(r) = "partial_refund" /\ ~ValidPart(op[r].cents)
       THEN Rollback(r)
       ELSE /\ txnLock' = r
            /\ pc' = [pc EXCEPT ![r] = "call"]
            /\ UNCHANGED <<rows, stripe, unacked, op, disputeLock>>
  /\ UNCHANGED faults

\* A mutant of Deliver: the event is acknowledged before it is processed.
DeliverAckFirst(h, e) ==
  /\ Emitted(e)
  /\ pc[h] = "idle"
  /\ unacked' = unacked \ {e}
  /\ IF status \in From(e) THEN Start(h, "write", e, 0) ELSE UNCHANGED <<pc, op>>
  /\ UNCHANGED <<rows, stripe, txnLock, disputeLock, faults>>

\* stripe_webhook; Stripe delivers an event any number of times and in any order.
Deliver(h, e) ==
  /\ Emitted(e)
  /\ pc[h] = "idle"
  /\ IF status \in From(e)
       THEN Start(h, "write", e, 0) /\ UNCHANGED unacked
       ELSE unacked' = unacked \ {e} /\ UNCHANGED <<pc, op>>
  /\ UNCHANGED <<rows, stripe, txnLock, disputeLock, faults>>
-----------------------------------------------------------------------------
(* Stripe.                                                                 *)

\* The call of r finds the payment in a state in which Stripe does it.
Accepts(r) ==
  CASE Kind(r) \in {"confirm", "release_funds", "partial_refund"} -> pi = "held"
    [] Kind(r) \in {"cancel", "cancel_auth"} -> pi \in {"new", "held"}
    [] OTHER -> pi = "captured"

Captures(r) == Kind(r) \in {"confirm", "release_funds", "partial_refund"}

\* capture_payment_intent, cancel_payment_intent, create_refund.
Call(r) ==
  /\ pc[r] = "call"
  /\ Accepts(r)
  /\ IF Captures(r)
       THEN /\ pi' = "captured"
            /\ paid' = IF Kind(r) = "partial_refund" THEN op[r].cents ELSE Price
            /\ unacked' = unacked \cup {"succeeded"}
       ELSE /\ pi' = IF Kind(r) = "refund" THEN "refunded" ELSE "canceled"
            /\ UNCHANGED paid
            /\ unacked' = unacked \cup {pi'}
  /\ pc' = [pc EXCEPT ![r] = IF Kind(r) \in Resolutions THEN "write" ELSE "commit"]
  /\ UNCHANGED <<rows, op, txnLock, disputeLock, faults>>

\* A mutant of CallRefused: the exception is swallowed.
CallRefusedIgnored(r) ==
  /\ pc[r] = "call"
  /\ ~Accepts(r)
  /\ pc' = [pc EXCEPT ![r] = IF Kind(r) \in Resolutions THEN "write" ELSE "commit"]
  /\ UNCHANGED <<rows, stripe, unacked, op, txnLock, disputeLock, faults>>

\* The exception of a refused call rolls the session back.
CallRefused(r) ==
  /\ pc[r] = "call"
  /\ ~Accepts(r)
  /\ Rollback(r)
  /\ UNCHANGED faults

\* The buyer authorizes the payment in the browser.
Authorize ==
  /\ pi = "new"
  /\ pi' = "held"
  /\ UNCHANGED <<rows, paid, unacked, pc, op, txnLock, disputeLock, faults>>

\* An authorization that is not captured in time is canceled.
HoldExpire ==
  /\ pi = "held"
  /\ pi' = "canceled"
  /\ unacked' = unacked \cup {"canceled"}
  /\ UNCHANGED <<rows, paid, pc, op, txnLock, disputeLock, faults>>
-----------------------------------------------------------------------------
(* The end of a session.                                                   *)

\* The UPDATE of the transaction, and the INSERT of the dispute, whose
\* transaction_id is unique.
WriteTransaction(r) ==
  /\ pc[r] = "write"
  /\ Kind(r) \in Events \cup {"open_dispute"}
  /\ txnLock = NoOne
  /\ IF Kind(r) = "open_dispute" /\ dispute # "none"
       THEN Rollback(r)
       ELSE /\ txnLock' = r
            /\ pc' = [pc EXCEPT ![r] = "commit"]
            /\ UNCHANGED <<rows, stripe, unacked, op, disputeLock>>
  /\ UNCHANGED faults

\* The UPDATE of the dispute.
WriteDispute(r) ==
  /\ pc[r] = "write"
  /\ Kind(r) \in Resolutions \cup {"message", "escalate"}
  /\ disputeLock = NoOne
  /\ disputeLock' = r
  /\ pc' = [pc EXCEPT ![r] = "commit"]
  /\ UNCHANGED <<rows, stripe, unacked, op, txnLock, faults>>

\* The columns that the request has changed are committed; Stripe gets its 200.
Commit(r) ==
  /\ pc[r] = "commit"
  /\ status' = NewStatus(Kind(r))
  /\ dispute' = NewDispute(Kind(r))
  /\ amount' = IF Kind(r) = "partial_refund" THEN op[r].cents ELSE amount
  /\ unacked' = unacked \ {Kind(r)}
  /\ End(r)
  /\ UNCHANGED <<stripe, faults>>

\* The commit fails or the worker dies: what Stripe did stays.
Abort(r) ==
  /\ pc[r] # "idle"
  /\ faults < MaxFaults
  /\ faults' = faults + 1
  /\ Rollback(r)

\* The deactivation of the seller, one UPDATE.
Deactivate ==
  /\ status = "pending"
  /\ txnLock = NoOne
  /\ status' = "cancelled"
  /\ UNCHANGED <<amount, dispute, stripe, unacked, pc, op, txnLock, disputeLock, faults>>
-----------------------------------------------------------------------------
Ask(r) ==
  \/ \E kind \in {"confirm", "cancel", "refund"} : LockAndCheck(r, kind)
  \/ OpenDispute(r) \/ Message(r) \/ Escalate(r)
  \/ \E kind \in {"release_funds", "cancel_auth"} : Resolve(r, kind, 0)
  \/ \E cents \in 0 .. Price : Resolve(r, "partial_refund", cents)

Step(r) ==
  \/ LockTransaction(r) \/ Call(r) \/ CallRefused(r)
  \/ WriteTransaction(r) \/ WriteDispute(r) \/ Commit(r)

Next ==
  \/ Purchase
  \/ \E r \in Users : Ask(r)
  \/ \E h \in Hooks, e \in Events : Deliver(h, e)
  \/ \E r \in Requests : Step(r) \/ Abort(r)
  \/ Authorize \/ HoldExpire \/ Deactivate

Spec == Init /\ [][Next]_vars

\* Requests run and PostgreSQL serves those who wait for a row in turn; Stripe
\* repeats an event until it is acknowledged.  Nobody owes a request.
FairSpec ==
  /\ Spec
  /\ \A r \in Requests : SF_vars(Step(r))
  /\ \A e \in Events : SF_vars(e \in unacked /\ \E h \in Hooks : Deliver(h, e))
-----------------------------------------------------------------------------
\* "Confirms receipt, triggering capture", "cancel the payment authorization and
\* mark the transaction cancelled", "refund": whatever order requests, webhooks,
\* rollbacks and expiries come in, the row never claims more than Stripe did.
StatusBacked ==
  /\ status = "completed" => pi \in {"none", "captured", "refunded"}
  /\ status = "cancelled" => pi \in {"none", "canceled"}
  /\ status = "refunded" => pi \in {"none", "refunded"}

\* partial_capture: a completed transaction shows the amount that was captured,
\* also when the commit of the capture was lost and a webhook completed the row.
AmountPaid == status = "completed" /\ pi # "none" => amount = paid

\* stripe_webhook answers 200 after its commit, or when the row has moved on: while
\* a row in escrow is behind its payment, because a commit failed or a hold ran
\* out, Stripe still owes the event that closes it, whatever was delivered before.
StripeOwes ==
  status = "escrow" =>
    /\ pi = "captured" => "succeeded" \in unacked
    /\ pi = "canceled" => "canceled" \in unacked

\* stripe_webhook: a payment that was captured or canceled does not stay in escrow
\* for ever, although the commit of the request that did it may fail.
Recorded == status = "escrow" /\ pi \in {"captured", "canceled"} ~> status # "escrow"
-----------------------------------------------------------------------------
(* What a purchase promises.                                                *)

Money == IF pi \in {"new", "held"} THEN "open" ELSE pi
Book == IF status \in {"pending", "escrow", "disputed"} THEN "open" ELSE status
Shown == IF status = "completed" /\ pi # "none" THEN amount ELSE 0
Verdict == IF dispute = "resolved" THEN "given" ELSE "due"

Promise == INSTANCE Settlement
  WITH money <- Money, cents <- paid, book <- Book, shown <- Shown, verdict <- Verdict

\* Requests, webhooks, disputes, rollbacks and expiries together do what
\* Settlement says: the payment moves once, the record never runs ahead of it
\* nor changes in the same step, and a dispute is decided with a true entry.
Settles == Promise!Spec
-----------------------------------------------------------------------------
(* What a test and a doc say and the code does not do.                      *)

\* test_cannot_dispute_non_escrow, "on transactions that are still in escrow".
DisputeOnEscrow ==
  [][dispute = "none" /\ dispute' # "none" => status = "escrow"]_vars
=============================================================================
