--------------------------- MODULE Escrow_proofs ---------------------------
(***************************************************************************)
(* Theorems about Escrow, for any number of requests and deliveries, any   *)
(* price and any number of faults: type correctness, that a row never      *)
(* claims more, or another amount, than Stripe did, and that Escrow        *)
(* implements Settlement.                                                  *)
(*                                                                         *)
(* The invariant says what a request may count on between two awaits       *)
(* (Claim) and what the committed rows say of the payment (Rows).  No row  *)
(* lock is in it: what keeps the money right is that Stripe does not take  *)
(* back what it did, and that a handler calls it before it writes.         *)
(*                                                                         *)
(* That all of it is a settlement needs one lock: whoever commits a new    *)
(* dispute holds the transaction's row and is the first to (Openings).     *)
(***************************************************************************)
EXTENDS Escrow, TLAPS

\* What request r may count on where it stands.
Claim(r) ==
  /\ pc[r] # "idle" => status # "none"
  /\ Kind(r) \in Resolutions \cup {"message", "escalate"} => dispute # "none"
  /\ pc[r] \in {"write", "commit"} =>
       /\ Kind(r) \in {"confirm", "release_funds", "succeeded"} =>
            pi \in {"none", "captured", "refunded"} /\ (pi # "none" => paid = amount)
       /\ Kind(r) = "partial_refund" =>
            /\ pi \in {"captured", "refunded"}
            /\ paid = op[r].cents /\ paid > 0
       /\ Kind(r) \in {"cancel", "cancel_auth", "canceled"} => pi \in {"none", "canceled"}
       /\ Kind(r) \in {"refund", "refunded"} => pi \in {"none", "refunded"}
       /\ Kind(r) \in Resolutions => pi # "none"
  /\ pc[r] = "lock" => Kind(r) \in Resolutions
  /\ pc[r] = "call" => /\ Kind(r) \in Resolutions \cup {"confirm", "cancel", "refund"}
                       /\ Kind(r) = "partial_refund" => op[r].cents > 0

Claims == \A r \in Requests : Claim(r)

Rows ==
  /\ status = "none" => pi = "none" /\ dispute = "none"
  /\ status = "pending" => pi = "none"
  /\ dispute # "none" => status \notin {"none", "escrow"}
  /\ pi \in {"none", "new", "held", "canceled"} => amount = Price
  /\ status = "escrow" /\ pi \in {"captured", "refunded"} => paid = amount
  /\ StatusBacked
  /\ AmountPaid

Inv == TypeOK /\ Claims /\ Rows

\* Who commits a dispute has the lock of the transaction, and is the first.
Opening(r) ==
  pc[r] = "commit" /\ Kind(r) = "open_dispute" => txnLock = r /\ dispute = "none"

Openings == \A r \in Requests : Opening(r)
-----------------------------------------------------------------------------
(* Steps that leave the rows and the payment alone.                        *)

\* Request r moves; the others keep their claims.
LEMMA MoveKeeps ==
  ASSUME Inv, NEW r \in Requests, NEW p, NEW o,
         UNCHANGED <<rows, stripe>>,
         pc' = [pc EXCEPT ![r] = p], op' = [op EXCEPT ![r] = o],
         Claim(r)'
  PROVE  Claims' /\ Rows'
<1>1. Rows'
  BY DEF Inv, Rows, rows, stripe, StatusBacked, AmountPaid
<1>2. ASSUME NEW s \in Requests \ {r}
      PROVE  Claim(s)'
  <2>1. pc'[s] = pc[s] /\ op'[s] = op[s] /\ Claim(s)
    BY DEF Inv, Claims, TypeOK
  <2> QED
    BY <2>1 DEF Claim, Kind, rows, stripe
<1>3. Claims'
  BY <1>2 DEF Claims
<1> QED
  BY <1>1, <1>3

\* The session of r ends and nothing is written.
LEMMA RollbackKeeps ==
  ASSUME Inv, NEW r \in Requests, Rollback(r)
  PROVE  Claims' /\ Rows'
<1>1. pc'[r] = "idle" /\ Kind(r)' = "none"
  BY DEF Rollback, End, Inv, TypeOK, Kind, NoOp
<1>2. Claim(r)'
  BY <1>1 DEF Claim, Resolutions
<1> QED
  BY <1>2, MoveKeeps DEF Rollback, End

LEMMA AskKeeps ==
  ASSUME Inv, NEW r \in Users, Ask(r)
  PROVE  Claims' /\ Rows'
<1>1. r \in Requests /\ TypeOK /\ Rows
  BY DEF Requests, Inv
<1>2. PICK there, kind, cents : Start(r, there, kind, cents) /\ UNCHANGED <<rows, stripe>>
  BY DEF Ask, LockAndCheck, OpenDispute, Message, Escalate, Resolve
<1>3. CASE \E k \in {"confirm", "cancel", "refund"} : LockAndCheck(r, k)
  <2>1. PICK k \in {"confirm", "cancel", "refund"} : LockAndCheck(r, k)
    BY <1>3
  <2>2. status # "none" /\ (k = "cancel" /\ status # "escrow" => pi = "none")
    BY <1>1, <2>1 DEF LockAndCheck, From, Rows
  <2>3. /\ Kind(r)' = k
        /\ pc'[r] = IF pi = "none" \/ (k = "cancel" /\ status # "escrow") THEN "commit" ELSE "call"
        /\ UNCHANGED <<status, dispute, pi>>
    BY <1>1, <2>1 DEF LockAndCheck, Start, Kind, TypeOK, rows, stripe
  <2>4. CASE pi = "none" \/ (k = "cancel" /\ status # "escrow")
    <3>1. pi = "none" /\ pc'[r] = "commit"
      BY <2>2, <2>3, <2>4
    <3> QED
      BY <1>1, <1>2, <2>2, <2>3, <3>1, MoveKeeps DEF Claim, Resolutions, Start
  <2>5. CASE ~(pi = "none" \/ (k = "cancel" /\ status # "escrow"))
    <3>1. pc'[r] = "call"
      BY <2>3, <2>5
    <3>2. Claim(r)'
      BY <2>2, <2>3, <3>1 DEF Claim, Resolutions
    <3> QED
      BY <1>1, <1>2, <3>2, MoveKeeps DEF Start
  <2> QED
    BY <2>4, <2>5
<1>4. CASE OpenDispute(r) \/ Message(r) \/ Escalate(r)
  <2>1. /\ status # "none" /\ pc'[r] = "write"
        /\ Kind(r)' = "open_dispute" \/ (Kind(r)' \in {"message", "escalate"} /\ dispute # "none")
    BY <1>1, <1>4 DEF OpenDispute, Message, Escalate, Start, From, Rows, Kind, TypeOK
  <2>2. UNCHANGED <<status, dispute>>
    BY <1>2 DEF rows
  <2>3. Claim(r)'
    BY <2>1, <2>2 DEF Claim, Resolutions
  <2> QED
    BY <1>1, <1>2, <2>3, MoveKeeps DEF Start
<1>5. CASE \E k \in Resolutions, c \in 0 .. Price : Resolve(r, k, c)
  <2>1. /\ dispute # "none" /\ status # "none"
        /\ pc'[r] = "lock" /\ Kind(r)' \in Resolutions
    BY <1>1, <1>5 DEF Resolve, Start, Rows, Kind, TypeOK
  <2>2. UNCHANGED <<status, dispute>>
    BY <1>2 DEF rows
  <2>3. Claim(r)'
    BY <2>1, <2>2 DEF Claim, Resolutions
  <2> QED
    BY <1>1, <1>2, <2>3, MoveKeeps DEF Start
<1> QED
  <2>1. 0 \in 0 .. Price
    BY EscrowAssumption
  <2> QED
    BY <1>3, <1>4, <1>5, <2>1 DEF Ask, Resolutions

LEMMA DeliverKeeps ==
  ASSUME Inv, NEW h \in Hooks, NEW e \in Events, Deliver(h, e)
  PROVE  Claims' /\ Rows'
<1>1. h \in Requests /\ TypeOK /\ Rows /\ UNCHANGED <<rows, stripe>>
  BY DEF Requests, Inv, Deliver
<1>2. CASE status \in From(e)
  <2>1. status # "none" /\ (e = "succeeded" => status \in {"pending", "escrow"})
    BY <1>2 DEF From, Events
  <2>2. Kind(h)' = e /\ pc'[h] = "write" /\ Start(h, "write", e, 0)
    BY <1>1, <1>2 DEF Deliver, Start, Kind, TypeOK
  <2>3. CASE e = "succeeded"
    <3>1. pi \in {"captured", "refunded"} /\ paid = amount
      BY <1>1, <2>1, <2>3 DEF Deliver, Emitted, Rows
    <3> QED
      BY <1>1, <2>1, <2>2, <2>3, <3>1, MoveKeeps DEF Claim, Resolutions, Start, rows, stripe
  <2>4. CASE e = "canceled"
    <3>1. pi = "canceled"
      BY <2>4 DEF Deliver, Emitted
    <3> QED
      BY <1>1, <2>1, <2>2, <2>4, <3>1, MoveKeeps DEF Claim, Resolutions, Start, rows, stripe
  <2>5. CASE e = "refunded"
    <3>1. pi = "refunded"
      BY <2>5 DEF Deliver, Emitted
    <3> QED
      BY <1>1, <2>1, <2>2, <2>5, <3>1, MoveKeeps DEF Claim, Resolutions, Start, rows, stripe
  <2> QED
    BY <2>3, <2>4, <2>5 DEF Events
<1>3. CASE status \notin From(e)
  BY <1>1, <1>3 DEF Deliver, Inv, Claims, Claim, Kind, Rows, rows, stripe, StatusBacked, AmountPaid
<1> QED
  BY <1>2, <1>3

\* The steps of a session before its commit, without the call.
LEMMA WaitKeeps ==
  ASSUME Inv, NEW r \in Requests,
         \/ LockTransaction(r) \/ CallRefused(r) \/ WriteTransaction(r) \/ WriteDispute(r)
         \/ Abort(r)
  PROVE  Claims' /\ Rows'
<1>1. TypeOK /\ Claim(r)
  BY DEF Inv, Claims
<1>2. CASE Rollback(r)
  BY <1>2, RollbackKeeps
<1>3. CASE ~Rollback(r)
  <2>1. UNCHANGED <<rows, stripe, op>>
    BY <1>3 DEF LockTransaction, CallRefused, WriteTransaction, WriteDispute, Abort
  <2>2. Kind(r)' = Kind(r) /\ op' = [op EXCEPT ![r] = op[r]]
    BY <1>1, <2>1 DEF Kind, TypeOK
  <2>3. CASE LockTransaction(r)
    <3>1. /\ pc[r] = "lock" /\ pc' = [pc EXCEPT ![r] = "call"] /\ pc'[r] = "call"
          /\ Kind(r) = "partial_refund" => op[r].cents > 0
      BY <1>1, <1>3, <2>3 DEF LockTransaction, ValidPart, TypeOK, Ops
    <3>2. Claim(r)'
      BY <1>1, <2>1, <2>2, <3>1 DEF Claim, rows, stripe
    <3> QED
      BY <2>1, <2>2, <3>1, <3>2, MoveKeeps
  <2>4. CASE WriteTransaction(r) \/ WriteDispute(r)
    <3>1. pc[r] = "write" /\ pc' = [pc EXCEPT ![r] = "commit"] /\ pc'[r] = "commit"
      BY <1>1, <1>3, <2>4 DEF WriteTransaction, WriteDispute, TypeOK
    <3>2. Claim(r)'
      BY <1>1, <2>1, <2>2, <3>1 DEF Claim, rows, stripe
    <3> QED
      BY <2>1, <2>2, <3>1, <3>2, MoveKeeps
  <2> QED
    BY <1>3, <2>3, <2>4 DEF CallRefused, Abort
<1> QED
  BY <1>2, <1>3
-----------------------------------------------------------------------------
(* Stripe.                                                                 *)

\* A call moves the payment on, and none of the claims speaks of a payment that
\* can still be captured or canceled.
LEMMA CallKeeps ==
  ASSUME Inv, NEW r \in Requests, Call(r)
  PROVE  Claims' /\ Rows'
<1>1. TypeOK /\ Rows /\ Claim(r) /\ pc[r] = "call" /\ status # "none"
  BY DEF Inv, Claims, Claim, Call
<1>2. /\ UNCHANGED <<rows, op>> /\ UNCHANGED <<status, dispute, amount>>
      /\ \A s \in Requests : Kind(s)' = Kind(s)
      /\ \A s \in Requests \ {r} : pc'[s] = pc[s]
      /\ pc'[r] = IF Kind(r) \in Resolutions THEN "write" ELSE "commit"
  BY <1>1 DEF Call, rows, Kind, TypeOK
<1>3. CASE Captures(r)
  <2>1. /\ pi = "held" /\ pi' = "captured" /\ amount = Price
        /\ Kind(r) \in {"confirm", "release_funds", "partial_refund"}
        /\ paid' = IF Kind(r) = "partial_refund" THEN op[r].cents ELSE Price
    BY <1>1, <1>3 DEF Call, Accepts, Captures, Rows
  <2>2. Claim(r)'
    BY <1>1, <1>2, <2>1 DEF Claim, Resolutions
  <2>3. ASSUME NEW s \in Requests \ {r} PROVE Claim(s)'
    <3>1. Claim(s)
      BY DEF Inv, Claims
    <3> QED
      BY <1>2, <2>1, <3>1 DEF Claim
  <2>4. Rows'
    BY <1>1, <1>2, <2>1 DEF Rows, Claim, Resolutions, StatusBacked, AmountPaid
  <2> QED
    BY <2>2, <2>3, <2>4 DEF Claims
<1>4. CASE ~Captures(r) /\ Kind(r) \in {"cancel", "cancel_auth"}
  <2>1. pi \in {"new", "held"} /\ pi' = "canceled" /\ UNCHANGED paid
    BY <1>1, <1>4 DEF Call, Accepts
  <2>2. ASSUME NEW s \in Requests PROVE Claim(s)'
    <3>1. Claim(s)
      BY DEF Inv, Claims
    <3> QED
      BY <1>1, <1>2, <1>4, <2>1, <3>1 DEF Claim, Resolutions
  <2>3. Rows'
    BY <1>1, <1>2, <2>1 DEF Rows, StatusBacked, AmountPaid
  <2> QED
    BY <2>2, <2>3 DEF Claims
<1>5. CASE ~Captures(r) /\ Kind(r) \notin {"cancel", "cancel_auth"}
  <2>1. Kind(r) = "refund"
    BY <1>1, <1>5 DEF Claim, Captures, Resolutions
  <2>2. pi = "captured" /\ pi' = "refunded" /\ UNCHANGED paid
    BY <1>5, <2>1 DEF Call, Accepts
  <2>3. ASSUME NEW s \in Requests PROVE Claim(s)'
    <3>1. Claim(s)
      BY DEF Inv, Claims
    <3> QED
      BY <1>1, <1>2, <2>1, <2>2, <3>1 DEF Claim, Resolutions
  <2>4. Rows'
    BY <1>1, <1>2, <2>2 DEF Rows, StatusBacked, AmountPaid
  <2> QED
    BY <2>3, <2>4 DEF Claims
<1> QED
  BY <1>3, <1>4, <1>5

\* The buyer authorizes, or the authorization runs out.
LEMMA HoldKeeps ==
  ASSUME Inv, Authorize \/ HoldExpire
  PROVE  Claims' /\ Rows'
<1>1. /\ pi \in {"new", "held"} /\ pi' \in {"held", "canceled"}
      /\ UNCHANGED <<status, dispute, amount, paid, pc, op>>
  BY DEF Authorize, HoldExpire, rows
<1>2. ASSUME NEW s \in Requests PROVE Claim(s)'
  <2>1. Claim(s) /\ Kind(s)' = Kind(s)
    BY <1>1 DEF Inv, Claims, Kind
  <2> QED
    BY <1>1, <2>1 DEF Claim
<1>3. Rows'
  BY <1>1 DEF Inv, Rows, StatusBacked, AmountPaid
<1> QED
  BY <1>2, <1>3 DEF Claims
-----------------------------------------------------------------------------
(* Writing the rows.                                                       *)

LEMMA PurchaseKeeps ==
  ASSUME Inv, Purchase \/ Deactivate
  PROVE  Claims' /\ Rows'
<1>1. /\ UNCHANGED <<amount, dispute, paid, pc, op>> /\ status' # "none"
      /\ status' = "escrow" => status = "none" /\ pi' = "new"
      /\ pi' # "new" => pi' = "none"
      /\ dispute # "none" => status = "pending" /\ status' = "cancelled"
  BY DEF Inv, Rows, Purchase, Deactivate, stripe
<1>2. amount = Price /\ pi = "none"
  BY DEF Inv, Rows, Purchase, Deactivate
<1>3. ASSUME NEW s \in Requests PROVE Claim(s)'
  <2>1. Claim(s) /\ Kind(s)' = Kind(s)
    BY <1>1 DEF Inv, Claims, Kind
  <2>2. CASE Purchase
    <3>1. pc[s] = "idle" /\ dispute = "none"
      BY <2>1, <2>2 DEF Purchase, Claim, Inv, Rows
    <3> QED
      BY <1>1, <2>1, <3>1 DEF Claim
  <2>3. CASE Deactivate
    BY <1>1, <2>1, <2>3 DEF Claim, Deactivate, stripe
  <2> QED
    BY <2>2, <2>3
<1>4. Rows'
  BY <1>1, <1>2 DEF Inv, Rows, Purchase, Deactivate, StatusBacked, AmountPaid, stripe
<1> QED
  BY <1>3, <1>4 DEF Claims

LEMMA CommitKeeps ==
  ASSUME Inv, NEW r \in Requests, Commit(r)
  PROVE  Claims' /\ Rows'
<1>1. /\ TypeOK /\ Rows /\ Claim(r) /\ pc[r] = "commit" /\ status # "none"
      /\ UNCHANGED <<pi, paid>>
  BY DEF Inv, Claims, Claim, Commit, stripe
<1>2. /\ Kind(r)' = "none" /\ pc'[r] = "idle"
      /\ \A s \in Requests \ {r} : pc'[s] = pc[s] /\ op'[s] = op[s]
  BY <1>1 DEF Commit, End, Kind, NoOp, TypeOK
<1>3. /\ status' = NewStatus(Kind(r)) /\ dispute' = NewDispute(Kind(r))
      /\ amount' = IF Kind(r) = "partial_refund" THEN op[r].cents ELSE amount
  BY DEF Commit
<1>4. status' # "none" /\ (dispute # "none" => dispute' # "none")
  BY <1>1, <1>3 DEF NewStatus, NewDispute
<1>5. amount' = amount \/ (paid = amount' /\ pi \in {"captured", "refunded"})
  BY <1>1, <1>3 DEF Claim
<1>6. ASSUME NEW s \in Requests \ {r} PROVE Claim(s)'
  <2>1. Claim(s) /\ Kind(s)' = Kind(s)
    BY <1>2 DEF Inv, Claims, Kind
  <2> QED
    BY <1>1, <1>2, <1>4, <1>5, <2>1 DEF Claim
<1>7. Claim(r)'
  BY <1>2 DEF Claim, Resolutions
<1>8. Rows'
  <2>1. status' = status \/ status' \in {"completed", "cancelled", "refunded", "disputed"}
    BY <1>3 DEF NewStatus
  <2>2. StatusBacked'
    BY <1>1, <1>3 DEF Claim, NewStatus, Rows, StatusBacked
  <2>3. AmountPaid'
    BY <1>1, <1>3, <1>5 DEF Claim, NewStatus, Rows, AmountPaid
  <2>4. dispute' # "none" => status' # "escrow"
    BY <1>1, <1>3, <2>1 DEF NewStatus, NewDispute, Rows, Resolutions, Claim
  <2> QED
    BY <1>1, <1>4, <1>5, <2>1, <2>2, <2>3, <2>4 DEF Rows
<1> QED
  BY <1>6, <1>7, <1>8 DEF Claims
-----------------------------------------------------------------------------
(* Types.                                                                  *)

\* The parts of a session that End resets.
LEMMA EndTypes ==
  ASSUME TypeOK, NEW r \in Requests, End(r)
  PROVE  /\ pc' \in [Requests -> {"idle", "lock", "call", "write", "commit"}]
         /\ op' \in [Requests -> Ops]
         /\ txnLock' \in Requests \cup {NoOne}
         /\ disputeLock' \in Requests \cup {NoOne}
<1>1. NoOp \in Ops
  BY EscrowAssumption DEF NoOp, Ops, Kinds
<1> QED
  BY <1>1 DEF TypeOK, End, Free

LEMMA StartTypes ==
  ASSUME TypeOK, NEW r \in Requests, NEW there \in {"lock", "call", "write", "commit"},
         NEW kind \in Kinds, NEW cents \in 0 .. Price,
         Start(r, there, kind, cents)
  PROVE  /\ pc' \in [Requests -> {"idle", "lock", "call", "write", "commit"}]
         /\ op' \in [Requests -> Ops]
<1>1. [kind |-> kind, cents |-> cents] \in Ops
  BY DEF Ops
<1> QED
  BY <1>1 DEF TypeOK, Start

LEMMA RollbackTypes ==
  ASSUME TypeOK, NEW r \in Requests, Rollback(r), faults' \in 0 .. MaxFaults
  PROVE  TypeOK'
<1>1. UNCHANGED <<status, amount, dispute, pi, paid, unacked>>
  BY DEF Rollback, rows, stripe
<1> QED
  BY <1>1, EndTypes DEF Rollback, TypeOK

LEMMA AskTypes ==
  ASSUME TypeOK, NEW r \in Users, Ask(r)
  PROVE  TypeOK'
<1>1. r \in Requests /\ 0 \in 0 .. Price
  BY EscrowAssumption DEF Requests
<1>2. PICK there \in {"lock", "call", "write", "commit"}, kind \in Kinds, cents \in 0 .. Price :
        /\ Start(r, there, kind, cents)
        /\ UNCHANGED <<status, amount, dispute, pi, paid, unacked, disputeLock, faults>>
        /\ txnLock' \in {txnLock, r}
  BY <1>1 DEF Ask, LockAndCheck, OpenDispute, Message, Escalate, Resolve, Kinds, Resolutions,
              rows, stripe
<1> QED
  BY <1>1, <1>2, StartTypes DEF TypeOK

LEMMA DeliverTypes ==
  ASSUME TypeOK, NEW h \in Hooks, NEW e \in Events, Deliver(h, e)
  PROVE  TypeOK'
<1>1. /\ h \in Requests /\ e \in Kinds /\ 0 \in 0 .. Price
      /\ UNCHANGED <<status, amount, dispute, pi, paid, txnLock, disputeLock, faults>>
      /\ unacked' \subseteq Events
  BY EscrowAssumption DEF Requests, Kinds, Deliver, TypeOK, rows, stripe
<1>2. CASE Start(h, "write", e, 0)
  BY <1>1, <1>2, StartTypes DEF TypeOK
<1>3. CASE UNCHANGED <<pc, op>>
  BY <1>1, <1>3 DEF TypeOK
<1> QED
  BY <1>2, <1>3 DEF Deliver

LEMMA CallTypes ==
  ASSUME TypeOK, NEW r \in Requests, Call(r)
  PROVE  TypeOK'
<1>1. op[r].cents \in 0 .. Price /\ Price \in 0 .. Price
  BY EscrowAssumption DEF TypeOK, Ops
<1>2. pi' \in {"captured", "refunded", "canceled"} /\ paid' \in 0 .. Price
  BY <1>1 DEF Call, TypeOK
<1>3. unacked' \subseteq Events
  BY DEF Call, TypeOK, Events
<1>4. pc' \in [Requests -> {"idle", "lock", "call", "write", "commit"}]
  BY DEF Call, TypeOK
<1> QED
  BY <1>2, <1>3, <1>4 DEF Call, TypeOK, rows

LEMMA CommitTypes ==
  ASSUME Inv, NEW r \in Requests, Commit(r)
  PROVE  TypeOK'
<1>1. TypeOK /\ Claim(r) /\ End(r)
  BY DEF Inv, Claims, Commit
<1>2. status' \in {"none", "pending", "escrow", "completed", "disputed", "refunded", "cancelled"}
  BY <1>1 DEF Commit, NewStatus, TypeOK
<1>3. dispute' \in {"none", "open", "negotiating", "escalated", "resolved"}
  BY <1>1 DEF Commit, NewDispute, TypeOK
<1>4. amount' \in 1 .. Price
  <2>1. op[r].cents \in 0 .. Price
    BY <1>1 DEF TypeOK, Ops
  <2>2. Kind(r) = "partial_refund" => op[r].cents > 0
    BY <1>1 DEF Claim, Commit
  <2> QED
    BY <1>1, <2>1, <2>2, EscrowAssumption DEF Commit, TypeOK
<1>5. unacked' \subseteq Events /\ UNCHANGED <<pi, paid, faults>>
  BY <1>1 DEF Commit, TypeOK, stripe
<1> QED
  BY <1>1, <1>2, <1>3, <1>4, <1>5, EndTypes DEF TypeOK

\* The steps of a session before its commit, without the call.
LEMMA WaitTypes ==
  ASSUME TypeOK, NEW r \in Requests,
         \/ LockTransaction(r) \/ CallRefused(r) \/ WriteTransaction(r) \/ WriteDispute(r)
         \/ Abort(r)
  PROVE  TypeOK'
<1>1. faults' \in 0 .. MaxFaults
  BY EscrowAssumption DEF LockTransaction, CallRefused, WriteTransaction, WriteDispute, Abort, TypeOK
<1>2. CASE Rollback(r)
  BY <1>1, <1>2, RollbackTypes
<1>3. CASE ~Rollback(r)
  <2>1. /\ UNCHANGED <<status, amount, dispute, pi, paid, unacked, op>>
        /\ txnLock' \in {txnLock, r} /\ disputeLock' \in {disputeLock, r}
    BY <1>3 DEF LockTransaction, CallRefused, WriteTransaction, WriteDispute, Abort, rows, stripe
  <2>2. \E p \in {"call", "commit"} : pc' = [pc EXCEPT ![r] = p]
    BY <1>3 DEF LockTransaction, CallRefused, WriteTransaction, WriteDispute, Abort
  <2> QED
    BY <1>1, <2>1, <2>2 DEF TypeOK
<1> QED
  BY <1>2, <1>3
-----------------------------------------------------------------------------
(* The theorems.                                                           *)

LEMMA InvInit == Init => Inv
<1> SUFFICES ASSUME Init PROVE Inv
  OBVIOUS
<1>1. NoOp \in Ops /\ Price \in 1 .. Price /\ 0 \in 0 .. Price /\ 0 \in 0 .. MaxFaults
  BY EscrowAssumption DEF NoOp, Ops, Kinds
<1>2. TypeOK
  BY <1>1 DEF Init, TypeOK
<1>3. Claims
  BY DEF Init, Claims, Claim, Kind, NoOp, Resolutions
<1>4. Rows
  BY DEF Init, Rows, StatusBacked, AmountPaid
<1> QED
  BY <1>2, <1>3, <1>4 DEF Inv

LEMMA InvStep == Inv /\ [Next]_vars => Inv'
<1> SUFFICES ASSUME Inv, [Next]_vars PROVE Inv'
  OBVIOUS
<1>1. TypeOK
  BY DEF Inv
<1>2. ASSUME NEW r \in Users, Ask(r) PROVE Inv'
  BY <1>1, <1>2, AskKeeps, AskTypes DEF Inv
<1>3. ASSUME NEW h \in Hooks, NEW e \in Events, Deliver(h, e) PROVE Inv'
  BY <1>1, <1>3, DeliverKeeps, DeliverTypes DEF Inv
<1>4. ASSUME NEW r \in Requests, Step(r) \/ Abort(r) PROVE Inv'
  <2>1. CASE Call(r)
    BY <1>1, <2>1, CallKeeps, CallTypes DEF Inv
  <2>2. CASE Commit(r)
    BY <2>2, CommitKeeps, CommitTypes DEF Inv
  <2>3. CASE \/ LockTransaction(r) \/ CallRefused(r) \/ WriteTransaction(r) \/ WriteDispute(r)
             \/ Abort(r)
    BY <1>1, <2>3, WaitKeeps, WaitTypes DEF Inv
  <2> QED
    BY <1>4, <2>1, <2>2, <2>3 DEF Step
<1>5. CASE Authorize \/ HoldExpire
  <2>1. TypeOK'
    BY <1>1, <1>5 DEF Authorize, HoldExpire, TypeOK, Events, rows
  <2> QED
    BY <1>5, <2>1, HoldKeeps DEF Inv
<1>6. CASE Purchase \/ Deactivate
  <2>1. TypeOK'
    BY <1>1, <1>6 DEF Purchase, Deactivate, TypeOK, stripe
  <2> QED
    BY <1>6, <2>1, PurchaseKeeps DEF Inv
<1>7. CASE UNCHANGED vars
  BY <1>7 DEF vars, Inv, TypeOK, Claims, Claim, Kind, Rows, StatusBacked, AmountPaid
<1> QED
  BY <1>2, <1>3, <1>4, <1>5, <1>6, <1>7 DEF Next

\* Every reachable state of a purchase is well typed; in particular a partial
\* refund never leaves an amount of zero in the row.
THEOREM TypeCorrect == Spec => []TypeOK
<1>1. Inv => TypeOK
  BY DEF Inv
<1> QED
  BY InvInit, InvStep, <1>1, PTL DEF Spec

\* A completed, cancelled or refunded transaction is backed by what Stripe did,
\* whatever order requests, events, rollbacks and expiries come in.
THEOREM StatusBackedHolds == Spec => []StatusBacked
<1>1. Inv => StatusBacked
  BY DEF Inv, Rows
<1> QED
  BY InvInit, InvStep, <1>1, PTL DEF Spec

\* A completed transaction shows the amount that was captured.
THEOREM AmountPaidHolds == Spec => []AmountPaid
<1>1. Inv => AmountPaid
  BY DEF Inv, Rows
<1> QED
  BY InvInit, InvStep, <1>1, PTL DEF Spec

\* An event is let go by its own commit, or when the row is not in escrow.
LEMMA OwesStep == StripeOwes /\ [Next]_vars => StripeOwes'
<1> SUFFICES ASSUME StripeOwes, [Next]_vars, status' = "escrow"
             PROVE  /\ pi' = "captured" => "succeeded" \in unacked'
                    /\ pi' = "canceled" => "canceled" \in unacked'
  BY DEF StripeOwes
<1>1. CASE Purchase
  BY <1>1 DEF Purchase
<1>2. ASSUME NEW r \in Users, Ask(r)
      PROVE  UNCHANGED <<status, pi, unacked>>
  BY <1>2 DEF Ask, LockAndCheck, OpenDispute, Message, Escalate, Resolve, rows, stripe
<1>3. ASSUME NEW h \in Hooks, NEW e \in Events, Deliver(h, e)
      PROVE  /\ UNCHANGED <<status, pi>>
             /\ \/ unacked' = unacked
                \/ status \notin From(e) /\ unacked' = unacked \ {e}
  BY <1>3 DEF Deliver, rows, stripe
<1>4. ASSUME NEW e \in Events, status = "escrow", status \notin From(e)
      PROVE  e = "refunded"
  BY <1>4 DEF From, Events
<1>5. ASSUME NEW r \in Requests, Step(r)
      PROVE  /\ pi' = "captured" => "succeeded" \in unacked'
             /\ pi' = "canceled" => "canceled" \in unacked'
  <2>1. CASE Call(r)
    BY <1>5, <2>1 DEF Call, rows, StripeOwes
  <2>2. CASE Commit(r)
    <3>1. status = "escrow" /\ Kind(r) \notin {"succeeded", "canceled"}
      BY <2>2 DEF Commit, NewStatus
    <3> QED
      BY <2>2, <3>1 DEF Commit, stripe, StripeOwes
  <2>3. CASE LockTransaction(r) \/ CallRefused(r) \/ WriteTransaction(r) \/ WriteDispute(r)
    BY <2>3 DEF LockTransaction, CallRefused, WriteTransaction, WriteDispute, Rollback, rows,
                stripe, StripeOwes
  <2> QED
    BY <1>5, <2>1, <2>2, <2>3 DEF Step
<1>6. ASSUME NEW r \in Requests, Abort(r)
      PROVE  UNCHANGED <<status, pi, unacked>>
  BY <1>6 DEF Abort, Rollback, rows, stripe
<1>7. CASE Authorize \/ HoldExpire \/ Deactivate
  BY <1>7 DEF Authorize, HoldExpire, Deactivate, rows, StripeOwes
<1>8. CASE UNCHANGED vars
  BY <1>8 DEF vars, StripeOwes
<1> QED
  BY <1>1, <1>2, <1>3, <1>4, <1>5, <1>6, <1>7, <1>8 DEF Next, StripeOwes

\* Whatever fails between Stripe and the row, the event that closes the row is still
\* to come: the safety half of Recorded.
THEOREM StripeOwesHolds == Spec => []StripeOwes
<1>1. Init => StripeOwes
  BY DEF Init, StripeOwes
<1> QED
  BY <1>1, OwesStep, PTL DEF Spec

-----------------------------------------------------------------------------
(* The promise.                                                            *)

\* Only the commit of a dispute ends the time without one, and it is alone.
LEMMA OpeningsStep == Inv /\ Openings /\ [Next]_vars => Openings'
<1> SUFFICES ASSUME Inv, Openings, [Next]_vars, NEW r \in Requests PROVE Opening(r)'
  BY DEF Openings
<1>1. TypeOK /\ Opening(r)
  BY DEF Inv, Openings
\* A request that stands still, or is not about to commit a dispute.
<1>2. ASSUME NEW s \in Requests, End(s)
      PROVE  /\ r = s => pc'[r] = "idle"
             /\ r # s => pc'[r] = pc[r] /\ Kind(r)' = Kind(r) /\ (txnLock = r => txnLock' = r)
  BY <1>1, <1>2 DEF End, Free, Kind, TypeOK
<1>3. ASSUME NEW s \in Requests, Ask(s)
      PROVE  Opening(r)'
  <2>1. /\ dispute' = dispute /\ (txnLock = r => txnLock' = r \/ txnLock = NoOne)
        /\ \E there, kind, cents : Start(s, there, kind, cents)
    BY <1>3 DEF Ask, LockAndCheck, OpenDispute, Message, Escalate, Resolve, rows
  <2>2. CASE r # s
    BY <1>1, <2>1, <2>2, EscrowAssumption DEF Opening, Start, Kind, TypeOK
  <2>3. CASE r = s
    <3>1. Kind(r)' = "open_dispute" => pc'[r] = "write"
      <4>1. CASE OpenDispute(r)
        BY <1>1, <4>1 DEF OpenDispute, Start, TypeOK
      <4>2. CASE ~OpenDispute(r)
        BY <1>1, <1>3, <2>3, <4>2 DEF Ask, LockAndCheck, Message, Escalate, Resolve, Start,
                                      Kind, TypeOK
      <4> QED
        BY <4>1, <4>2
    <3> QED
      BY <3>1 DEF Opening
  <2> QED
    BY <2>2, <2>3
<1>4. ASSUME NEW h \in Hooks, NEW e \in Events, Deliver(h, e)
      PROVE  Opening(r)'
  <2>1. h \in Requests /\ txnLock' = txnLock /\ dispute' = dispute /\ e # "open_dispute"
    BY <1>4 DEF Deliver, rows, Requests, Events
  <2>2. CASE Start(h, "write", e, 0)
    BY <1>1, <2>1, <2>2 DEF Opening, Start, Kind, TypeOK
  <2>3. CASE UNCHANGED <<pc, op>>
    BY <1>1, <2>1, <2>3 DEF Opening, Kind
  <2> QED
    BY <1>4, <2>2, <2>3 DEF Deliver
<1>5. ASSUME NEW s \in Requests, Rollback(s)
      PROVE  Opening(r)'
  BY <1>1, <1>2, <1>5 DEF Rollback, rows, Opening
<1>6. ASSUME NEW s \in Requests, LockTransaction(s) \/ WriteTransaction(s) \/ WriteDispute(s),
             ~Rollback(s)
      PROVE  Opening(r)'
  <2>1. UNCHANGED <<op, dispute>>
    BY <1>6 DEF LockTransaction, WriteTransaction, WriteDispute, rows
  <2>2. CASE LockTransaction(s)
    BY <1>1, <1>6, <2>1, <2>2, EscrowAssumption DEF LockTransaction, Opening, Kind, TypeOK
  <2>3. CASE WriteTransaction(s)
    <3>1. /\ txnLock = NoOne /\ txnLock' = s /\ pc' = [pc EXCEPT ![s] = "commit"]
          /\ ~(Kind(s) = "open_dispute" /\ dispute # "none")
      BY <1>6, <2>3 DEF WriteTransaction
    <3> QED
      BY <1>1, <2>1, <3>1, EscrowAssumption DEF Opening, Kind, TypeOK
  <2>4. CASE WriteDispute(s)
    BY <1>1, <2>1, <2>4 DEF WriteDispute, Opening, Kind, Resolutions, TypeOK
  <2> QED
    BY <1>6, <2>2, <2>3, <2>4
<1>7. ASSUME NEW s \in Requests, Call(s)
      PROVE  Opening(r)'
  <2>1. Claim(s) /\ pc[s] = "call" /\ UNCHANGED <<op, dispute, txnLock>>
    BY <1>7 DEF Inv, Claims, Call, rows
  <2>2. Kind(s) # "open_dispute"
    BY <2>1 DEF Claim, Resolutions
  <2> QED
    BY <1>1, <1>7, <2>1, <2>2 DEF Call, Opening, Kind, TypeOK
<1>8. ASSUME NEW s \in Requests, Commit(s)
      PROVE  Opening(r)'
  <2>1. /\ pc[s] = "commit" /\ End(s) /\ dispute' = NewDispute(Kind(s)) /\ Claim(s) /\ Opening(s)
    BY <1>8 DEF Commit, Inv, Claims, Openings
  <2>2. CASE r = s
    BY <1>2, <2>1, <2>2 DEF Opening
  <2>3. CASE r # s
    <3> SUFFICES ASSUME pc'[r] = "commit", Kind(r)' = "open_dispute"
                 PROVE  txnLock' = r /\ dispute' = "none"
      BY DEF Opening
    <3>1. txnLock = r /\ dispute = "none" /\ txnLock' = r
      BY <1>1, <1>2, <2>1, <2>3 DEF Opening
    <3>2. Kind(s) \notin Resolutions \cup {"message", "escalate", "open_dispute"}
      BY <2>1, <2>3, <3>1 DEF Claim, Opening
    <3> QED
      BY <2>1, <3>1, <3>2 DEF NewDispute, Resolutions
  <2> QED
    BY <2>2, <2>3
<1>9. CASE Purchase \/ Authorize \/ HoldExpire \/ Deactivate \/ UNCHANGED vars
  BY <1>1, <1>9 DEF Purchase, Authorize, HoldExpire, Deactivate, vars, rows, Opening, Kind
<1>10. Users \subseteq Requests
  BY DEF Requests
<1> QED
  BY <1>3, <1>4, <1>5, <1>6, <1>7, <1>8, <1>9, <1>10 DEF Next, Step, CallRefused, Abort

\* A step that changes neither the payment nor the rows.
LEMMA Stutters ==
  ASSUME UNCHANGED <<rows, stripe>>
  PROVE  UNCHANGED Promise!vars
BY DEF Promise!vars, Money, Book, Shown, Verdict, rows, stripe

\* The payment moves and no record with it: none that shows it is there yet,
\* or it shows what stays true.
LEMMA MoneyMoves ==
  ASSUME Inv, Inv', UNCHANGED rows,
         \/ pi \in {"new", "held"} /\ pi' = "captured" /\ paid' \in 1 .. Price
         \/ pi \in {"new", "held"} /\ pi' = "canceled" /\ paid' = paid
         \/ pi = "captured" /\ pi' = "refunded" /\ paid' = paid
  PROVE  Promise!Capture \/ Promise!Cancel \/ Promise!Refund
<1>1. Book' = Book /\ Verdict' = Verdict
  BY DEF Book, Verdict, rows
<1>2. Shown' = Shown
  BY DEF Inv, Rows, StatusBacked, Shown, rows
<1>3. CASE pi \in {"new", "held"} /\ pi' = "captured" /\ paid' \in 1 .. Price
  BY <1>1, <1>2, <1>3 DEF Promise!Capture, Money
<1>4. CASE pi \in {"new", "held"} /\ pi' = "canceled" /\ paid' = paid
  BY <1>1, <1>2, <1>4 DEF Promise!Cancel, Money
<1>5. CASE pi = "captured" /\ pi' = "refunded" /\ paid' = paid
  BY <1>1, <1>2, <1>5 DEF Promise!Refund, Money
<1> QED
  BY <1>3, <1>4, <1>5

\* The row is written: what it says then is true of the payment.
LEMMA BookFollows ==
  ASSUME Inv, Inv', UNCHANGED stripe, status # "none", status' # "none"
  PROVE  Promise!Write(Book')
<1>1. Book # "none" /\ Money' = Money /\ paid' = paid
  BY DEF Book, Money, stripe, Inv, TypeOK
<1>2. Book' \in Promise!Entries
  <2>1. /\ Book' \in {"open", "completed", "cancelled", "refunded"}
        /\ Book' # "open" => Book' = status'
    BY DEF Book, Inv, TypeOK
  <2>2. /\ Book' = "completed" => pi \in {"none", "captured", "refunded"}
        /\ Book' = "cancelled" => pi \in {"none", "canceled"}
        /\ Book' = "refunded" => pi \in {"none", "refunded"}
    BY <2>1 DEF Inv, Rows, StatusBacked, stripe
  <2>3. pi \in {"none", "new", "held", "captured", "canceled", "refunded"}
    BY DEF Inv, TypeOK
  <2> QED
    BY <2>1, <2>2, <2>3 DEF Promise!Entries, Money
<1>3. Shown' = IF Book' = "completed" /\ Money # "none" THEN paid ELSE 0
  <2>1. Book' = "completed" <=> status' = "completed"
    BY DEF Book
  <2>2. Money = "none" <=> pi = "none"
    BY DEF Money
  <2>3. pi' = pi /\ (status' = "completed" /\ pi # "none" => amount' = paid)
    BY DEF Inv, Rows, AmountPaid, stripe
  <2> QED
    BY <2>1, <2>2, <2>3 DEF Shown
<1> QED
  BY <1>1, <1>2, <1>3 DEF Promise!Write

LEMMA CommitFollows ==
  ASSUME Inv, Inv', Openings, NEW r \in Requests, Commit(r)
  PROVE  Promise!Next
<1>1. /\ Claim(r) /\ Opening(r) /\ pc[r] = "commit" /\ status # "none" /\ UNCHANGED stripe
      /\ status' = NewStatus(Kind(r)) /\ dispute' = NewDispute(Kind(r))
      /\ amount' = IF Kind(r) = "partial_refund" THEN op[r].cents ELSE amount
  BY DEF Inv, Claims, Claim, Openings, Commit
<1>2. status' # "none"
  BY <1>1 DEF NewStatus
<1>3. Promise!Write(Book') /\ Book' \in {"open", "completed", "cancelled", "refunded"}
  BY <1>1, <1>2, BookFollows DEF Inv, TypeOK, Book
<1>4. CASE Kind(r) \in Resolutions
  <2>1. Verdict' = "given"
    BY <1>1, <1>4 DEF NewDispute, Verdict, Resolutions
  <2>2. Book' \in {"completed", "cancelled"}
    BY <1>1, <1>4 DEF NewStatus, Book, Resolutions
  <2>3. Money \in {"captured", "canceled", "refunded"}
    BY <1>1, <1>4 DEF Claim, Money, Resolutions
  <2> QED
    BY <1>3, <2>1, <2>2, <2>3 DEF Promise!Next, Promise!Decide
<1>5. CASE Kind(r) \in {"message", "escalate"}
  <2>1. status' = status /\ amount' = amount /\ Verdict' = "due"
    BY <1>1, <1>5 DEF NewStatus, NewDispute, Verdict, Resolutions
  <2>2. Money' = Money /\ Book' = Book /\ Shown' = Shown /\ paid' = paid
    BY <1>1, <2>1 DEF Money, Book, Shown, stripe
  <2> QED
    BY <2>1, <2>2 DEF Promise!Next, Promise!Reopen
<1>6. CASE Kind(r) \notin Resolutions \cup {"message", "escalate"}
  <2>1. Verdict' = Verdict
    BY <1>1, <1>6 DEF NewDispute, Verdict, Opening
  <2> QED
    BY <1>3, <2>1 DEF Promise!Next, Promise!Enter
<1> QED
  BY <1>4, <1>5, <1>6

LEMMA StepFollows == Inv /\ Inv' /\ Openings /\ [Next]_vars => [Promise!Next]_(Promise!vars)
<1> SUFFICES ASSUME Inv, Inv', Openings, [Next]_vars
             PROVE  Promise!Next \/ UNCHANGED Promise!vars
  OBVIOUS
<1>1. CASE Purchase
  <2>1. /\ UNCHANGED <<amount, dispute, paid>> /\ status = "none" /\ pi = "none"
        /\ status' \in {"completed", "escrow", "pending"}
        /\ pi' = IF status' = "escrow" THEN "new" ELSE "none"
    BY <1>1 DEF Purchase, Inv, Rows
  <2>2. /\ Book = "none" /\ Shown = 0 /\ Shown' = 0 /\ Verdict' = Verdict /\ paid' = paid
        /\ \/ Money' = "open" /\ Book' = "open"
           \/ Money' = "none" /\ Book' \in {"open", "completed"}
    BY <2>1 DEF Book, Shown, Verdict, Money
  <2> QED
    BY <2>2 DEF Promise!Next, Promise!Order
<1>2. ASSUME NEW r \in Users, Ask(r)
      PROVE  UNCHANGED <<rows, stripe>>
  BY <1>2 DEF Ask, LockAndCheck, OpenDispute, Message, Escalate, Resolve
<1>3. ASSUME NEW h \in Hooks, NEW e \in Events, Deliver(h, e)
      PROVE  UNCHANGED <<rows, stripe>>
  BY <1>3 DEF Deliver
<1>4. ASSUME NEW r \in Requests,
             \/ LockTransaction(r) \/ CallRefused(r) \/ WriteTransaction(r) \/ WriteDispute(r)
             \/ Abort(r)
      PROVE  UNCHANGED <<rows, stripe>>
  BY <1>4 DEF LockTransaction, CallRefused, WriteTransaction, WriteDispute, Abort, Rollback
<1>5. ASSUME NEW r \in Requests, Call(r)
      PROVE  Promise!Next
  <2>1. UNCHANGED rows /\ Claim(r) /\ pc[r] = "call"
    BY <1>5 DEF Call, Inv, Claims
  <2>2. \/ pi \in {"new", "held"} /\ pi' = "captured" /\ paid' \in 1 .. Price
        \/ pi \in {"new", "held"} /\ pi' = "canceled" /\ paid' = paid
        \/ pi = "captured" /\ pi' = "refunded" /\ paid' = paid
    <3>1. CASE Captures(r)
      <4>1. paid' \in 1 .. Price
        BY <1>5, <2>1, <3>1, EscrowAssumption DEF Call, Claim, Inv, TypeOK, Ops
      <4> QED
        BY <1>5, <3>1, <4>1 DEF Call, Accepts, Captures
    <3>2. CASE ~Captures(r)
      <4>1. Kind(r) \in {"cancel", "cancel_auth", "refund"}
        BY <2>1, <3>2 DEF Claim, Captures, Resolutions
      <4> QED
        BY <1>5, <3>2, <4>1 DEF Call, Accepts
    <3> QED
      BY <3>1, <3>2
  <2> QED
    BY <2>1, <2>2, MoneyMoves DEF Promise!Next
<1>6. ASSUME NEW r \in Requests, Commit(r)
      PROVE  Promise!Next
  BY <1>6, CommitFollows
<1>7. CASE Authorize
  BY <1>7 DEF Authorize, Promise!vars, Money, Book, Shown, Verdict, rows
<1>8. CASE HoldExpire
  BY <1>8, MoneyMoves DEF HoldExpire, Promise!Next
<1>9. CASE Deactivate
  <2>1. Promise!Write(Book') /\ Book' = "cancelled" /\ Verdict' = Verdict
    BY <1>9, BookFollows DEF Deactivate, Book, Verdict
  <2> QED
    BY <2>1 DEF Promise!Next, Promise!Enter
<1>10. CASE UNCHANGED vars
  BY <1>10, Stutters DEF vars, rows, stripe
<1> QED
  BY <1>1, <1>2, <1>3, <1>4, <1>5, <1>6, <1>7, <1>8, <1>9, <1>10, Stutters DEF Next, Step

\* Whatever requests, events, failed commits and expiries come together, a
\* purchase does what Settlement promises: its payment is captured or canceled
\* once, no record runs ahead of it or shows another amount, and a dispute is
\* decided only together with a true entry of where the money went.
THEOREM ImplementsSettlement == Spec => Settles
<1>1. Init => Promise!Init
  BY DEF Init, Promise!Init, Money, Book, Shown, Verdict
<1>2. Init => Inv /\ Openings
  BY InvInit DEF Init, Openings, Opening
<1>3. Inv /\ Openings /\ [Next]_vars => Inv' /\ Openings'
  BY InvStep, OpeningsStep
<1> QED
  BY <1>1, <1>2, <1>3, StepFollows, PTL DEF Spec, Settles, Promise!Spec
=============================================================================
