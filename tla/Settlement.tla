------------------------------ MODULE Settlement -----------------------------
(***************************************************************************)
(* What a marketplace purchase promises about money and records            *)
(* (src/api/marketplace_router.py, src/api/disputes_router.py).  The       *)
(* payment is captured or canceled, once, and at most refunded after that. *)
(* The book is a second system that follows it: no step changes both, an   *)
(* entry is made only of what has happened to the money, with the amount   *)
(* that was captured, and a dispute gets its verdict with such an entry.   *)
(*                                                                         *)
(* Escrow implements this with requests, row locks, Stripe's calls and     *)
(* events.                                                                 *)
(***************************************************************************)
EXTENDS Naturals

CONSTANT Price

VARIABLES
  money,    \* the payment: "open" until it is captured or canceled
  cents,    \* the cents that were captured
  book,     \* what the record says
  shown,    \* the cents a completed record shows for its payment
  verdict   \* on a dispute, "due" or "given"

vars == <<money, cents, book, shown, verdict>>

Init ==
  /\ money = "none"
  /\ cents = 0
  /\ book = "none"
  /\ shown = 0
  /\ verdict = "due"

\* The purchase, with a payment or without one; only what needs no payment is
\* completed at once.
Order ==
  /\ book = "none"
  /\ \/ money' = "open" /\ book' = "open"
     \/ money' = "none" /\ book' \in {"open", "completed"}
  /\ UNCHANGED <<cents, shown, verdict>>

Capture ==
  /\ money = "open"
  /\ money' = "captured"
  /\ cents' \in 1 .. Price
  /\ UNCHANGED <<book, shown, verdict>>

Cancel ==
  /\ money = "open"
  /\ money' = "canceled"
  /\ UNCHANGED <<cents, book, shown, verdict>>

Refund ==
  /\ money = "captured"
  /\ money' = "refunded"
  /\ UNCHANGED <<cents, book, shown, verdict>>

\* The entries that are true of the money, or were.
Entries ==
  CASE money = "none" -> {"open", "completed", "cancelled", "refunded"}
    [] money = "open" -> {"open"}
    [] money = "captured" -> {"open", "completed"}
    [] money = "canceled" -> {"open", "cancelled"}
    [] OTHER -> {"open", "completed", "refunded"}

Write(entry) ==
  /\ book # "none"
  /\ entry \in Entries
  /\ book' = entry
  /\ shown' = IF entry = "completed" /\ money # "none" THEN cents ELSE 0
  /\ UNCHANGED <<money, cents>>

\* A request or an event of Stripe closes the record, or a dispute opens it.
Enter(entry) == Write(entry) /\ UNCHANGED verdict

\* A dispute is decided when the money has moved and the record says where to.
Decide(entry) ==
  /\ money \in {"captured", "canceled", "refunded"}
  /\ entry \in {"completed", "cancelled"}
  /\ Write(entry)
  /\ verdict' = "given"

\* A message or an escalation that read the dispute before its verdict; the
\* record stays.
Reopen ==
  /\ verdict' = "due"
  /\ UNCHANGED <<money, cents, book, shown>>

Next ==
  \/ Order \/ Capture \/ Cancel \/ Refund \/ Reopen
  \/ \E entry \in {"open", "completed", "cancelled", "refunded"} :
       Enter(entry) \/ Decide(entry)

Spec == Init /\ [][Next]_vars
=============================================================================
