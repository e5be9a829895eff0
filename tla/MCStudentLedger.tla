--------------------------- MODULE MCStudentLedger ---------------------------
(***************************************************************************)
(* Small instances of StudentLedger for TLC.  One run holds four scenes,   *)
(* chosen in the initial state, so that their sizes add up: the desk with  *)
(* invoices, discounts and idempotency keys; card receipts; and the        *)
(* callbacks of one link, Click's or Payme's, beside the desk.             *)
(***************************************************************************)
EXTENDS StudentLedger, TLC

CONSTANTS e1, r1, r2, k1, c1, m1, a1, a2, b1, b2, q1, q2

VARIABLE scene

MCPrice == [e \in Enrollments |-> 2]
MCIdOf == [l \in Links |-> IF l = c1 THEN {a1, a2} ELSE {b1, b2}]

(* Sums of one, and no second invoice, where the scene is not about sums. *)
Units ==
    /\ \A p \in Payments : payments'[p].amount <= 1
    /\ \A i \in Invoices : invoices'[i].amount <= 1 /\ invoices'[i].enrollment = NoId
    /\ invoices'[2].status = "NONE"

(* Two payments, and a PENDING one only in its simplest form. *)
TwoPayments ==
    /\ payments'[3].status = "NONE"
    /\ \A p \in Payments : payments'[p].status = "PENDING" =>
         payments'[p].amount = 1 /\ payments'[p].discount = 0 /\ payments'[p].key = NoId

(* A payment at the desk with no key and no discount. *)
TakeCash ==
    \E p \in Payments, i \in Invoices \cup {NoInvoice} : TakePayment(p, 1, 0, "CASH", "PAID", NoId, i)

IssueOrCancel ==
    \E i \in Invoices : CancelInvoice(i) \/ \E a \in Amounts : CreateInvoice(i, NoId, a)

Through(l) ==
    \/ \E a \in Amounts, i \in Invoices \cup {NoInvoice} : MakeLink(l, a, i)
    \/ \E q \in Requests, kind \in {"PREPARE", "SETTLE", "CANCEL"}, x \in Ids : Receive(q, kind, l, x)
    \/ \E q \in Requests : Prepare(q) \/ Cancel(q) \/ \E p \in Payments : Settle(q, p)

MCInit ==
    /\ LedgerInit
    /\ scene \in {"DESK", "RECEIPTS", "CLICK", "PAYME"}
    /\ scene # "RECEIPTS" => \A r \in Receipts : receipts[r].status = "NONE"

MCNext ==
    /\ UNCHANGED scene
    /\ \/ scene = "DESK" /\ (DeskNext \/ InvoiceNext) /\ TwoPayments
       \/ scene = "RECEIPTS" /\ (ReceiptNext \/ IssueOrCancel \/ \E p \in Payments : VoidPayment(p))
       \/ scene = "CLICK" /\ (Through(c1) \/ TakeCash \/ IssueOrCancel) /\ Units
       \/ scene = "PAYME" /\ (Through(m1) \/ TakeCash \/ IssueOrCancel) /\ Units

MCSpec == MCInit /\ [][MCNext]_<<ledgerVars, scene>>
=============================================================================
