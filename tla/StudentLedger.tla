---------------------------- MODULE StudentLedger ----------------------------
(***************************************************************************)
(* The money of one student for one month: invoices, payments taken at the *)
(* desk, by card receipt and through the center's Click / Payme account,   *)
(* the allocations between them, and what the student still owes           *)
(* (backend/src/payments, invoices, billing, card-payments, ledger).       *)
(*                                                                         *)
(* Whatever changes the balance runs in one transaction that holds the     *)
(* student's ledger lock (lockStudentLedger): such an operation is one     *)
(* step.  The gateway's callbacks read the link's row first, without a     *)
(* lock, and write later: they are two steps, and several are on their way *)
(* at once.  Ids stand for an order: invoices by due date, payments by the *)
(* date they were paid.                                                    *)
(***************************************************************************)
EXTENDS Integers, FiniteSets, Functions

CONSTANTS
    NumInvoices, NumPayments,   \* rows there is room for
    Enrollments, Price,         \* active enrollments, the month's price of each
    Amounts, Discounts,         \* sums of money (0 is added where the code allows it)
    Methods, DeskStatuses,      \* what staff may enter
    Keys,                       \* idempotency keys of the desk
    Receipts, LegacyReceipts,   \* card receipts; those with a payment of the earlier code
    ClickLinks, PaymeLinks,     \* payment links, rows of billing_transactions
    IdOf,                       \* link -> the provider's ids of payments through it
    Requests,                   \* callbacks on their way
    NoId

Invoices == 1 .. NumInvoices
Payments == 1 .. NumPayments
Links == ClickLinks \cup PaymeLinks
Ids == UNION {IdOf[l] : l \in Links}
NoInvoice == 0
NoPayment == 0

ASSUME LedgerAssumption ==
    /\ NumInvoices \in Nat /\ NumPayments \in Nat
    /\ Price \in [Enrollments -> Nat \ {0}] /\ IsFiniteSet(Enrollments)
    /\ Amounts \subseteq Nat \ {0} /\ Discounts \subseteq Nat \ {0}
    /\ Methods \subseteq {"CASH", "BANK_TRANSFER", "ONLINE"}
    /\ DeskStatuses \subseteq {"PAID", "PENDING", "FAILED"}
    /\ LegacyReceipts \subseteq Receipts
    /\ NoId \notin Ids \cup Keys \cup Receipts \cup Enrollments \cup Links
    /\ \A l, m \in Links : l # m => IdOf[l] \cap IdOf[m] = {}
    /\ Keys \cap Receipts = {}

VARIABLES
    invoices, payments, allocations,   \* the tables of those names
    receipts,                          \* payment_claims
    links,                             \* billing_transactions
    callbacks,                         \* callbacks that have read their link
    accepted,                          \* external: ids whose Prepare / Create was answered
    taken,                             \* external: ids whose money the provider has taken
    crossed,                           \* history: links whose callbacks overlapped
    dayClosed                          \* a row of cash_closings for the day

ledgerVars == <<invoices, payments, allocations, receipts, links, callbacks, accepted, taken,
                crossed, dayClosed>>

-----------------------------------------------------------------------------
(* Rows *)

InvoiceRows == [status : {"NONE", "OPEN", "PARTIALLY_PAID", "PAID", "OVERDUE", "CANCELLED"},
                enrollment : Enrollments \cup {NoId},
                amount : Nat, amountPaid : Nat, remaining : Nat]

(* key: a desk's key or, for a card receipt's payment, the receipt. *)
PaymentRows == [status : {"NONE", "PAID", "PENDING", "FAILED", "VOIDED"},
                amount : Nat, discount : Nat, method : {"CASH", "BANK_TRANSFER", "ONLINE"},
                key : Keys \cup Receipts \cup {NoId}, id : Ids \cup {NoId},
                link : Links \cup {NoId}]

AllocationRows == [payment : Payments, invoice : Invoices, amount : Nat, waived : Nat]

ReceiptRows == [status : {"NONE", "PENDING", "CONFIRMED", "REJECTED"}, amount : Nat,
                invoice : 0 .. NumInvoices, payment : 0 .. NumPayments]

LinkRows == [status : {"NONE", "CREATED", "PENDING", "PAID", "CANCELLED"}, amount : Nat,
             invoice : 0 .. NumInvoices, id : Ids \cup {NoId}, payment : 0 .. NumPayments]

Callbacks == [kind : {"NONE", "PREPARE", "SETTLE", "CANCEL"}, link : Links \cup {NoId},
              id : Ids \cup {NoId}]

NoInvoiceRow == [status |-> "NONE", enrollment |-> NoId, amount |-> 0, amountPaid |-> 0,
                 remaining |-> 0]
NoPaymentRow == [status |-> "NONE", amount |-> 0, discount |-> 0, method |-> "CASH",
                 key |-> NoId, id |-> NoId, link |-> NoId]
NoReceiptRow == [status |-> "NONE", amount |-> 0, invoice |-> NoInvoice, payment |-> NoPayment]
NoLinkRow == [status |-> "NONE", amount |-> 0, invoice |-> NoInvoice, id |-> NoId,
              payment |-> NoPayment]
NoCallback == [kind |-> "NONE", link |-> NoId, id |-> NoId]

(* There may be a receipt of the earlier code: PENDING beside a payment made for it. *)
LedgerInit ==
    /\ invoices = [i \in Invoices |-> NoInvoiceRow]
    /\ allocations = {}
    /\ \E legacy \in LegacyReceipts \cup {NoId}, a \in Amounts :
         /\ payments = [p \in Payments |->
                          IF p = 1 /\ legacy # NoId
                          THEN [NoPaymentRow EXCEPT !.status = "PAID", !.amount = a,
                                            !.method = "BANK_TRANSFER", !.key = legacy]
                          ELSE NoPaymentRow]
         /\ receipts = [r \in Receipts |->
                          IF r = legacy
                          THEN [NoReceiptRow EXCEPT !.status = "PENDING", !.amount = a]
                          ELSE NoReceiptRow]
    /\ links = [l \in Links |-> NoLinkRow]
    /\ callbacks = [q \in Requests |-> NoCallback]
    /\ accepted = {}
    /\ taken = {}
    /\ crossed = {}
    /\ dayClosed = FALSE

-----------------------------------------------------------------------------
(* allocation.ts *)

AtMost(sum, bound) == IF sum \in 0 .. bound THEN sum ELSE bound

Nothing == [amount |-> 0, waived |-> 0]

(* Mutant: the discount is given on top of what the money paid. *)
TakesTwice(i, left) ==
    [amount |-> AtMost(left.amount, invoices[i].remaining),
     waived |-> AtMost(left.waived, invoices[i].remaining)]

(* What an invoice takes of the money and the discount that are left. *)
Takes(i, left) ==
    LET paid == AtMost(left.amount, invoices[i].remaining) IN
    [amount |-> paid, waived |-> AtMost(left.waived, invoices[i].remaining - paid)]

(* allocateToInvoices: money, then discount, in the order of the due dates. *)
Shares(targets, amount, discount) ==
    LET left[i \in 0 .. NumInvoices] ==
          IF i = 0 THEN [amount |-> amount, waived |-> discount]
          ELSE IF i \notin targets THEN left[i - 1]
          ELSE LET t == Takes(i, left[i - 1]) IN
               [amount |-> left[i - 1].amount - t.amount, waived |-> left[i - 1].waived - t.waived]
    IN [i \in Invoices |-> IF i \in targets THEN Takes(i, left[i - 1]) ELSE Nothing]

(* An invoice after a share of a payment. *)
Credited(invoice, share) ==
    [invoice EXCEPT !.amountPaid = @ + share.amount,
                    !.remaining = @ - share.amount - share.waived,
                    !.status = IF invoice.remaining = share.amount + share.waived
                               THEN "PAID" ELSE "PARTIALLY_PAID"]

RowsOf(p) == {a \in allocations : a.payment = p}

Exists(i) == invoices[i].status # "NONE"

(* lockOpenInvoices *)
OpenInvoices ==
    {i \in Invoices : invoices[i].status \notin {"NONE", "CANCELLED"} /\ invoices[i].remaining > 0}

(* A payment and its allocations: the rest of createInTx and of the gateway. *)
Pay(p, payment, targets) ==
    LET shares == Shares(targets, payment.amount, payment.discount)
        touched == {i \in targets : shares[i] # Nothing} IN
    /\ payments[p].status = "NONE"
    /\ payments' = [payments EXCEPT ![p] = payment]
    /\ allocations' = allocations \cup
         {[payment |-> p, invoice |-> i, amount |-> shares[i].amount, waived |-> shares[i].waived] :
            i \in touched}
    /\ invoices' = [i \in Invoices |->
                      IF i \in touched THEN Credited(invoices[i], shares[i]) ELSE invoices[i]]

-----------------------------------------------------------------------------
(* The desk and card receipts *)

KeyUsed(key) == \E p \in Payments : payments[p].status # "NONE" /\ payments[p].key = key

(* createInTx: a key that made a payment returns it, so nothing happens. *)
CreateInTx(p, payment, invoice) ==
    /\ payments[p].status = "NONE"
    /\ payment.amount + payment.discount > 0
    /\ payment.key # NoId => ~KeyUsed(payment.key)
    /\ invoice # NoInvoice =>
         /\ invoices[invoice].status \notin {"NONE", "CANCELLED"}
         /\ payment.amount + payment.discount <= invoices[invoice].remaining
    /\ Pay(p, payment, IF payment.status # "PAID" THEN {}
                       ELSE IF invoice = NoInvoice THEN OpenInvoices ELSE {invoice})

TakePayment(p, amount, discount, method, status, key, invoice) ==
    /\ CreateInTx(p, [NoPaymentRow EXCEPT !.status = status, !.amount = amount,
                         !.discount = discount, !.method = method, !.key = key], invoice)
    /\ UNCHANGED <<receipts, links, callbacks, accepted, taken, crossed, dayClosed>>

(* Mutant: the discount is not put back. *)
UncreditedWithoutWaived(invoice, rows) ==
    LET amount == SumFunction([a \in rows |-> a.amount])
        paid == IF amount \in 0 .. invoice.amountPaid THEN invoice.amountPaid - amount ELSE 0
        remaining == AtMost(invoice.remaining + amount, invoice.amount) IN
    [invoice EXCEPT !.amountPaid = paid, !.remaining = remaining]

(* An invoice after the given allocations are taken off it again. *)
Uncredited(invoice, rows) ==
    LET amount == SumFunction([a \in rows |-> a.amount])
        waived == SumFunction([a \in rows |-> a.waived])
        paid == IF amount \in 0 .. invoice.amountPaid THEN invoice.amountPaid - amount ELSE 0
        remaining == AtMost(invoice.remaining + amount + waived, invoice.amount) IN
    [invoice EXCEPT !.amountPaid = paid, !.remaining = remaining,
                    !.status = IF @ = "CANCELLED" THEN @
                               ELSE IF remaining = 0 THEN "PAID"
                               ELSE IF paid > 0 \/ remaining < invoice.amount
                               THEN "PARTIALLY_PAID" ELSE "OPEN"]

(* voidPayment; a discount whose allocations waived nothing is refused. *)
Voidable(p) ==
    /\ payments[p].status = "PAID"
    /\ payments[p].method # "ONLINE"
    /\ \A r \in Receipts : receipts[r].payment # p
    /\ payments[p].method = "CASH" => ~dayClosed
    /\ payments[p].discount > 0 =>
         RowsOf(p) = {} \/ \E a \in RowsOf(p) : a.waived > 0

VoidPayment(p) ==
    /\ Voidable(p)
    /\ invoices' = [i \in Invoices |->
                      LET rows == {a \in RowsOf(p) : a.invoice = i} IN
                      IF rows = {} THEN invoices[i] ELSE Uncredited(invoices[i], rows)]
    /\ allocations' = allocations \ RowsOf(p)
    /\ payments' = [payments EXCEPT ![p].status = "VOIDED"]
    /\ UNCHANGED <<receipts, links, callbacks, accepted, taken, crossed, dayClosed>>

(* close: the cash of the day is counted. *)
CloseDay ==
    /\ ~dayClosed
    /\ dayClosed' = TRUE
    /\ UNCHANGED <<invoices, payments, allocations, receipts, links, callbacks, accepted, taken,
                   crossed>>

(* submit: the key names the receipt, so the same send makes no second one. *)
SubmitReceipt(r, amount, invoice) ==
    /\ receipts[r].status = "NONE"
    /\ invoice # NoInvoice => invoices[invoice].status \notin {"NONE", "CANCELLED"}
    /\ receipts' = [receipts EXCEPT ![r] = [NoReceiptRow EXCEPT !.status = "PENDING",
                                              !.amount = amount, !.invoice = invoice]]
    /\ UNCHANGED <<invoices, payments, allocations, links, callbacks, accepted, taken, crossed,
                   dayClosed>>

Confirmed(r, amount, p) ==
    receipts' = [receipts EXCEPT ![r].status = "CONFIRMED", ![r].amount = amount,
                                 ![r].payment = p]

ReceiptKey(r) == r

(* confirm, at the amount staff saw: adopts the payment of the earlier code or makes one. *)
ConfirmReceipt(r, seen, p) ==
    /\ receipts[r].status = "PENDING"
    /\ \/ /\ payments[p].status # "NONE" /\ payments[p].key = r
          /\ Confirmed(r, payments[p].amount, p)
          /\ UNCHANGED <<invoices, payments, allocations>>
       \/ /\ ~KeyUsed(r)
          /\ CreateInTx(p, [NoPaymentRow EXCEPT !.status = "PAID", !.amount = seen,
                              !.method = "BANK_TRANSFER", !.key = ReceiptKey(r)], receipts[r].invoice)
          /\ Confirmed(r, seen, p)
    /\ UNCHANGED <<links, callbacks, accepted, taken, crossed, dayClosed>>

(* Mutant: the payment of the earlier code is not looked for. *)
RejectsAlways(r) == receipts[r].status = "PENDING"

Rejectable(r) == receipts[r].status = "PENDING" /\ ~KeyUsed(r)

RejectReceipt(r) ==
    /\ Rejectable(r)
    /\ receipts' = [receipts EXCEPT ![r].status = "REJECTED"]
    /\ UNCHANGED <<invoices, payments, allocations, links, callbacks, accepted, taken, crossed,
                   dayClosed>>

-----------------------------------------------------------------------------
(* Invoices *)

(* Mutant: payments that already went to an invoice are counted again. *)
LooseTwice == {p \in Payments : payments[p].status = "PAID"}

(* applyUnallocatedPayments: PAID payments with no allocation at all. *)
Loose == {p \in Payments : payments[p].status = "PAID" /\ RowsOf(p) = {}}

(* The invoice and what it takes of the loose payments, the first paid first. *)
Issue(i, enrollment, amount) ==
    LET left[p \in 0 .. NumPayments] ==
          IF p = 0 THEN amount
          ELSE IF p \in Loose THEN left[p - 1] - AtMost(left[p - 1], payments[p].amount)
          ELSE left[p - 1]
        used == {p \in Loose : left[p - 1] > 0}
        remaining == AtMost(left[NumPayments], amount) IN
    /\ invoices[i].status = "NONE"
    /\ invoices' = [invoices EXCEPT ![i] =
                      [status |-> IF used = {} THEN "OPEN"
                                  ELSE IF remaining = 0 THEN "PAID" ELSE "PARTIALLY_PAID",
                       enrollment |-> enrollment, amount |-> amount,
                       amountPaid |-> amount - remaining, remaining |-> remaining]]
    /\ allocations' = allocations \cup
         {[payment |-> p, invoice |-> i, amount |-> AtMost(left[p - 1], payments[p].amount),
           waived |-> 0] : p \in used}
    /\ UNCHANGED <<payments, receipts, links, callbacks, accepted, taken, crossed, dayClosed>>

CreateInvoice(i, enrollment, amount) == Issue(i, enrollment, amount)

(* generateMonthly: one invoice per enrollment and month, a cancelled one included. *)
GenerateMonthly(i, e) ==
    /\ \A j \in Invoices : Exists(j) => invoices[j].enrollment # e
    /\ Issue(i, e, Price[e])

(* Mutant: only the status is looked at. *)
CancellableByStatus(i) == invoices[i].status \notin {"NONE", "CANCELLED", "PAID"}

(* cancel: the UPDATE's own condition, for a payment may have come since the check. *)
Cancellable(i) ==
    invoices[i].status \notin {"NONE", "CANCELLED", "PAID"} /\ invoices[i].amountPaid = 0

CancelInvoice(i) ==
    /\ Cancellable(i)
    /\ invoices' = [invoices EXCEPT ![i].status = "CANCELLED"]
    /\ UNCHANGED <<payments, allocations, receipts, links, callbacks, accepted, taken, crossed,
                   dayClosed>>

(* markOverdueInvoices, when the invoices up to k are past their due date. *)
MarkOverdue(k) ==
    /\ invoices' = [i \in Invoices |->
                      IF i <= k /\ invoices[i].status \in {"OPEN", "PARTIALLY_PAID"}
                      THEN [invoices[i] EXCEPT !.status = "OVERDUE"] ELSE invoices[i]]
    /\ UNCHANGED <<payments, allocations, receipts, links, callbacks, accepted, taken, crossed,
                   dayClosed>>

-----------------------------------------------------------------------------
(* The gateway *)

(* createPendingTx: the amount is compared with the invoice's rest, without a lock. *)
MakeLink(l, amount, invoice) ==
    /\ links[l].status = "NONE"
    /\ invoice # NoInvoice =>
         invoices[invoice].status \notin {"NONE", "CANCELLED"} /\ amount <= invoices[invoice].remaining
    /\ links' = [links EXCEPT ![l] = [NoLinkRow EXCEPT !.status = "CREATED", !.amount = amount,
                                        !.invoice = invoice]]
    /\ UNCHANGED <<invoices, payments, allocations, receipts, callbacks, accepted, taken, crossed,
                   dayClosed>>

(* Mutant: a link that is already paid is prepared again. *)
PreparesPaid(kind, l, x) ==
    LET link == links[l] IN
    \/ kind = "PREPARE" /\ (l \in PaymeLinks => link.id # x)
    \/ kind = "SETTLE" /\ link.status # "PAID" /\ x \in accepted
         /\ (l \in PaymeLinks => link.id = x)
    \/ kind = "CANCEL" /\ l \in PaymeLinks /\ link.id = x /\ link.status # "CANCELLED"

(* What the row must say for the handler to go on to its write. *)
Proceeds(kind, l, x) ==
    LET link == links[l] IN
    \/ kind = "PREPARE" /\ link.status # "PAID" /\ (l \in PaymeLinks => link.id # x)
    \/ kind = "SETTLE" /\ link.status # "PAID" /\ x \in accepted
         /\ (l \in PaymeLinks => link.id = x)
    \/ kind = "CANCEL" /\ l \in PaymeLinks /\ link.id = x /\ link.status # "CANCELLED"

(* Two callbacks of a link at once, other than one delivered twice; a refund. *)
Overlaps(kind, l, x) ==
    \/ \E r \in Requests : callbacks[r].link = l /\ <<callbacks[r].kind, callbacks[r].id>> # <<kind, x>>
    \/ kind = "CANCEL" /\ links[l].payment # NoPayment

(* A callback comes and reads the link's row. *)
Receive(q, kind, l, x) ==
    /\ callbacks[q] = NoCallback
    /\ links[l].status # "NONE" /\ x \in IdOf[l]
    /\ Proceeds(kind, l, x)
    /\ callbacks' = [callbacks EXCEPT ![q] = [kind |-> kind, link |-> l, id |-> x]]
    /\ crossed' = IF Overlaps(kind, l, x) THEN crossed \cup {l} ELSE crossed
    /\ UNCHANGED <<invoices, payments, allocations, receipts, links, accepted, taken, dayClosed>>

Done(q) == callbacks' = [callbacks EXCEPT ![q] = NoCallback]

(* Click's Prepare, Payme's CreateTransaction: written by id, whatever the status is by now. *)
Prepare(q) ==
    /\ callbacks[q].kind = "PREPARE"
    /\ links' = [links EXCEPT ![callbacks[q].link].status = "PENDING",
                              ![callbacks[q].link].id = callbacks[q].id]
    /\ accepted' = accepted \cup {callbacks[q].id}
    /\ Done(q)
    /\ UNCHANGED <<invoices, payments, allocations, receipts, taken, crossed, dayClosed>>

(* Mutant: no payment of the same provider id is looked for. *)
NeverRecorded(x) == FALSE

Recorded(x) == \E p \in Payments : payments[p].status # "NONE" /\ payments[p].id = x

(* The named invoice unless it is cancelled, else the month's open ones. *)
LinkTargets(link) ==
    IF link.invoice = NoInvoice THEN OpenInvoices
    ELSE {i \in {link.invoice} : invoices[i].status # "CANCELLED"}

(* executeFinalizePayment (Complete, PerformTransaction); answered with success. *)
Settle(q, p) ==
    LET l == callbacks[q].link
        x == callbacks[q].id IN
    /\ callbacks[q].kind = "SETTLE"
    /\ \/ /\ links[l].status = "PAID"
          /\ UNCHANGED <<invoices, payments, allocations, links>>
       \/ /\ links[l].status # "PAID" /\ Recorded(x)
          /\ links' = [links EXCEPT ![l].status = "PAID"]
          /\ UNCHANGED <<invoices, payments, allocations>>
       \/ /\ links[l].status # "PAID" /\ ~Recorded(x)
          /\ Pay(p, [NoPaymentRow EXCEPT !.status = "PAID", !.amount = links[l].amount,
                       !.method = "ONLINE", !.id = x, !.link = l], LinkTargets(links[l]))
          /\ links' = [links EXCEPT ![l].status = "PAID", ![l].id = x, ![l].payment = p]
    /\ taken' = taken \cup {x}
    /\ Done(q)
    /\ UNCHANGED <<receipts, accepted, crossed, dayClosed>>

(* CancelTransaction: by id, whatever the status is by now; the payment stays. *)
Cancel(q) ==
    /\ callbacks[q].kind = "CANCEL"
    /\ links' = [links EXCEPT ![callbacks[q].link].status = "CANCELLED"]
    /\ Done(q)
    /\ UNCHANGED <<invoices, payments, allocations, receipts, accepted, taken, crossed,
                   dayClosed>>

-----------------------------------------------------------------------------
DeskNext ==
    \/ \E p \in Payments, a \in Amounts \cup {0}, d \in Discounts \cup {0}, m \in Methods,
         s \in DeskStatuses, k \in Keys \cup {NoId}, i \in Invoices \cup {NoInvoice} :
         TakePayment(p, a, d, m, s, k, i)
    \/ \E p \in Payments : VoidPayment(p)
    \/ CloseDay

InvoiceNext ==
    \/ \E i \in Invoices, e \in Enrollments \cup {NoId}, a \in Amounts : CreateInvoice(i, e, a)
    \/ \E i \in Invoices, e \in Enrollments : GenerateMonthly(i, e)
    \/ \E i \in Invoices : CancelInvoice(i) \/ MarkOverdue(i)

ReceiptNext ==
    \E r \in Receipts :
        \/ \E a \in Amounts, i \in Invoices \cup {NoInvoice} : SubmitReceipt(r, a, i)
        \/ \E a \in Amounts, p \in Payments : ConfirmReceipt(r, a, p)
        \/ RejectReceipt(r)

GatewayNext ==
    \/ \E l \in Links, a \in Amounts, i \in Invoices \cup {NoInvoice} : MakeLink(l, a, i)
    \/ \E q \in Requests, kind \in {"PREPARE", "SETTLE", "CANCEL"}, l \in Links, x \in Ids :
         Receive(q, kind, l, x)
    \/ \E q \in Requests : Prepare(q) \/ Cancel(q) \/ \E p \in Payments : Settle(q, p)

LedgerNext == DeskNext \/ InvoiceNext \/ ReceiptNext \/ GatewayNext

LedgerSpec == LedgerInit /\ [][LedgerNext]_ledgerVars

-----------------------------------------------------------------------------
(* What is owed (ledger.ts) *)

Live == {i \in Invoices : invoices[i].status \notin {"NONE", "CANCELLED"}}
Received == {p \in Payments : payments[p].status = "PAID"}

(* Enrollments without an invoice, unless one that names no group stands for all. *)
Uninvoiced ==
    IF \E i \in Live : invoices[i].enrollment = NoId THEN {}
    ELSE {e \in Enrollments : \A i \in Live : invoices[i].enrollment # e}

Expected ==
    SumFunction([i \in Live |-> invoices[i].amount])
      + SumFunction([e \in Uninvoiced |-> Price[e]])

Allocated(p) == SumFunction([a \in RowsOf(p) |-> a.amount])
Waived(p) == SumFunction([a \in RowsOf(p) |-> a.waived])

Positive(n) == IF n > 0 THEN n ELSE 0

(* The part of a payment that counts for the month without an invoice. *)
Credit(p) ==
    Positive(payments[p].amount - Allocated(p))
      + (IF RowsOf(p) = {} THEN payments[p].discount ELSE 0)

(* Mutant: only payments without an allocation count. *)
DebtWithoutRests ==
    Positive(SumFunction([i \in Live |-> invoices[i].remaining])
               + SumFunction([e \in Uninvoiced |-> Price[e]])
               - SumFunction([p \in Loose |-> payments[p].amount]))

(* monthDue: the debt of the month. *)
Debt ==
    Positive(SumFunction([i \in Live |-> invoices[i].remaining])
               + SumFunction([e \in Uninvoiced |-> Price[e]])
               - SumFunction([p \in Received |-> Credit(p)]))

-----------------------------------------------------------------------------
(* Properties *)

(* The types of the variables. *)
LedgerTypeOK ==
    /\ invoices \in [Invoices -> InvoiceRows]
    /\ payments \in [Payments -> PaymentRows]
    /\ allocations \subseteq AllocationRows
    /\ receipts \in [Receipts -> ReceiptRows]
    /\ links \in [Links -> LinkRows]
    /\ callbacks \in [Requests -> Callbacks]
    /\ accepted \subseteq Ids
    /\ taken \subseteq Ids
    /\ crossed \subseteq Links
    /\ dayClosed \in BOOLEAN

(* The three tables agree whatever was paid, waived, voided, cancelled or   *)
(* issued in whatever order: an invoice's paid and remaining sums are those *)
(* of its allocations, and its status says so.                              *)
BooksAgree ==
    \A i \in Invoices : Exists(i) =>
        LET rows == {a \in allocations : a.invoice = i}
            paid == SumFunction([a \in rows |-> a.amount])
            waived == SumFunction([a \in rows |-> a.waived]) IN
        /\ invoices[i].amountPaid = paid
        /\ invoices[i].remaining = invoices[i].amount - paid - waived
        /\ invoices[i].remaining >= 0
        /\ invoices[i].status = "PAID" <=> invoices[i].remaining = 0 /\ i \in Live

(* Money is used once: what a payment put on invoices is never more than it *)
(* was, and only a payment that stands has anything on an invoice.          *)
MoneyUsedOnce ==
    \A p \in Payments :
        /\ Allocated(p) <= payments[p].amount /\ Waived(p) <= payments[p].discount
        /\ RowsOf(p) # {} => payments[p].status = "PAID"

(* No money sits on a cancelled invoice, though cancelling takes no ledger  *)
(* lock and a payment may come between its check and its write.             *)
CancelledHoldsNoMoney ==
    \A a \in allocations : invoices[a.invoice].status = "CANCELLED" => a.amount = 0

(* The debt shown is what was asked less what was received, counting every  *)
(* payment once whether or not an invoice took it; discounts may only be    *)
(* given once.                                                              *)
DebtIsWhatIsLeft ==
    LET money == SumFunction([p \in Received |-> payments[p].amount])
        discounts == SumFunction([p \in Received |-> payments[p].discount]) IN
    /\ Debt <= Positive(Expected - money)
    /\ Debt >= Positive(Expected - money - discounts)

(* ledger.ts: "Money and discounts not tied to an invoice (taken before     *)
(* invoices existed, or more than the invoices needed) still count for the  *)
(* month."                                                                  *)
DiscountsCount ==
    LET given == SumFunction([p \in Received |-> payments[p].amount + payments[p].discount]) IN
    Debt = Positive(Expected - given)

(* A card receipt is decided once and in agreement with the money: one that *)
(* is CONFIRMED has its payment, which stands (one of the earlier code      *)
(* could be voided while the receipt waited), a REJECTED one has none.      *)
ReceiptsAgree ==
    \A r \in Receipts :
        /\ receipts[r].status = "CONFIRMED" =>
             /\ receipts[r].payment \in Payments
             /\ payments[receipts[r].payment].key = r
             /\ payments[receipts[r].payment].status = "PAID" \/ r \in LegacyReceipts
        /\ receipts[r].status = "REJECTED" => ~KeyUsed(r)

(* A provider's id makes one payment, and a link that says PAID has a       *)
(* payment of its own, which stands - whatever callbacks are repeated, late *)
(* or crossed and whatever a late Prepare or Cancel made of the status.     *)
LinksAgree ==
    /\ \A p, q \in Payments : payments[p].id # NoId /\ payments[p].id = payments[q].id => p = q
    /\ \A l \in Links : links[l].status = "PAID" =>
         /\ links[l].payment \in Payments
         /\ payments[links[l].payment].status = "PAID"
         /\ payments[links[l].payment].link = l

(* A link is paid once, and money the provider took is recorded, however    *)
(* often callbacks are repeated - unless two different ones of that link    *)
(* overlapped, or it was cancelled after it was paid.                       *)
LinkPaidOnce ==
    \A l \in Links \ crossed :
        /\ \A p, q \in Payments : payments[p].link = l /\ payments[q].link = l => p = q
        /\ \A x \in taken \cap IdOf[l] : \E p \in Payments : payments[p].id = x
=============================================================================
