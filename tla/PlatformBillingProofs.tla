------------------------ MODULE PlatformBillingProofs ------------------------
(***************************************************************************)
(* Theorems about PlatformBilling, for every number of invoices, receipts, *)
(* provider payments, requests and passes, every tariff and every calendar *)
(* of the two month lengths.  The type invariant comes first; the          *)
(* inductive invariant Consistent then strengthens what the runs check;    *)
(* then billing implements the ledger of paid time (every step is a        *)
(* purchase, a purchase taken back, the passing of time, or changes        *)
(* nothing of the ledger), a renewal pass only lowers what is unpaid, and  *)
(* a transaction's state only moves as Payme's protocol has it.            *)
(***************************************************************************)
EXTENDS PlatformBilling, TLAPS

-----------------------------------------------------------------------------
(* Lemmas about the operators the actions are built from *)

(* addMonth always moves forward: a payment buys time. *)
LEMMA AddMonthLater ==
    ASSUME NEW t \in Nat
    PROVE  AddMonth(t) \in Nat /\ AddMonth(t) > t
<1>1. Year \in Nat \ {0} /\ LongMonth \in Nat \ {0} /\ ShortMonth \in Nat \ {0}
    BY CalendarAssumption DEF Year
<1>2. t % Year \in 0 .. Year - 1
    BY <1>1, SMT
<1>. DEFINE r == t % Year
<1>3. CASE r < LongMonth
    BY <1>1, <1>2, <1>3 DEF AddMonth, MonthLength, DayOfMonth, InLongMonth,
                           NextMonthLength, Lesser, Year
<1>4. CASE ~(r < LongMonth)
    BY <1>1, <1>2, <1>4 DEF AddMonth, MonthLength, DayOfMonth, InLongMonth,
                           NextMonthLength, Lesser, Year
<1>. QED  BY <1>3, <1>4

LEMMA SomePlanIsOne == SomePlan \in Plans
    BY ConstantsAssumption DEF SomePlan

LEMMA FreeInvoiceType == FreeInvoice \in Invoices
    BY SomePlanIsOne, ConstantsAssumption DEF FreeInvoice, Invoices, Months

LEMMA PeriodTypes ==
    ASSUME TypeOK
    PROVE  /\ PeriodStart \in Nat
           /\ AddMonth(PeriodStart) \in Nat
           /\ AddMonth(PeriodStart) > PeriodStart
<1>1. PeriodStart \in Nat
    BY DEF TypeOK, Centers, PeriodStart
<1>. QED  BY <1>1, AddMonthLater

(* Opening an invoice, paying one and taking a payment back keep the types. *)
LEMMA OpenedTypes ==
    ASSUME TypeOK, NEW s \in Subs, NEW month \in Months, NEW plan \in Plans,
           NEW provider \in {"NONE", "CLICK", "PAYME"}
    PROVE  Opened(s, month, plan, provider) \in [Subs -> Invoices]
<1>1. ASSUME NEW l \in Subs
      PROVE  Opened(s, month, plan, provider)[l] \in Invoices
    <2>1. [FreeInvoice EXCEPT !.status = "CREATED", !.month = month,
                              !.plan = plan, !.provider = provider] \in Invoices
        BY FreeInvoiceType DEF Invoices
    <2>2. sub[l] \in Invoices /\ [sub[l] EXCEPT !.status = "CANCELLED"] \in Invoices
        BY DEF TypeOK, Invoices
    <2>. QED  BY <2>1, <2>2 DEF Opened
<1>. QED  BY <1>1 DEF Opened

LEMMA ApplyTypes ==
    ASSUME TypeOK, NEW rows \in [Subs -> Invoices], NEW s \in Subs,
           NEW provider \in {"NONE", "CLICK", "PAYME"}, NEW tx \in Txs \cup {NoTx},
           ApplyPayment(rows, s, provider, tx)
    PROVE  sub' \in [Subs -> Invoices] /\ center' \in Centers
<1>1. sub' \in [Subs -> Invoices]
    <2>1. [rows[s] EXCEPT !.status = "PAID", !.provider = provider, !.tx = tx,
                          !.start = PeriodStart, !.end = AddMonth(PeriodStart)] \in Invoices
        <3>1. rows[s] \in Invoices
            OBVIOUS
        <3>2. PeriodStart \in Int /\ AddMonth(PeriodStart) \in Int
            BY PeriodTypes
        <3>. QED  BY <3>1, <3>2 DEF Invoices
    <2>. QED  BY <2>1 DEF ApplyPayment, PaidRows
<1>2. center' \in Centers
    <2>1. rows[s].plan \in Plans
        BY DEF Invoices
    <2>2. AddMonth(PeriodStart) \in Int /\ center \in Centers
        BY PeriodTypes DEF TypeOK
    <2>3. center' = PaidCenter(rows[s].plan)
        BY DEF ApplyPayment
    <2>4. CASE AdminSuspended
        BY <2>1, <2>2, <2>3, <2>4 DEF PaidCenter, Centers
    <2>5. CASE ~AdminSuspended
        BY <2>1, <2>2, <2>3, <2>5 DEF PaidCenter, Centers, Statuses
    <2>. QED  BY <2>4, <2>5
<1>. QED  BY <1>1, <1>2

LEMMA ReverseTypes ==
    ASSUME TypeOK, NEW s \in Subs, ReversePayment(s)
    PROVE  sub' \in [Subs -> Invoices] /\ center' \in Centers
<1>1. sub[s] \in Invoices /\ center \in Centers
    BY DEF TypeOK
<1>2. sub' \in [Subs -> Invoices]
    BY <1>1 DEF TypeOK, ReversePayment, Invoices
<1>3. sub[s].end - sub[s].start \in Int
    BY <1>1 DEF Invoices
<1>4. center' \in Centers
    BY <1>1, <1>3 DEF ReversePayment, Centers
<1>. QED  BY <1>2, <1>4

-----------------------------------------------------------------------------
(* Type correctness *)

LEMMA LinkTypes ==
    ASSUME TypeOK, Links
    PROVE  TypeOK'
<1>. PICK r \in Requests :
        \/ \E provider \in {"CLICK", "PAYME"}, p \in Plans, m \in Months :
              LinkBegin(r, provider, p, m)
        \/ \E s \in Subs, x \in Txs \cup {NoTx} : LinkOpen(r, s, x)
        \/ LinkRefused(r)
    BY DEF Links
<1>1. CASE \E provider \in {"CLICK", "PAYME"}, p \in Plans, m \in Months :
              LinkBegin(r, provider, p, m)
    BY <1>1, ConstantsAssumption DEF TypeOK, LinkBegin, Reads
<1>2. ASSUME NEW s \in Subs, NEW x \in Txs \cup {NoTx}, LinkOpen(r, s, x)
      PROVE  TypeOK'
    <2>1. /\ req[r].month \in Months /\ req[r].plan \in Plans
          /\ req[r].for \in {"NONE", "CLICK", "PAYME"}
        BY <1>2 DEF TypeOK, Reads, LinkOpen
    <2>2. sub' \in [Subs -> Invoices]
        BY <1>2, <2>1, OpenedTypes DEF LinkOpen
    <2>3. order' \in [Txs -> [sub : Subs \cup {NoSub}, plan : Plans]]
        BY <1>2, <2>1 DEF LinkOpen, TypeOK
    <2>4. req' \in [Requests -> Reads]
        BY <1>2, ConstantsAssumption, SomePlanIsOne
        DEF LinkOpen, TypeOK, Reads, Nothing, Months
    <2>. QED  BY <1>2, <2>2, <2>3, <2>4 DEF LinkOpen, TypeOK
<1>3. CASE LinkRefused(r)
    <2>1. req' \in [Requests -> Reads]
        BY <1>3, ConstantsAssumption, SomePlanIsOne
        DEF LinkRefused, TypeOK, Reads, Nothing, Months
    <2>. QED  BY <1>3, <2>1 DEF LinkRefused, TypeOK
<1>. QED  BY <1>1, <1>2, <1>3

LEMMA AnswerTypes ==
    ASSUME TypeOK, NEW x \in Txs, NEW heard \in BOOLEAN,
           NEW answer \in {"NONE", "PAID", "ALREADY_PAID", "REFUSED"},
           Answer(x, heard, answer)
    PROVE  told' \in [Txs -> {"NONE", "PAID", "ALREADY_PAID", "REFUSED",
                              "CANCELLING", "CANCELLED"}]
    BY DEF TypeOK, Answer

LEMMA ClickTypes ==
    ASSUME TypeOK, Click
    PROVE  TypeOK'
<1>. PICK x \in ClickTxs :
        \/ \E heard \in BOOLEAN : ClickComplete(x, heard) \/ ClickFailed(x, heard)
        \/ ClickRefused(x)
    BY DEF Click
<1>x. x \in Txs
    BY DEF Txs
<1>1. ASSUME NEW heard \in BOOLEAN, ClickComplete(x, heard)
      PROVE  TypeOK'
    <2>1. order[x].sub \in Subs
        BY <1>1, <1>x DEF ClickComplete, Calling, TypeOK
    <2>2. sub' \in [Subs -> Invoices] /\ center' \in Centers
        BY <1>1, <1>x, <2>1, ApplyTypes DEF ClickComplete, TypeOK
    <2>. QED  BY <1>1, <1>x, <2>2, AnswerTypes DEF ClickComplete, TypeOK
<1>2. ASSUME NEW heard \in BOOLEAN, ClickFailed(x, heard)
      PROVE  TypeOK'
    <2>1. order[x].sub \in Subs
        BY <1>2, <1>x DEF ClickFailed, Calling, TypeOK
    <2>2. sub' \in [Subs -> Invoices] /\ center' \in Centers
        BY <1>2, <2>1, ReverseTypes DEF ClickFailed
    <2>. QED  BY <1>2, <1>x, <2>2, AnswerTypes DEF ClickFailed, TypeOK
<1>3. CASE ClickRefused(x)
    <2>1. ClickRefusal(x) \in {"NONE", "PAID", "ALREADY_PAID", "REFUSED"}
        BY DEF ClickRefusal
    <2>. QED  BY <1>3, <1>x, <2>1, AnswerTypes DEF ClickRefused, TypeOK
<1>. QED  BY <1>1, <1>2, <1>3

LEMMA PaymeTypes ==
    ASSUME TypeOK, Payme
    PROVE  TypeOK'
<1>. PICK x \in PaymeTxs :
        \/ PaymeCreate(x)
        \/ PaymeCreateRefused(x)
        \/ \E s \in Subs, heard \in BOOLEAN :
             PaymePerform(x, s, heard) \/ PaymeCancel(x, s, heard)
    BY DEF Payme
<1>x. x \in Txs
    BY DEF Txs
<1>1. CASE PaymeCreate(x)
    <2>1. order[x].sub \in Subs
        BY <1>1, <1>x DEF PaymeCreate, Calling, TypeOK
    <2>2. [sub[order[x].sub] EXCEPT !.status = "PENDING", !.provider = "PAYME",
                                    !.tx = x, !.opened = now] \in Invoices
        <3>1. sub[order[x].sub] \in Invoices /\ now \in Nat
            BY <2>1 DEF TypeOK
        <3>. QED  BY <3>1, <1>x DEF Invoices
    <2>3. sub' \in [Subs -> Invoices]
        BY <1>1, <2>2 DEF PaymeCreate, TypeOK
    <2>. QED  BY <1>1, <2>3 DEF PaymeCreate, TypeOK
<1>2. CASE PaymeCreateRefused(x)
    BY <1>2, <1>x, AnswerTypes DEF PaymeCreateRefused, TypeOK
<1>3. ASSUME NEW s \in Subs, NEW heard \in BOOLEAN, PaymePerform(x, s, heard)
      PROVE  TypeOK'
    <2>1. sub' \in [Subs -> Invoices] /\ center' \in Centers
        BY <1>3, <1>x, ApplyTypes, ReverseTypes DEF PaymePerform, TypeOK
    <2>2. told' \in [Txs -> {"NONE", "PAID", "ALREADY_PAID", "REFUSED",
                             "CANCELLING", "CANCELLED"}]
        BY <1>3, <1>x, AnswerTypes DEF PaymePerform
    <2>. QED  BY <1>3, <2>1, <2>2 DEF PaymePerform, TypeOK
<1>4. ASSUME NEW s \in Subs, NEW heard \in BOOLEAN, PaymeCancel(x, s, heard)
      PROVE  TypeOK'
    <2>1. sub' \in [Subs -> Invoices] /\ center' \in Centers
        BY <1>4, ReverseTypes DEF PaymeCancel, TypeOK
    <2>. QED  BY <1>4, <2>1 DEF PaymeCancel, TypeOK
<1>. QED  BY <1>1, <1>2, <1>3, <1>4

LEMMA CardTypes ==
    ASSUME TypeOK, Cards
    PROVE  TypeOK'
<1>1. ASSUME NEW r \in Requests, NEW p \in Plans, NEW k \in Keys \cup {NoKey},
             NEW m \in Months, CardBegin(r, p, k, m)
      PROVE  TypeOK'
    BY <1>1 DEF CardBegin, TypeOK, Reads
<1>2. ASSUME NEW r \in Requests, NEW c \in Claims, CardInsert(r, c)
      PROVE  TypeOK'
    <2>1. req' \in [Requests -> Reads]
        BY <1>2, ConstantsAssumption, SomePlanIsOne
        DEF CardInsert, TypeOK, Reads, Nothing, Months
    <2>2. claim' \in [Claims -> Receipts]
        BY <1>2 DEF CardInsert, TypeOK, Reads, Receipts
    <2>. QED  BY <1>2, <2>1, <2>2 DEF CardInsert, TypeOK
<1>3. ASSUME NEW r \in Requests, CardConflict(r)
      PROVE  TypeOK'
    <2>1. req' \in [Requests -> Reads]
        BY <1>3, ConstantsAssumption, SomePlanIsOne
        DEF CardConflict, TypeOK, Reads, Nothing, Months
    <2>. QED  BY <1>3, <2>1 DEF CardConflict, TypeOK
<1>4. ASSUME NEW c \in Claims, CardReject(c)
      PROVE  TypeOK'
    BY <1>4 DEF CardReject, TypeOK, Receipts
<1>5. ASSUME NEW c \in Claims, NEW s \in Subs, CardConfirm(c, s)
      PROVE  TypeOK'
    <2>1. claim[c].month \in Months /\ claim[c].plan \in Plans
        BY DEF TypeOK, Receipts
    <2>2. Opened(s, claim[c].month, claim[c].plan, "NONE") \in [Subs -> Invoices]
        BY <2>1, OpenedTypes
    <2>3. sub' \in [Subs -> Invoices] /\ center' \in Centers
        BY <1>5, <2>2, ApplyTypes DEF CardConfirm
    <2>4. [claim[c] EXCEPT !.status = "CONFIRMED", !.sub = s] \in Receipts
        <3>1. claim[c] \in Receipts
            BY DEF TypeOK
        <3>. QED  BY <3>1 DEF Receipts
    <2>5. claim' \in [Claims -> Receipts]
        BY <1>5, <2>4 DEF CardConfirm, TypeOK
    <2>. QED  BY <1>5, <2>3, <2>5 DEF CardConfirm, TypeOK
<1>. QED  BY <1>1, <1>2, <1>3, <1>4, <1>5 DEF Cards

LEMMA AdminTypes ==
    ASSUME TypeOK, Admin
    PROVE  TypeOK'
<1>1. ASSUME NEW s \in Subs, NEW m \in Months, NEW p \in AdminPlans,
             RecordPayment(s, m, p)
      PROVE  TypeOK'
    <2>1. Opened(s, m, p, "NONE") \in [Subs -> Invoices]
        BY OpenedTypes, ConstantsAssumption
    <2>2. sub' \in [Subs -> Invoices] /\ center' \in Centers
        BY <1>1, <2>1, ApplyTypes DEF RecordPayment
    <2>. QED  BY <1>1, <2>2 DEF RecordPayment, TypeOK
<1>2. ASSUME NEW st \in AdminStatuses \cup {"KEEP"}, NEW p \in AdminPlans \cup {center.plan},
             UpdateSubscription(st, p)
      PROVE  TypeOK'
    <2>1. p \in Plans /\ (st # "KEEP" => st \in Statuses)
        BY ConstantsAssumption DEF TypeOK, Centers
    <2>2. center' \in Centers
        BY <1>2, <2>1 DEF UpdateSubscription, TypeOK, Centers
    <2>3. adminHold' \in BOOLEAN
        BY <1>2 DEF UpdateSubscription, TypeOK
    <2>. QED  BY <1>2, <2>2, <2>3 DEF UpdateSubscription, TypeOK
<1>. QED  BY <1>1, <1>2 DEF Admin

LEMMA RenewalTypes ==
    ASSUME TypeOK, Renewal
    PROVE  TypeOK'
<1>1. ASSUME NEW w \in Passes, RenewalScan(w)
      PROVE  TypeOK'
    BY <1>1 DEF RenewalScan, TypeOK
<1>2. ASSUME NEW w \in Passes, RenewalCommit(w)
      PROVE  TypeOK'
    <2>1. Downgrades(pass[w].at) => Target(pass[w].at) \in Statuses
        BY DEF Downgrades, Target, Statuses
    <2>2. center' \in Centers
        BY <1>2, <2>1 DEF RenewalCommit, TypeOK, Centers
    <2>3. pass' \in [Passes -> [on : BOOLEAN, at : Nat]]
        BY <1>2 DEF RenewalCommit, TypeOK, Resting
    <2>. QED  BY <1>2, <2>2, <2>3 DEF RenewalCommit, TypeOK
<1>. QED  BY <1>1, <1>2 DEF Renewal

(* Every variable keeps its type in every reachable state. *)
THEOREM TypeCorrect == Spec => []TypeOK
<1>1. Init => TypeOK
    <2>. SUFFICES ASSUME Init PROVE TypeOK
        OBVIOUS
    <2>1. center \in Centers /\ now \in Nat /\ adminHold \in BOOLEAN
        <3>1. Never \in Int
            BY DEF Never
        <3>. QED  BY <3>1, SomePlanIsOne DEF Init, Centers, Statuses
    <2>2. sub \in [Subs -> Invoices]
        BY FreeInvoiceType DEF Init
    <2>3. claim \in [Claims -> Receipts] /\ req \in [Requests -> Reads]
        BY SomePlanIsOne, ConstantsAssumption
        DEF Init, FreeReceipt, Receipts, Nothing, Reads, Months
    <2>4. pass \in [Passes -> [on : BOOLEAN, at : Nat]]
        BY DEF Init, Resting
    <2>5. order \in [Txs -> [sub : Subs \cup {NoSub}, plan : Plans]]
        BY SomePlanIsOne DEF Init
    <2>. QED  BY <2>1, <2>2, <2>3, <2>4, <2>5 DEF Init, TypeOK
<1>2. TypeOK /\ [Next]_vars => TypeOK'
    <2>. SUFFICES ASSUME TypeOK, [Next]_vars PROVE TypeOK'
        OBVIOUS
    <2>1. CASE Tick
        BY <2>1 DEF Tick, TypeOK
    <2>2. CASE UNCHANGED vars
        BY <2>2 DEF vars, TypeOK
    <2>. QED  BY <2>1, <2>2, LinkTypes, ClickTypes, PaymeTypes, CardTypes,
                 AdminTypes, RenewalTypes DEF Next
<1>. QED  BY <1>1, <1>2, PTL DEF Spec

-----------------------------------------------------------------------------
(* The inductive invariant *)

(* Only an invoice a provider has begun to pay carries its transaction, and *)
(* only a paid or a taken-back one a period.                                *)
RowShape ==
    \A s \in Subs :
        /\ sub[s].status \in {"FREE", "CREATED"} => sub[s].tx = NoTx
        /\ sub[s].status \in {"FREE", "CREATED", "PENDING"} => sub[s].end = 0
        /\ sub[s].status = "PAID" => sub[s].end # 0

(* A receipt has an invoice when it is confirmed, and then one no provider *)
(* transaction is on: this is why no callback can undo it.                 *)
ReceiptShape ==
    \A c \in Claims :
        /\ claim[c].status = "CONFIRMED" => sub[claim[c].sub].tx = NoTx
        /\ claim[c].status # "CONFIRMED" => claim[c].sub = NoSub

Consistent ==
    /\ RowShape
    /\ OneLiveInvoice
    /\ ProviderAgrees
    /\ PaidAtItsPrice
    /\ ReceiptShape
    /\ ConfirmedReceiptsStand

(* What opening a month's invoice does to the rows: s is open and blank, no *)
(* other row of the month is live, and a row that changes was PENDING.      *)
LEMMA OpenedRows ==
    ASSUME TypeOK, Consistent, NEW s \in Subs, NEW month \in Months,
           NEW plan \in Plans, NEW provider \in {"NONE", "CLICK", "PAYME"},
           MayOpen(month), IsInvoiceRow(s, month),
           NEW rows, rows = Opened(s, month, plan, provider)
    PROVE  /\ sub[s].status \in {"FREE", "CREATED"}
           /\ /\ rows[s].status = "CREATED" /\ rows[s].month = month
              /\ rows[s].plan = plan /\ rows[s].tx = NoTx /\ rows[s].end = 0
              /\ rows[s].start = 0
           /\ \A l \in Subs \ {s} :
                /\ rows[l].month = sub[l].month /\ rows[l].plan = sub[l].plan
                /\ rows[l].tx = sub[l].tx /\ rows[l].end = sub[l].end
                /\ rows[l].start = sub[l].start
                /\ \/ rows[l].status = sub[l].status
                   \/ rows[l].status = "CANCELLED" /\ sub[l].status = "PENDING"
                /\ rows[l].month = month =>
                      rows[l].status \notin {"CREATED", "PENDING", "PAID"}
<1>1. sub[s].status \in {"FREE", "CREATED"}
    BY DEF IsInvoiceRow
<1>2. FreeInvoice \in Invoices /\ FreeInvoice.tx = NoTx /\ FreeInvoice.end = 0
      /\ FreeInvoice.start = 0
    BY FreeInvoiceType DEF FreeInvoice
<1>3. /\ rows[s].status = "CREATED" /\ rows[s].month = month
      /\ rows[s].plan = plan /\ rows[s].tx = NoTx /\ rows[s].end = 0
      /\ rows[s].start = 0
    BY <1>2 DEF Opened, Invoices
<1>4. ASSUME NEW l \in Subs \ {s}
      PROVE  /\ rows[l].month = sub[l].month /\ rows[l].plan = sub[l].plan
             /\ rows[l].tx = sub[l].tx /\ rows[l].end = sub[l].end
             /\ rows[l].start = sub[l].start
             /\ \/ rows[l].status = sub[l].status
                \/ rows[l].status = "CANCELLED" /\ sub[l].status = "PENDING"
             /\ rows[l].month = month =>
                   rows[l].status \notin {"CREATED", "PENDING", "PAID"}
    <2>1. sub[l] \in Invoices
        BY DEF TypeOK
    <2>2. rows[l] = IF l \in LiveOf(month) /\ TimedOut(l)
                    THEN [sub[l] EXCEPT !.status = "CANCELLED"] ELSE sub[l]
        BY DEF Opened
    <2>3. CASE l \in LiveOf(month) /\ TimedOut(l)
        BY <2>1, <2>2, <2>3 DEF Invoices, TimedOut
    <2>4. CASE ~(l \in LiveOf(month) /\ TimedOut(l))
        <3>1. ASSUME sub[l].month = month, Live(l)
              PROVE  FALSE
            <4>1. l \in LiveOf(month) /\ sub[l].status = "CREATED"
                BY <2>4, <3>1 DEF LiveOf, MayOpen
            <4>2. s \in LiveOf(month) /\ sub[s].status = "CREATED"
                BY <4>1 DEF IsInvoiceRow
            <4>3. s = l
                BY <4>1, <4>2 DEF LiveOf, Live, Consistent, OneLiveInvoice
            <4>. QED  BY <4>3
        <3>. QED  BY <2>2, <2>4, <3>1 DEF Live
    <2>. QED  BY <2>3, <2>4
<1>. QED  BY <1>1, <1>3, <1>4

(* What a payment and a reversal do to the rows. *)
LEMMA PaidRow ==
    ASSUME TypeOK, NEW rows \in [Subs -> Invoices], NEW s \in Subs,
           NEW provider \in {"NONE", "CLICK", "PAYME"}, NEW tx \in Txs \cup {NoTx},
           ApplyPayment(rows, s, provider, tx)
    PROVE  /\ sub'[s].status = "PAID" /\ sub'[s].tx = tx /\ sub'[s].end # 0
           /\ sub'[s].start = PeriodStart /\ sub'[s].end = AddMonth(PeriodStart)
           /\ sub'[s].month = rows[s].month /\ sub'[s].plan = rows[s].plan
           /\ \A l \in Subs \ {s} : sub'[l] = rows[l]
<1>1. rows[s] \in Invoices
    OBVIOUS
<1>2. sub'[s] = [rows[s] EXCEPT !.status = "PAID", !.provider = provider, !.tx = tx,
                                !.start = PeriodStart, !.end = AddMonth(PeriodStart)]
    BY DEF ApplyPayment, PaidRows
<1>3. \A l \in Subs \ {s} : sub'[l] = rows[l]
    BY DEF ApplyPayment, PaidRows
<1>4. AddMonth(PeriodStart) # 0
    BY PeriodTypes
<1>. QED  BY <1>1, <1>2, <1>3, <1>4 DEF Invoices

LEMMA CancelledRow ==
    ASSUME TypeOK, NEW s \in Subs, ReversePayment(s)
    PROVE  /\ sub'[s].status = "CANCELLED" /\ sub'[s].tx = sub[s].tx
           /\ sub'[s].month = sub[s].month /\ sub'[s].plan = sub[s].plan
           /\ sub'[s].end = sub[s].end /\ sub'[s].start = sub[s].start
           /\ \A l \in Subs \ {s} : sub'[l] = sub[l]
<1>1. sub[s] \in Invoices
    BY DEF TypeOK
<1>. QED  BY <1>1 DEF ReversePayment, TypeOK, Invoices

(* Receipts keep their invoices when no paid invoice without a provider's   *)
(* transaction is touched and the confirmed receipts are.                   *)
LEMMA ReceiptsKept ==
    ASSUME TypeOK, Consistent,
           \A l \in Subs : sub[l].status = "PAID" /\ sub[l].tx = NoTx =>
              /\ sub'[l].status = "PAID" /\ sub'[l].tx = NoTx
              /\ sub'[l].month = sub[l].month /\ sub'[l].plan = sub[l].plan,
           \A c \in Claims :
              /\ claim[c].status = "CONFIRMED" => claim'[c] = claim[c]
              /\ claim[c].status # "CONFIRMED" =>
                    claim'[c].status # "CONFIRMED" /\ claim'[c].sub = NoSub
    PROVE  ReceiptShape' /\ ConfirmedReceiptsStand'
<1>1. ASSUME NEW c \in Claims, claim'[c].status = "CONFIRMED"
      PROVE  /\ claim'[c] = claim[c] /\ claim[c].sub \in Subs
             /\ sub[claim[c].sub].status = "PAID" /\ sub[claim[c].sub].tx = NoTx
             /\ sub[claim[c].sub].month = claim[c].month
             /\ sub[claim[c].sub].plan = claim[c].plan
             /\ \A d \in Claims \ {c} : claim[d].sub # claim[c].sub
    BY <1>1 DEF Consistent, ReceiptShape, ConfirmedReceiptsStand
<1>2. NoSub \notin Subs
    BY ConstantsAssumption
<1>3. \A c \in Claims : claim'[c].status # "CONFIRMED" => claim'[c].sub = NoSub
    OBVIOUS
<1>4. ReceiptShape'
    BY <1>1, <1>3 DEF ReceiptShape
<1>5. ConfirmedReceiptsStand'
    BY <1>1, <1>2, <1>3 DEF ConfirmedReceiptsStand
<1>. QED  BY <1>4, <1>5

(* A step that touches no invoice, receipt, order or answer. *)
LEMMA FrameConsistent ==
    ASSUME Consistent, UNCHANGED <<sub, claim, order, told>>
    PROVE  Consistent'
    BY DEF Consistent, RowShape, OneLiveInvoice, Live, ProviderAgrees, PaidAtItsPrice,
           ReceiptShape, ConfirmedReceiptsStand

LEMMA LinksConsistent ==
    ASSUME TypeOK, Consistent, Links
    PROVE  Consistent'
<1>1. ASSUME NEW r \in Requests, NEW provider \in {"CLICK", "PAYME"}, NEW p \in Plans,
             NEW m \in Months, LinkBegin(r, provider, p, m)
      PROVE  Consistent'
    BY <1>1, FrameConsistent DEF LinkBegin
<1>2. ASSUME NEW r \in Requests, LinkRefused(r)
      PROVE  Consistent'
    BY <1>2, FrameConsistent DEF LinkRefused
<1>3. ASSUME NEW r \in Requests, NEW s \in Subs, NEW x \in Txs \cup {NoTx},
             LinkOpen(r, s, x)
      PROVE  Consistent'
    <2>. DEFINE month == req[r].month
    <2>1. /\ month \in Months /\ req[r].plan \in Plans
          /\ req[r].for \in {"NONE", "CLICK", "PAYME"}
        BY <1>3 DEF TypeOK, Reads, LinkOpen
    <2>2. /\ sub[s].status \in {"FREE", "CREATED"}
          /\ /\ sub'[s].status = "CREATED" /\ sub'[s].month = month
             /\ sub'[s].plan = req[r].plan /\ sub'[s].tx = NoTx /\ sub'[s].end = 0
          /\ \A l \in Subs \ {s} :
               /\ sub'[l].month = sub[l].month /\ sub'[l].plan = sub[l].plan
               /\ sub'[l].tx = sub[l].tx /\ sub'[l].end = sub[l].end
               /\ \/ sub'[l].status = sub[l].status
                  \/ sub'[l].status = "CANCELLED" /\ sub[l].status = "PENDING"
               /\ sub'[l].month = month =>
                     sub'[l].status \notin {"CREATED", "PENDING", "PAID"}
        BY <1>3, <2>1, OpenedRows DEF LinkOpen
    <2>. HIDE DEF month
    <2>3. UNCHANGED <<told, claim>>
        BY <1>3 DEF LinkOpen
    <2>4. RowShape'
        BY <2>2 DEF Consistent, RowShape
    <2>5. OneLiveInvoice'
        BY <2>2 DEF Consistent, OneLiveInvoice, Live
    <2>6. ProviderAgrees'
        BY <2>2, <2>3 DEF Consistent, ProviderAgrees
    <2>7. PaidAtItsPrice'
        <3>1. ASSUME NEW l \in Subs, sub'[l].tx # NoTx
              PROVE  order'[sub[l].tx] = order[sub[l].tx]
            <4>1. sub[l].tx \in Txs /\ order[sub[l].tx].sub = l
                BY <2>2, <3>1 DEF TypeOK, Invoices, Consistent, PaidAtItsPrice
            <4>2. sub[l].tx # x
                BY <1>3, <4>1, ConstantsAssumption DEF LinkOpen, Fresh
            <4>. QED  BY <1>3, <4>1, <4>2 DEF LinkOpen
        <3>. QED  BY <2>2, <3>1 DEF Consistent, PaidAtItsPrice
    <2>8. ReceiptShape' /\ ConfirmedReceiptsStand'
        <3>1. \A c \in Claims :
                 /\ claim[c].status = "CONFIRMED" => claim'[c] = claim[c]
                 /\ claim[c].status # "CONFIRMED" =>
                       claim'[c].status # "CONFIRMED" /\ claim'[c].sub = NoSub
            BY <2>3 DEF Consistent, ReceiptShape
        <3>. QED  BY <2>2, <3>1, ReceiptsKept
    <2>. QED  BY <2>4, <2>5, <2>6, <2>7, <2>8 DEF Consistent
<1>. QED  BY <1>1, <1>2, <1>3 DEF Links

(* A payment made without a provider: by the admin or of a receipt. *)
LEMMA OpenedAndPaid ==
    ASSUME TypeOK, Consistent, NEW s \in Subs, NEW month \in Months,
           NEW plan \in Plans, MayOpen(month), IsInvoiceRow(s, month),
           ApplyPayment(Opened(s, month, plan, "NONE"), s, "NONE", NoTx),
           UNCHANGED <<order, told>>
    PROVE  /\ RowShape' /\ OneLiveInvoice' /\ ProviderAgrees' /\ PaidAtItsPrice'
           /\ sub[s].status \in {"FREE", "CREATED"}
           /\ /\ sub'[s].status = "PAID" /\ sub'[s].tx = NoTx
              /\ sub'[s].month = month /\ sub'[s].plan = plan
           /\ \A l \in Subs : sub[l].status = "PAID" =>
                 /\ l # s /\ sub'[l].status = "PAID" /\ sub'[l].tx = sub[l].tx
                 /\ sub'[l].month = sub[l].month /\ sub'[l].plan = sub[l].plan
<1>. DEFINE rows == Opened(s, month, plan, "NONE")
<1>1. rows \in [Subs -> Invoices]
    BY OpenedTypes
<1>2. /\ sub[s].status \in {"FREE", "CREATED"}
      /\ rows[s].month = month /\ rows[s].plan = plan
      /\ \A l \in Subs \ {s} :
           /\ rows[l].month = sub[l].month /\ rows[l].plan = sub[l].plan
           /\ rows[l].tx = sub[l].tx /\ rows[l].end = sub[l].end
           /\ \/ rows[l].status = sub[l].status
              \/ rows[l].status = "CANCELLED" /\ sub[l].status = "PENDING"
           /\ rows[l].month = month =>
                 rows[l].status \notin {"CREATED", "PENDING", "PAID"}
    BY OpenedRows
<1>3. /\ sub'[s].status = "PAID" /\ sub'[s].tx = NoTx /\ sub'[s].end # 0
      /\ sub'[s].month = rows[s].month /\ sub'[s].plan = rows[s].plan
      /\ \A l \in Subs \ {s} : sub'[l] = rows[l]
    BY <1>1, PaidRow
<1>. HIDE DEF rows
<1>4. /\ /\ sub'[s].status = "PAID" /\ sub'[s].tx = NoTx /\ sub'[s].end # 0
         /\ sub'[s].month = month /\ sub'[s].plan = plan
      /\ \A l \in Subs \ {s} :
           /\ sub'[l].month = sub[l].month /\ sub'[l].plan = sub[l].plan
           /\ sub'[l].tx = sub[l].tx /\ sub'[l].end = sub[l].end
           /\ \/ sub'[l].status = sub[l].status
              \/ sub'[l].status = "CANCELLED" /\ sub[l].status = "PENDING"
           /\ sub'[l].month = month =>
                 sub'[l].status \notin {"CREATED", "PENDING", "PAID"}
    BY <1>2, <1>3
<1>5. RowShape'
    BY <1>2, <1>4 DEF Consistent, RowShape
<1>6. OneLiveInvoice'
    BY <1>4 DEF Consistent, OneLiveInvoice, Live
<1>7. ProviderAgrees'
    BY <1>2, <1>4, ConstantsAssumption DEF Consistent, ProviderAgrees
<1>8. PaidAtItsPrice'
    BY <1>4 DEF Consistent, PaidAtItsPrice
<1>. QED  BY <1>2, <1>4, <1>5, <1>6, <1>7, <1>8

LEMMA CardsConsistent ==
    ASSUME TypeOK, Consistent, Cards
    PROVE  Consistent'
<1>1. ASSUME NEW r \in Requests, NEW p \in Plans, NEW k \in Keys \cup {NoKey},
             NEW m \in Months, CardBegin(r, p, k, m)
      PROVE  Consistent'
    BY <1>1, FrameConsistent DEF CardBegin
<1>2. ASSUME NEW r \in Requests, CardConflict(r)
      PROVE  Consistent'
    BY <1>2, FrameConsistent DEF CardConflict
<1>3. ASSUME UNCHANGED <<sub, order, told>>,
             \A c \in Claims :
                /\ claim[c].status = "CONFIRMED" => claim'[c] = claim[c]
                /\ claim[c].status # "CONFIRMED" =>
                      claim'[c].status # "CONFIRMED" /\ claim'[c].sub = NoSub
      PROVE  Consistent'
    <2>1. ReceiptShape' /\ ConfirmedReceiptsStand'
        BY <1>3, ReceiptsKept
    <2>. QED  BY <1>3, <2>1 DEF Consistent, RowShape, OneLiveInvoice, Live,
                                ProviderAgrees, PaidAtItsPrice
<1>4. ASSUME NEW r \in Requests, NEW c \in Claims, CardInsert(r, c)
      PROVE  Consistent'
    BY <1>3, <1>4 DEF CardInsert, TypeOK, Consistent, ReceiptShape
<1>5. ASSUME NEW c \in Claims, CardReject(c)
      PROVE  Consistent'
    <2>1. claim'[c].status = "REJECTED" /\ claim'[c].sub = claim[c].sub
        BY <1>5 DEF CardReject, TypeOK, Receipts
    <2>2. \A d \in Claims \ {c} : claim'[d] = claim[d]
        BY <1>5 DEF CardReject, TypeOK
    <2>. QED  BY <1>3, <1>5, <2>1, <2>2 DEF CardReject, Consistent, ReceiptShape
<1>6. ASSUME NEW c \in Claims, NEW s \in Subs, CardConfirm(c, s)
      PROVE  Consistent'
    <2>1. /\ claim[c].month \in Months /\ claim[c].plan \in Plans
          /\ claim[c].status = "PENDING" /\ claim[c].sub = NoSub
        BY <1>6 DEF CardConfirm, TypeOK, Receipts, Consistent, ReceiptShape
    <2>2. /\ RowShape' /\ OneLiveInvoice' /\ ProviderAgrees' /\ PaidAtItsPrice'
          /\ sub[s].status \in {"FREE", "CREATED"}
          /\ /\ sub'[s].status = "PAID" /\ sub'[s].tx = NoTx
             /\ sub'[s].month = claim[c].month /\ sub'[s].plan = claim[c].plan
          /\ \A l \in Subs : sub[l].status = "PAID" =>
                /\ l # s /\ sub'[l].status = "PAID" /\ sub'[l].tx = sub[l].tx
                /\ sub'[l].month = sub[l].month /\ sub'[l].plan = sub[l].plan
        BY <1>6, <2>1, OpenedAndPaid DEF CardConfirm
    <2>3. /\ claim'[c].status = "CONFIRMED" /\ claim'[c].sub = s
          /\ claim'[c].month = claim[c].month /\ claim'[c].plan = claim[c].plan
          /\ \A d \in Claims \ {c} : claim'[d] = claim[d]
        <3>1. claim[c] \in Receipts
            BY DEF TypeOK
        <3>. QED  BY <1>6, <3>1 DEF CardConfirm, TypeOK, Receipts
    <2>4. \A d \in Claims \ {c} : claim[d].status = "CONFIRMED" =>
             /\ claim[d].sub \in Subs \ {s}
             /\ sub'[claim[d].sub].status = "PAID" /\ sub'[claim[d].sub].tx = NoTx
             /\ sub'[claim[d].sub].month = claim[d].month
             /\ sub'[claim[d].sub].plan = claim[d].plan
        BY <2>2 DEF Consistent, ReceiptShape, ConfirmedReceiptsStand
    <2>5. ReceiptShape'
        BY <2>2, <2>3, <2>4 DEF Consistent, ReceiptShape
    <2>6. ConfirmedReceiptsStand'
        <3>1. \A d \in Claims \ {c} : claim[d].sub # s
            BY <2>4, ConstantsAssumption DEF Consistent, ReceiptShape
        <3>2. ASSUME NEW d \in Claims \ {c}, claim[d].status = "CONFIRMED"
              PROVE  \A e \in Claims \ {d} : claim'[e].sub # claim[d].sub
            BY <2>3, <2>4, <3>2 DEF Consistent, ConfirmedReceiptsStand
        <3>. QED  BY <2>2, <2>3, <2>4, <3>1, <3>2 DEF ConfirmedReceiptsStand
    <2>. QED  BY <2>2, <2>5, <2>6 DEF Consistent
<1>. QED  BY <1>1, <1>2, <1>4, <1>5, <1>6 DEF Cards

LEMMA AdminConsistent ==
    ASSUME TypeOK, Consistent, Admin
    PROVE  Consistent'
<1>1. ASSUME NEW s \in Subs, NEW m \in Months, NEW p \in AdminPlans,
             RecordPayment(s, m, p)
      PROVE  Consistent'
    <2>1. p \in Plans
        BY ConstantsAssumption
    <2>2. /\ RowShape' /\ OneLiveInvoice' /\ ProviderAgrees' /\ PaidAtItsPrice'
          /\ \A l \in Subs : sub[l].status = "PAID" =>
                /\ l # s /\ sub'[l].status = "PAID" /\ sub'[l].tx = sub[l].tx
                /\ sub'[l].month = sub[l].month /\ sub'[l].plan = sub[l].plan
        BY <1>1, <2>1, OpenedAndPaid DEF RecordPayment
    <2>3. \A c \in Claims :
             /\ claim[c].status = "CONFIRMED" => claim'[c] = claim[c]
             /\ claim[c].status # "CONFIRMED" =>
                   claim'[c].status # "CONFIRMED" /\ claim'[c].sub = NoSub
        BY <1>1 DEF RecordPayment, Consistent, ReceiptShape
    <2>4. ReceiptShape' /\ ConfirmedReceiptsStand'
        BY <2>2, <2>3, ReceiptsKept
    <2>. QED  BY <2>2, <2>4 DEF Consistent
<1>2. ASSUME NEW st, NEW p, UpdateSubscription(st, p)
      PROVE  Consistent'
    BY <1>2, FrameConsistent DEF UpdateSubscription
<1>. QED  BY <1>1, <1>2 DEF Admin

(* A provider's payment of the invoice s with its transaction x. *)
LEMMA ProviderPaid ==
    ASSUME TypeOK, Consistent, NEW x \in Txs, NEW s \in Subs, NEW heard \in BOOLEAN,
           NEW provider \in {"CLICK", "PAYME"}, Calling(x),
           order[x].sub = s, sub[s].tx \in {x, NoTx},
           sub[s].status \in {"CREATED", "PENDING"},
           Price[order[x].plan] = Price[sub[s].plan],
           ApplyPayment(sub, s, provider, x),
           Answer(x, heard, "PAID"), UNCHANGED <<order, claim>>
    PROVE  Consistent'
<1>1. /\ sub'[s].status = "PAID" /\ sub'[s].tx = x /\ sub'[s].end # 0
      /\ sub'[s].month = sub[s].month /\ sub'[s].plan = sub[s].plan
      /\ \A l \in Subs \ {s} : sub'[l] = sub[l]
    BY PaidRow DEF TypeOK
<1>2. /\ told'[x] = "PAID" \/ told'[x] = told[x]
      /\ told[x] \in {"NONE", "PAID"}
      /\ \A y \in Txs \ {x} : told'[y] = told[y]
    BY DEF Answer, Calling, TypeOK
<1>3. RowShape' /\ OneLiveInvoice'
    BY <1>1, ConstantsAssumption DEF Consistent, RowShape, OneLiveInvoice, Live
<1>4. ProviderAgrees'
    <2>1. ASSUME NEW y \in Txs, told'[y] = "PAID"
          PROVE  \E l \in Subs : sub'[l].status = "PAID" /\ sub'[l].tx = y
        BY <1>1, <1>2, <2>1 DEF Consistent, ProviderAgrees
    <2>2. ASSUME NEW y \in Txs, told'[y] \in {"REFUSED", "CANCELLED"}, NEW l \in Subs
          PROVE  ~(sub'[l].status = "PAID" /\ sub'[l].tx = y)
        BY <1>1, <1>2, <2>2 DEF Consistent, ProviderAgrees
    <2>. QED  BY <2>1, <2>2 DEF ProviderAgrees
<1>5. PaidAtItsPrice'
    BY <1>1 DEF Consistent, PaidAtItsPrice
<1>6. ReceiptShape' /\ ConfirmedReceiptsStand'
    <2>1. \A c \in Claims :
             /\ claim[c].status = "CONFIRMED" => claim'[c] = claim[c]
             /\ claim[c].status # "CONFIRMED" =>
                   claim'[c].status # "CONFIRMED" /\ claim'[c].sub = NoSub
        BY DEF Consistent, ReceiptShape
    <2>. QED  BY <1>1, <2>1, ReceiptsKept
<1>. QED  BY <1>3, <1>4, <1>5, <1>6 DEF Consistent

(* A transaction x of a provider that takes the invoice s, not paid by hand *)
(* or of a receipt, back; the provider then hears that it bought nothing.   *)
LEMMA ProviderCancelled ==
    ASSUME TypeOK, Consistent, NEW x \in Txs, NEW s \in Subs,
           order[x].sub = s, sub[s].tx = x \/ sub[s].status = "CREATED",
           ReversePayment(s), told'[x] # "PAID",
           \A y \in Txs \ {x} : told'[y] = told[y],
           UNCHANGED <<order, claim>>
    PROVE  Consistent'
<1>1. /\ sub'[s].status = "CANCELLED" /\ sub'[s].tx = sub[s].tx
      /\ sub'[s].month = sub[s].month /\ sub'[s].plan = sub[s].plan
      /\ sub'[s].end = sub[s].end
      /\ \A l \in Subs \ {s} : sub'[l] = sub[l]
    BY CancelledRow
<1>2. RowShape' /\ OneLiveInvoice'
    BY <1>1 DEF Consistent, RowShape, OneLiveInvoice, Live
<1>3. PaidAtItsPrice'
    BY <1>1 DEF Consistent, PaidAtItsPrice
<1>4. \A l \in Subs \ {s} : sub[l].tx # x
    BY ConstantsAssumption DEF Consistent, PaidAtItsPrice
<1>5. sub[s].status = "PAID" => sub[s].tx = x
    OBVIOUS
<1>6. ProviderAgrees'
    <2>1. ASSUME NEW y \in Txs, told'[y] = "PAID"
          PROVE  \E l \in Subs : sub'[l].status = "PAID" /\ sub'[l].tx = y
        BY <1>1, <1>5, <2>1 DEF Consistent, ProviderAgrees
    <2>2. ASSUME NEW y \in Txs, told'[y] \in {"REFUSED", "CANCELLED"}, NEW l \in Subs
          PROVE  ~(sub'[l].status = "PAID" /\ sub'[l].tx = y)
        BY <1>1, <1>4, <2>2 DEF Consistent, ProviderAgrees
    <2>. QED  BY <2>1, <2>2 DEF ProviderAgrees
<1>7. ReceiptShape' /\ ConfirmedReceiptsStand'
    <2>1. \A c \in Claims :
             /\ claim[c].status = "CONFIRMED" => claim'[c] = claim[c]
             /\ claim[c].status # "CONFIRMED" =>
                   claim'[c].status # "CONFIRMED" /\ claim'[c].sub = NoSub
        BY DEF Consistent, ReceiptShape
    <2>2. x # NoTx
        BY ConstantsAssumption
    <2>. QED  BY <1>1, <1>5, <2>1, <2>2, ReceiptsKept
<1>. QED  BY <1>2, <1>3, <1>6, <1>7 DEF Consistent

(* An answer a provider hears of a payment that bought nothing. *)
LEMMA ProviderRefused ==
    ASSUME TypeOK, Consistent, NEW x \in Txs, NEW heard \in BOOLEAN,
           NEW answer \in {"REFUSED", "ALREADY_PAID"},
           answer = "REFUSED" =>
              \A s \in Subs : ~(sub[s].status = "PAID" /\ sub[s].tx = x),
           Answer(x, heard, answer), UNCHANGED <<sub, order, claim>>
    PROVE  Consistent'
<1>1. /\ told'[x] \in {told[x], answer}
      /\ \A y \in Txs \ {x} : told'[y] = told[y]
    BY DEF Answer, TypeOK
<1>2. ProviderAgrees'
    BY <1>1 DEF Consistent, ProviderAgrees
<1>. QED  BY <1>2 DEF Consistent, RowShape, OneLiveInvoice, Live, PaidAtItsPrice,
                      ReceiptShape, ConfirmedReceiptsStand

LEMMA ClickConsistent ==
    ASSUME TypeOK, Consistent, Click
    PROVE  Consistent'
<1>. PICK x \in ClickTxs :
        \/ \E heard \in BOOLEAN : ClickComplete(x, heard) \/ ClickFailed(x, heard)
        \/ ClickRefused(x)
    BY DEF Click
<1>. DEFINE s == order[x].sub
<1>x. x \in Txs /\ x # NoTx
    BY ConstantsAssumption DEF Txs
<1>s. s \in Subs
    BY <1>x DEF ClickComplete, ClickFailed, ClickRefused, Calling, TypeOK
<1>1. ClickRefusal(x) = "NONE" => sub[s].status = "CREATED" /\ RightAmount(x)
    BY DEF ClickRefusal
<1>2. ASSUME NEW heard \in BOOLEAN, ClickComplete(x, heard)
      PROVE  Consistent'
    <2>1. sub[s].status = "CREATED" /\ sub[s].tx = NoTx /\ RightAmount(x)
        BY <1>1, <1>2, <1>s DEF ClickComplete, Consistent, RowShape
    <2>. QED  BY <1>2, <1>x, <1>s, <2>1, ProviderPaid DEF ClickComplete, RightAmount
<1>3. ASSUME NEW heard \in BOOLEAN, ClickFailed(x, heard)
      PROVE  Consistent'
    <2>1. sub[s].status = "CREATED"
        BY <1>1, <1>3 DEF ClickFailed
    <2>2. told'[x] # "PAID" /\ \A y \in Txs \ {x} : told'[y] = told[y]
        BY <1>3, <1>x DEF ClickFailed, Answer, TypeOK
    <2>. QED  BY <1>3, <1>x, <1>s, <2>1, <2>2, ProviderCancelled DEF ClickFailed
<1>4. CASE ClickRefused(x)
    <2>1. ClickRefusal(x) \in {"REFUSED", "ALREADY_PAID"}
        BY <1>4 DEF ClickRefused, ClickRefusal
    <2>2. ASSUME ClickRefusal(x) = "REFUSED", NEW t \in Subs,
                 sub[t].status = "PAID", sub[t].tx = x
          PROVE  FALSE
        <3>1. t = s /\ RightAmount(x)
            BY <1>x, <2>2 DEF Consistent, PaidAtItsPrice, RightAmount
        <3>. QED  BY <2>2, <3>1 DEF ClickRefusal
    <2>. QED  BY <1>4, <1>x, <2>1, <2>2, ProviderRefused DEF ClickRefused
<1>. QED  BY <1>2, <1>3, <1>4

LEMMA PaymeConsistent ==
    ASSUME TypeOK, Consistent, Payme
    PROVE  Consistent'
<1>. PICK x \in PaymeTxs :
        \/ PaymeCreate(x)
        \/ PaymeCreateRefused(x)
        \/ \E s \in Subs, heard \in BOOLEAN :
             PaymePerform(x, s, heard) \/ PaymeCancel(x, s, heard)
    BY DEF Payme
<1>x. x \in Txs /\ x # NoTx
    BY ConstantsAssumption DEF Txs
<1>1. CASE PaymeCreate(x)
    <2>. DEFINE s == order[x].sub
    <2>1. s \in Subs /\ RightAmount(x) /\ sub[s].status = "CREATED" /\ sub[s].tx = NoTx
        BY <1>1, <1>x DEF PaymeCreate, PaymeMayCreate, Calling, TypeOK, Consistent, RowShape
    <2>2. /\ sub'[s].status = "PENDING" /\ sub'[s].tx = x
          /\ sub'[s].month = sub[s].month /\ sub'[s].plan = sub[s].plan
          /\ sub'[s].end = sub[s].end
          /\ \A l \in Subs \ {s} : sub'[l] = sub[l]
        <3>1. sub[s] \in Invoices
            BY <2>1 DEF TypeOK
        <3>. QED  BY <1>1, <2>1, <3>1 DEF PaymeCreate, TypeOK, Invoices
    <2>3. UNCHANGED <<order, told, claim>> /\ Price[order[x].plan] = Price[sub[s].plan]
        BY <1>1, <2>1 DEF PaymeCreate, RightAmount
    <2>. HIDE DEF s
    <2>4. order[x].sub = s
        BY DEF s
    <2>5. RowShape' /\ OneLiveInvoice'
        BY <2>1, <2>2 DEF Consistent, RowShape, OneLiveInvoice, Live
    <2>6. ProviderAgrees'
        BY <2>1, <2>2, <2>3 DEF Consistent, ProviderAgrees
    <2>7. PaidAtItsPrice'
        BY <2>1, <2>2, <2>3, <2>4 DEF Consistent, PaidAtItsPrice
    <2>8. ReceiptShape' /\ ConfirmedReceiptsStand'
        <3>1. \A c \in Claims :
                 /\ claim[c].status = "CONFIRMED" => claim'[c] = claim[c]
                 /\ claim[c].status # "CONFIRMED" =>
                       claim'[c].status # "CONFIRMED" /\ claim'[c].sub = NoSub
            BY <2>3 DEF Consistent, ReceiptShape
        <3>. QED  BY <2>1, <2>2, <3>1, ReceiptsKept
    <2>. QED  BY <2>5, <2>6, <2>7, <2>8 DEF Consistent
<1>2. CASE PaymeCreateRefused(x)
    <2>1. ASSUME NEW t \in Subs, sub[t].status = "PAID", sub[t].tx = x
          PROVE  FALSE
        <3>1. t = order[x].sub /\ RightAmount(x)
            BY <1>x, <2>1 DEF Consistent, PaidAtItsPrice, RightAmount
        <3>. QED  BY <1>2, <2>1, <3>1 DEF PaymeCreateRefused
    <2>. QED  BY <1>2, <1>x, <2>1, ProviderRefused DEF PaymeCreateRefused
<1>3. ASSUME NEW s \in Subs, CarriedBy(x, s)
      PROVE  /\ sub[s].tx = x /\ order[x].sub = s
             /\ Price[order[x].plan] = Price[sub[s].plan]
             /\ \A l \in Subs \ {s} : sub[l].tx # x
    BY <1>x, <1>3 DEF CarriedBy, Consistent, PaidAtItsPrice
<1>4. ASSUME NEW s \in Subs, NEW heard \in BOOLEAN, PaymePerform(x, s, heard)
      PROVE  Consistent'
    <2>1. CASE sub[s].status = "PAID"
        <3>1. /\ told'[x] \in {told[x], "PAID"} /\ told[x] \in {"NONE", "PAID"}
              /\ \A y \in Txs \ {x} : told'[y] = told[y]
              /\ UNCHANGED <<sub, order, claim>>
            BY <1>4, <1>x, <2>1 DEF PaymePerform, Calling, Answer, TypeOK
        <3>2. ProviderAgrees'
            BY <1>4, <2>1, <3>1 DEF PaymePerform, CarriedBy, Consistent, ProviderAgrees
        <3>. QED  BY <3>1, <3>2 DEF Consistent, RowShape, OneLiveInvoice, Live,
                                    PaidAtItsPrice, ReceiptShape, ConfirmedReceiptsStand
    <2>2. CASE sub[s].status = "CANCELLED"
        <3>1. \A t \in Subs : ~(sub[t].status = "PAID" /\ sub[t].tx = x)
            BY <1>3, <1>4, <2>2 DEF PaymePerform
        <3>. QED  BY <1>4, <1>x, <2>2, <3>1, ProviderRefused DEF PaymePerform
    <2>3. CASE sub[s].status = "PENDING" /\ ReversePayment(s) /\ Answer(x, heard, "REFUSED")
        <3>1. told'[x] # "PAID" /\ \A y \in Txs \ {x} : told'[y] = told[y]
            <4>1. \A l \in Subs \ {s} : sub[l].tx # x
                BY <1>3, <1>4 DEF PaymePerform
            <4>2. \A l \in Subs : ~(sub[l].status = "PAID" /\ sub[l].tx = x)
                BY <2>3, <4>1
            <4>3. told[x] # "PAID"
                BY <1>x, <4>2 DEF Consistent, ProviderAgrees
            <4>. QED  BY <1>x, <2>3, <4>3 DEF Answer, TypeOK
        <3>. QED  BY <1>3, <1>4, <1>x, <2>3, <3>1, ProviderCancelled DEF PaymePerform
    <2>4. CASE sub[s].status = "PENDING" /\ ApplyPayment(sub, s, "PAYME", x)
                 /\ Answer(x, heard, "PAID")
        BY <1>3, <1>4, <1>x, <2>4, ProviderPaid DEF PaymePerform
    <2>. QED  BY <1>4, <2>1, <2>2, <2>3, <2>4 DEF PaymePerform
<1>5. ASSUME NEW s \in Subs, NEW heard \in BOOLEAN, PaymeCancel(x, s, heard)
      PROVE  Consistent'
    <2>1. /\ told'[x] \in {"CANCELLED", "CANCELLING"}
          /\ \A y \in Txs \ {x} : told'[y] = told[y]
          /\ UNCHANGED <<order, claim>>
        BY <1>5, <1>x DEF PaymeCancel, TypeOK
    <2>2. CASE sub[s].status = "CANCELLED"
        <3>1. UNCHANGED sub
            BY <1>5, <2>2 DEF PaymeCancel
        <3>2. ProviderAgrees'
            BY <1>3, <1>5, <2>1, <2>2, <3>1 DEF PaymeCancel, Consistent, ProviderAgrees
        <3>. QED  BY <2>1, <3>1, <3>2
                  DEF Consistent, RowShape, OneLiveInvoice, Live,
                      PaidAtItsPrice, ReceiptShape, ConfirmedReceiptsStand
    <2>3. CASE sub[s].status # "CANCELLED"
        BY <1>3, <1>5, <1>x, <2>1, <2>3, ProviderCancelled DEF PaymeCancel
    <2>. QED  BY <2>2, <2>3
<1>. QED  BY <1>1, <1>2, <1>4, <1>5

(* Whatever is interleaved, lost or retried, invoices, receipts and the      *)
(* providers' books stay consistent with one another.                       *)
THEOREM ConsistentInvariant == Spec => []Consistent
<1>1. Init => Consistent
    <2>. SUFFICES ASSUME Init PROVE Consistent
        OBVIOUS
    <2>1. \A s \in Subs : sub[s].status = "FREE" /\ sub[s].tx = NoTx /\ sub[s].end = 0
        BY DEF Init, FreeInvoice
    <2>2. \A c \in Claims : claim[c].status = "FREE" /\ claim[c].sub = NoSub
        BY DEF Init, FreeReceipt
    <2>3. \A x \in Txs : told[x] = "NONE"
        BY DEF Init
    <2>. QED  BY <2>1, <2>2, <2>3
              DEF Consistent, RowShape, OneLiveInvoice, Live, ProviderAgrees,
                  PaidAtItsPrice, ReceiptShape, ConfirmedReceiptsStand
<1>2. TypeOK /\ Consistent /\ [Next]_vars => Consistent'
    <2>. SUFFICES ASSUME TypeOK, Consistent, [Next]_vars PROVE Consistent'
        OBVIOUS
    <2>1. CASE Tick
        BY <2>1, FrameConsistent DEF Tick
    <2>2. CASE Renewal
        BY <2>2, FrameConsistent DEF Renewal, RenewalScan, RenewalCommit
    <2>3. CASE UNCHANGED vars
        BY <2>3, FrameConsistent DEF vars
    <2>. QED  BY <2>1, <2>2, <2>3, LinksConsistent, ClickConsistent, PaymeConsistent,
                 CardsConsistent, AdminConsistent DEF Next
<1>. QED  BY <1>1, <1>2, TypeCorrect, PTL DEF Spec

(* A month of a center never has two invoices that are not cancelled. *)
THEOREM MonthPaidOnce == Spec => []OneLiveInvoice
    BY ConsistentInvariant, PTL DEF Consistent

(* What a provider was told of a payment is what the center's invoices say. *)
THEOREM ProvidersAgree == Spec => []ProviderAgrees
    BY ConsistentInvariant, PTL DEF Consistent

(* A provider's payment is of its own invoice and at that invoice's price. *)
THEOREM PaymentsAtTheirPrice == Spec => []PaidAtItsPrice
    BY ConsistentInvariant, PTL DEF Consistent

(* A confirmed receipt stays the payment of its month. *)
THEOREM ReceiptsStand == Spec => []ConfirmedReceiptsStand
    BY ConsistentInvariant, PTL DEF Consistent

-----------------------------------------------------------------------------
(* Steps of the ledger *)

(* The ledger counts in the same calendar. *)
LEMMA SameCalendar ==
    ASSUME NEW t
    PROVE  Paid!AddMonth(t) = AddMonth(t)
    BY DEF Paid!AddMonth, Paid!MonthLength, Paid!DayOfMonth, Paid!InLongMonth,
           Paid!NextMonthLength, Paid!Lesser, Paid!Year,
           AddMonth, MonthLength, DayOfMonth, InLongMonth, NextMonthLength, Lesser, Year

(* Rows that buy nothing before and after, or are the same, are no step. *)
LEMMA QuietStep ==
    ASSUME UNCHANGED now, center'.paidUntil = center.paidUntil,
           \A l \in Subs :
              \/ sub'[l] = sub[l]
              \/ /\ sub[l].status # "PAID" /\ sub'[l].status # "PAID"
                 /\ sub[l].end = 0 /\ sub'[l].end = 0
    PROVE  [Paid!Next]_(Paid!ledger)
<1>1. \A l \in Subs : PeriodOf(l)' = PeriodOf(l)
    BY DEF PeriodOf
<1>2. PaidPeriods' = PaidPeriods
    BY <1>1 DEF PaidPeriods
<1>. QED  BY <1>2 DEF Paid!ledger

(* A row that becomes PAID for the period that starts at PeriodStart buys *)
(* its month: no other row of the month is PAID, as the month has one     *)
(* live invoice after the step too.                                       *)
LEMMA PurchaseStep ==
    ASSUME TypeOK, UNCHANGED now, OneLiveInvoice', NEW s \in Subs, NEW month \in Months,
           sub[s].status # "PAID", sub[s].end = 0,
           sub'[s].status = "PAID", sub'[s].month = month,
           sub'[s].start = PeriodStart, sub'[s].end = AddMonth(PeriodStart),
           center'.paidUntil = AddMonth(PeriodStart),
           \A l \in Subs \ {s} :
              \/ sub'[l] = sub[l]
              \/ /\ sub[l].status # "PAID" /\ sub'[l].status # "PAID"
                 /\ sub[l].end = 0 /\ sub'[l].end = 0
    PROVE  Paid!Next
<1>1. PeriodOf(s) = Paid!Unpaid
    BY DEF PeriodOf, Paid!Unpaid
<1>2. PeriodOf(s)' = [state |-> "PAID", month |-> month, start |-> PeriodStart,
                      end |-> AddMonth(PeriodStart)]
    BY DEF PeriodOf
<1>3. \A l \in Subs \ {s} : PeriodOf(l)' = PeriodOf(l)
    BY DEF PeriodOf
<1>4. PaidPeriods' = [PaidPeriods EXCEPT ![s] =
                         [state |-> "PAID", month |-> month, start |-> PeriodStart,
                          end |-> AddMonth(PeriodStart)]]
    BY <1>2, <1>3 DEF PaidPeriods
<1>5. ASSUME NEW j \in Subs, PaidPeriods[j].state = "PAID"
      PROVE  PaidPeriods[j].month # month
    <2>1. sub[j].status = "PAID" /\ PaidPeriods[j].month = sub[j].month
        BY <1>5 DEF PaidPeriods, PeriodOf
    <2>2. j # s /\ sub'[j] = sub[j]
        BY <2>1
    <2>. QED  BY <2>1, <2>2 DEF OneLiveInvoice, Live
<1>6. Paid!Buy(s, month)
    BY <1>1, <1>4, <1>5, SameCalendar DEF Paid!Buy, PaidPeriods, PeriodStart
<1>. QED  BY <1>6 DEF Paid!Next

(* A reversal takes a purchase back, or cancels what bought nothing. *)
LEMMA ReversalStep ==
    ASSUME TypeOK, RowShape, UNCHANGED now, NEW s \in Subs,
           sub[s].status # "CANCELLED", ReversePayment(s)
    PROVE  [Paid!Next]_(Paid!ledger)
<1>1. /\ sub'[s].status = "CANCELLED" /\ sub'[s].end = sub[s].end
      /\ \A l \in Subs \ {s} : sub'[l] = sub[l]
    BY CancelledRow
<1>2. center \in Centers
    BY DEF TypeOK
<1>3. CASE sub[s].status = "PAID"
    <2>1. /\ PeriodOf(s) = [state |-> "PAID", month |-> sub[s].month,
                            start |-> sub[s].start, end |-> sub[s].end]
          /\ PeriodOf(s)' = Paid!TakenBack
          /\ \A l \in Subs \ {s} : PeriodOf(l)' = PeriodOf(l)
        BY <1>1, <1>3 DEF PeriodOf, Paid!TakenBack, RowShape
    <2>2. PaidPeriods' = [PaidPeriods EXCEPT ![s] = Paid!TakenBack]
        BY <2>1 DEF PaidPeriods
    <2>3. center'.paidUntil = center.paidUntil - (sub[s].end - sub[s].start)
        BY <1>2, <1>3 DEF ReversePayment, Centers
    <2>4. Paid!TakeBack(s)
        BY <2>1, <2>2, <2>3 DEF Paid!TakeBack, PaidPeriods
    <2>. QED  BY <2>4 DEF Paid!Next
<1>4. CASE sub[s].status # "PAID"
    <2>1. UNCHANGED center
        BY <1>4 DEF ReversePayment
    <2>2. sub[s].end = 0
        BY <1>4 DEF RowShape, TypeOK, Invoices
    <2>. QED  BY <1>1, <1>4, <2>1, <2>2, QuietStep
<1>. QED  BY <1>3, <1>4
-----------------------------------------------------------------------------
(* The handlers as steps of the ledger *)

(* Opening an invoice leaves every other row, or cancels one that timed out. *)
LEMMA OpenedOthers ==
    ASSUME TypeOK, NEW s \in Subs, NEW month, NEW plan, NEW provider,
           NEW rows, rows = Opened(s, month, plan, provider)
    PROVE  \A l \in Subs \ {s} :
              \/ rows[l] = sub[l]
              \/ rows[l].status = "CANCELLED" /\ sub[l].status = "PENDING"
<1>. SUFFICES ASSUME NEW l \in Subs \ {s}
              PROVE  \/ rows[l] = sub[l]
                     \/ rows[l].status = "CANCELLED" /\ sub[l].status = "PENDING"
    OBVIOUS
<1>1. rows[l] = IF l \in LiveOf(month) /\ TimedOut(l)
                THEN [sub[l] EXCEPT !.status = "CANCELLED"] ELSE sub[l]
    BY DEF Opened
<1>2. sub[l] \in Invoices
    BY DEF TypeOK
<1>3. CASE l \in LiveOf(month) /\ TimedOut(l)
    BY <1>1, <1>2, <1>3 DEF Invoices, TimedOut
<1>. QED  BY <1>1, <1>3

(* A payment made without a provider, of an invoice opened for it. *)
LEMMA OpenedPurchase ==
    ASSUME TypeOK, Consistent, OneLiveInvoice', UNCHANGED now,
           NEW s \in Subs, NEW month \in Months, NEW plan \in Plans,
           MayOpen(month), IsInvoiceRow(s, month),
           ApplyPayment(Opened(s, month, plan, "NONE"), s, "NONE", NoTx)
    PROVE  Paid!Next
<1>. DEFINE rows == Opened(s, month, plan, "NONE")
<1>1. rows \in [Subs -> Invoices]
    BY OpenedTypes
<1>2. /\ sub[s].status \in {"FREE", "CREATED"} /\ rows[s].month = month
      /\ \A l \in Subs \ {s} :
            \/ rows[l] = sub[l]
            \/ rows[l].status = "CANCELLED" /\ sub[l].status = "PENDING"
               /\ rows[l].end = sub[l].end
    <2>1. \A l \in Subs \ {s} :
             \/ rows[l] = sub[l]
             \/ rows[l].status = "CANCELLED" /\ sub[l].status = "PENDING"
        BY OpenedOthers
    <2>. QED  BY <2>1, OpenedRows
<1>3. /\ sub'[s].status = "PAID" /\ sub'[s].month = rows[s].month
      /\ sub'[s].start = PeriodStart /\ sub'[s].end = AddMonth(PeriodStart)
      /\ \A l \in Subs \ {s} : sub'[l] = rows[l]
    BY <1>1, PaidRow
<1>4. center'.paidUntil = AddMonth(PeriodStart)
    BY DEF ApplyPayment, PaidCenter, TypeOK, Centers
<1>. HIDE DEF rows
<1>5. sub[s].status # "PAID" /\ sub[s].end = 0
    BY <1>2 DEF Consistent, RowShape
<1>6. \A l \in Subs \ {s} :
         \/ sub'[l] = sub[l]
         \/ /\ sub[l].status # "PAID" /\ sub'[l].status # "PAID"
            /\ sub[l].end = 0 /\ sub'[l].end = 0
    BY <1>2, <1>3 DEF Consistent, RowShape
<1>. QED  BY <1>2, <1>3, <1>4, <1>5, <1>6, PurchaseStep

(* A provider's payment of an open invoice. *)
LEMMA ProviderPurchase ==
    ASSUME TypeOK, Consistent, OneLiveInvoice', UNCHANGED now,
           NEW s \in Subs, NEW x \in Txs, NEW provider \in {"CLICK", "PAYME"},
           sub[s].status \in {"CREATED", "PENDING"},
           ApplyPayment(sub, s, provider, x)
    PROVE  Paid!Next
<1>1. /\ sub'[s].status = "PAID" /\ sub'[s].month = sub[s].month
      /\ sub'[s].start = PeriodStart /\ sub'[s].end = AddMonth(PeriodStart)
      /\ \A l \in Subs \ {s} : sub'[l] = sub[l]
    BY PaidRow DEF TypeOK
<1>2. center'.paidUntil = AddMonth(PeriodStart)
    BY DEF ApplyPayment, PaidCenter, TypeOK, Centers
<1>3. sub[s].status # "PAID" /\ sub[s].end = 0 /\ sub[s].month \in Months
    BY DEF Consistent, RowShape, TypeOK, Invoices
<1>. QED  BY <1>1, <1>2, <1>3, PurchaseStep

LEMMA LinksRefine ==
    ASSUME TypeOK, Consistent, Links
    PROVE  [Paid!Next]_(Paid!ledger)
<1>1. ASSUME UNCHANGED <<now, center, sub>>
      PROVE  [Paid!Next]_(Paid!ledger)
    BY <1>1, QuietStep
<1>2. ASSUME NEW r \in Requests, NEW s \in Subs, NEW x \in Txs \cup {NoTx},
             LinkOpen(r, s, x)
      PROVE  [Paid!Next]_(Paid!ledger)
    <2>1. /\ req[r].month \in Months /\ req[r].plan \in Plans
          /\ req[r].for \in {"NONE", "CLICK", "PAYME"}
        BY <1>2 DEF TypeOK, Reads, LinkOpen
    <2>2. /\ sub[s].status \in {"FREE", "CREATED"}
          /\ sub'[s].status = "CREATED" /\ sub'[s].end = 0
          /\ \A l \in Subs \ {s} :
                /\ sub'[l].end = sub[l].end
                /\ \/ sub'[l].status = sub[l].status
                   \/ sub'[l].status = "CANCELLED" /\ sub[l].status = "PENDING"
        BY <1>2, <2>1, OpenedRows DEF LinkOpen
    <2>3. \A l \in Subs \ {s} :
             \/ sub'[l] = sub[l]
             \/ sub'[l].status = "CANCELLED" /\ sub[l].status = "PENDING"
        BY <1>2, OpenedOthers DEF LinkOpen
    <2>4. \A l \in Subs :
             \/ sub'[l] = sub[l]
             \/ /\ sub[l].status # "PAID" /\ sub'[l].status # "PAID"
                /\ sub[l].end = 0 /\ sub'[l].end = 0
        BY <2>2, <2>3 DEF Consistent, RowShape
    <2>. QED  BY <1>2, <2>4, QuietStep DEF LinkOpen
<1>. QED  BY <1>1, <1>2 DEF Links, LinkBegin, LinkRefused

LEMMA ClickRefines ==
    ASSUME TypeOK, Consistent, OneLiveInvoice', Click
    PROVE  [Paid!Next]_(Paid!ledger)
<1>. PICK x \in ClickTxs :
        \/ \E heard \in BOOLEAN : ClickComplete(x, heard) \/ ClickFailed(x, heard)
        \/ ClickRefused(x)
    BY DEF Click
<1>. DEFINE s == order[x].sub
<1>x. x \in Txs
    BY DEF Txs
<1>s. s \in Subs
    BY <1>x DEF ClickComplete, ClickFailed, ClickRefused, Calling, TypeOK
<1>1. ClickRefusal(x) = "NONE" => sub[s].status = "CREATED"
    BY DEF ClickRefusal
<1>2. ASSUME NEW heard \in BOOLEAN, ClickComplete(x, heard)
      PROVE  Paid!Next
    BY <1>1, <1>2, <1>x, <1>s, ProviderPurchase DEF ClickComplete
<1>3. ASSUME NEW heard \in BOOLEAN, ClickFailed(x, heard)
      PROVE  [Paid!Next]_(Paid!ledger)
    BY <1>1, <1>3, <1>s, ReversalStep DEF ClickFailed, Consistent
<1>4. CASE ClickRefused(x)
    BY <1>4, QuietStep DEF ClickRefused
<1>. QED  BY <1>2, <1>3, <1>4

LEMMA PaymeRefines ==
    ASSUME TypeOK, Consistent, OneLiveInvoice', Payme
    PROVE  [Paid!Next]_(Paid!ledger)
<1>. PICK x \in PaymeTxs :
        \/ PaymeCreate(x)
        \/ PaymeCreateRefused(x)
        \/ \E s \in Subs, heard \in BOOLEAN :
             PaymePerform(x, s, heard) \/ PaymeCancel(x, s, heard)
    BY DEF Payme
<1>x. x \in Txs
    BY DEF Txs
<1>1. ASSUME UNCHANGED <<now, center, sub>>
      PROVE  [Paid!Next]_(Paid!ledger)
    BY <1>1, QuietStep
<1>2. CASE PaymeCreate(x)
    <2>. DEFINE s == order[x].sub
    <2>1. s \in Subs /\ sub[s].status = "CREATED" /\ UNCHANGED <<now, center>>
        BY <1>2, <1>x DEF PaymeCreate, PaymeMayCreate, Calling, TypeOK
    <2>2. sub'[s].status = "PENDING" /\ sub'[s].end = sub[s].end
          /\ \A l \in Subs \ {s} : sub'[l] = sub[l]
        <3>1. sub[s] \in Invoices
            BY <2>1 DEF TypeOK
        <3>. QED  BY <1>2, <2>1, <3>1 DEF PaymeCreate, TypeOK, Invoices
    <2>. HIDE DEF s
    <2>3. sub[s].end = 0
        BY <2>1 DEF Consistent, RowShape
    <2>. QED  BY <2>1, <2>2, <2>3, QuietStep
<1>3. ASSUME NEW s \in Subs, NEW heard \in BOOLEAN, PaymePerform(x, s, heard)
      PROVE  [Paid!Next]_(Paid!ledger)
    <2>1. CASE UNCHANGED <<center, sub>>
        BY <1>1, <1>3, <2>1 DEF PaymePerform
    <2>2. CASE sub[s].status = "PENDING" /\ ReversePayment(s)
        BY <1>3, <2>2, ReversalStep DEF PaymePerform, Consistent
    <2>3. CASE sub[s].status = "PENDING" /\ ApplyPayment(sub, s, "PAYME", x)
        BY <1>3, <1>x, <2>3, ProviderPurchase DEF PaymePerform
    <2>. QED  BY <1>3, <2>1, <2>2, <2>3 DEF PaymePerform
<1>4. ASSUME NEW s \in Subs, NEW heard \in BOOLEAN, PaymeCancel(x, s, heard)
      PROVE  [Paid!Next]_(Paid!ledger)
    <2>1. CASE sub[s].status = "CANCELLED"
        BY <1>1, <1>4, <2>1 DEF PaymeCancel
    <2>2. CASE sub[s].status # "CANCELLED"
        BY <1>4, <2>2, ReversalStep DEF PaymeCancel, Consistent
    <2>. QED  BY <2>1, <2>2
<1>5. CASE PaymeCreateRefused(x)
    BY <1>1, <1>5 DEF PaymeCreateRefused
<1>. QED  BY <1>2, <1>3, <1>4, <1>5

LEMMA CardsRefine ==
    ASSUME TypeOK, Consistent, OneLiveInvoice', Cards
    PROVE  [Paid!Next]_(Paid!ledger)
<1>1. ASSUME NEW c \in Claims, NEW s \in Subs, CardConfirm(c, s)
      PROVE  Paid!Next
    <2>1. claim[c].month \in Months /\ claim[c].plan \in Plans
        BY DEF TypeOK, Receipts
    <2>. QED  BY <1>1, <2>1, OpenedPurchase DEF CardConfirm
<1>2. ASSUME UNCHANGED <<now, center, sub>>
      PROVE  [Paid!Next]_(Paid!ledger)
    BY <1>2, QuietStep
<1>. QED  BY <1>1, <1>2 DEF Cards, CardBegin, CardInsert, CardConflict, CardReject

LEMMA AdminRefines ==
    ASSUME TypeOK, Consistent, OneLiveInvoice', Admin
    PROVE  [Paid!Next]_(Paid!ledger)
<1>1. ASSUME NEW s \in Subs, NEW m \in Months, NEW p \in AdminPlans,
             RecordPayment(s, m, p)
      PROVE  Paid!Next
    <2>1. p \in Plans
        BY ConstantsAssumption
    <2>. QED  BY <1>1, <2>1, OpenedPurchase DEF RecordPayment
<1>2. ASSUME NEW st, NEW p, UpdateSubscription(st, p)
      PROVE  [Paid!Next]_(Paid!ledger)
    <2>1. UNCHANGED <<now, sub>> /\ center'.paidUntil = center.paidUntil
        BY <1>2 DEF UpdateSubscription, TypeOK, Centers
    <2>. QED  BY <2>1, QuietStep
<1>. QED  BY <1>1, <1>2 DEF Admin

LEMMA RenewalRefines ==
    ASSUME TypeOK, Renewal
    PROVE  [Paid!Next]_(Paid!ledger)
<1>1. UNCHANGED <<now, sub>> /\ center'.paidUntil = center.paidUntil
    BY DEF Renewal, RenewalScan, RenewalCommit, TypeOK, Centers
<1>. QED  BY <1>1, QuietStep

(* Billing, whatever is interleaved, retried or lost, is the ledger of paid *)
(* time: a month is bought once, its period starts where the paid time ends *)
(* and taking a payment back takes off exactly what it bought.              *)
THEOREM BillingImplementsPaidTime == Spec => ImplementsPaidTime
<1>1. Init => Paid!Init
    <2>. SUFFICES ASSUME Init PROVE Paid!Init
        OBVIOUS
    <2>1. \A s \in Subs : PeriodOf(s) = Paid!Unpaid
        BY DEF Init, FreeInvoice, PeriodOf, Paid!Unpaid
    <2>2. center.paidUntil = -1 /\ now = 0
        BY DEF Init, Never
    <2>. QED  BY <2>1, <2>2 DEF Paid!Init, Paid!NothingPaid, PaidPeriods
<1>2. TypeOK /\ Consistent /\ Consistent' /\ [Next]_vars => [Paid!Next]_(Paid!ledger)
    <2>. SUFFICES ASSUME TypeOK, Consistent, Consistent', [Next]_vars
                  PROVE  [Paid!Next]_(Paid!ledger)
        OBVIOUS
    <2>1. OneLiveInvoice'
        BY DEF Consistent
    <2>2. CASE Tick
        <3>1. UNCHANGED PaidPeriods /\ UNCHANGED center /\ now' = now + 1
            BY <2>2 DEF Tick, PaidPeriods, PeriodOf
        <3>. QED  BY <3>1 DEF Paid!Next, Paid!Wait
    <2>3. CASE UNCHANGED vars
        BY <2>3, QuietStep DEF vars
    <2>. QED  BY <2>1, <2>2, <2>3, LinksRefine, ClickRefines, PaymeRefines, CardsRefine,
                 AdminRefines, RenewalRefines DEF Next
<1>. QED  BY <1>1, <1>2, TypeCorrect, ConsistentInvariant, PTL
          DEF Spec, ImplementsPaidTime, Paid!Spec

-----------------------------------------------------------------------------
(* The renewal pass *)

(* A pass in flight began before now. *)
ScansPast == \A w \in Passes : pass[w].at <= now

(* A renewal pass only lowers a center, and one whose paid time is over when *)
(* the pass writes, however old what it scanned is.                          *)
THEOREM PassesOnlyLowerUnpaid == Spec => PassOnlyLowersUnpaid
<1>1. Init => ScansPast
    BY DEF Init, Resting, ScansPast
<1>2. TypeOK /\ ScansPast /\ [Next]_vars => ScansPast'
    <2>. SUFFICES ASSUME TypeOK, ScansPast, [Next]_vars PROVE ScansPast'
        OBVIOUS
    <2>1. CASE Tick
        BY <2>1 DEF Tick, ScansPast, TypeOK
    <2>2. CASE Renewal
        BY <2>2 DEF Renewal, RenewalScan, RenewalCommit, Resting, ScansPast, TypeOK
    <2>3. ASSUME UNCHANGED <<now, pass>>
          PROVE  ScansPast'
        BY <2>3 DEF ScansPast
    <2>4. CASE Links
        BY <2>3, <2>4 DEF Links, LinkBegin, LinkOpen, LinkRefused
    <2>5. CASE Click
        BY <2>3, <2>5 DEF Click, ClickComplete, ClickFailed, ClickRefused
    <2>6. CASE Payme
        BY <2>3, <2>6 DEF Payme, PaymeCreate, PaymeCreateRefused, PaymePerform, PaymeCancel
    <2>7. CASE Cards
        BY <2>3, <2>7 DEF Cards, CardBegin, CardInsert, CardConflict, CardConfirm, CardReject
    <2>8. CASE Admin
        BY <2>3, <2>8 DEF Admin, RecordPayment, UpdateSubscription
    <2>9. CASE UNCHANGED vars
        BY <2>3, <2>9 DEF vars
    <2>. QED  BY <2>1, <2>2, <2>4, <2>5, <2>6, <2>7, <2>8, <2>9 DEF Next
<1>3. TypeOK /\ ScansPast /\ [Next]_vars =>
        [\A w \in Passes : RenewalCommit(w) /\ center' # center =>
            /\ now > center.paidUntil
            /\ center'.status = "SUSPENDED" => now > center.paidUntil + Grace
            /\ <<center.status, center'.status>> \in
                  {<<"ACTIVE", "PAST_DUE">>, <<"ACTIVE", "SUSPENDED">>,
                   <<"PAST_DUE", "SUSPENDED">>}]_vars
    <2>. SUFFICES ASSUME TypeOK, ScansPast, NEW w \in Passes, RenewalCommit(w),
                         center' # center
                  PROVE  /\ now > center.paidUntil
                         /\ center'.status = "SUSPENDED" => now > center.paidUntil + Grace
                         /\ <<center.status, center'.status>> \in
                               {<<"ACTIVE", "PAST_DUE">>, <<"ACTIVE", "SUSPENDED">>,
                                <<"PAST_DUE", "SUSPENDED">>}
        OBVIOUS
    <2>. DEFINE at == pass[w].at
    <2>1. /\ at \in Nat /\ now \in Nat /\ at <= now
          /\ center.paidUntil \in Int /\ Grace \in Nat
        BY ConstantsAssumption DEF TypeOK, ScansPast, Centers
    <2>2. Downgrades(at) /\ center'.status = Target(at)
        BY DEF RenewalCommit, TypeOK, Centers
    <2>. QED  BY <2>1, <2>2 DEF Downgrades, Target
<1>. QED  BY <1>1, <1>2, <1>3, TypeCorrect, PTL DEF Spec, PassOnlyLowersUnpaid

-----------------------------------------------------------------------------
(* Payme's state machine *)

(* A row is the transaction's, and what Payme is told of a row that is. *)
RowCarries(row, x) == row.provider = "PAYME" /\ row.tx = x

StateOfRow(row) ==
    IF row.status = "PAID" THEN 2
    ELSE IF row.status # "CANCELLED" THEN 1
    ELSE IF row.end # 0 THEN -2 ELSE -1

StateIn(rows, x) ==
    IF \A s \in Subs : ~RowCarries(rows[s], x) THEN 0
    ELSE StateOfRow(rows[CHOOSE t \in Subs : RowCarries(rows[t], x)])

PaymeMoves == {<<0, 1>>, <<1, 2>>, <<1, -1>>, <<2, -2>>}

(* What a step may do to one row, as the transaction x sees it: the row is   *)
(* not x's, or becomes x's and is open, or stays x's and its state advances. *)
RowAdvances(row, next, x) ==
    \/ ~RowCarries(row, x) /\ ~RowCarries(next, x)
    \/ ~RowCarries(row, x) /\ RowCarries(next, x) /\ StateOfRow(next) = 1
    \/ /\ RowCarries(row, x) /\ RowCarries(next, x)
       /\ \/ StateOfRow(next) = StateOfRow(row)
          \/ <<StateOfRow(row), StateOfRow(next)>> \in PaymeMoves

OneRow(rows, x) ==
    \A s, t \in Subs : RowCarries(rows[s], x) /\ RowCarries(rows[t], x) => s = t

LEMMA StateIsTheRows ==
    ASSUME NEW rows, NEW x, OneRow(rows, x), NEW s \in Subs, RowCarries(rows[s], x)
    PROVE  StateIn(rows, x) = StateOfRow(rows[s])
<1>. DEFINE t == CHOOSE u \in Subs : RowCarries(rows[u], x)
<1>1. t \in Subs /\ RowCarries(rows[t], x)
    OBVIOUS
<1>2. t = s
    BY <1>1 DEF OneRow
<1>. QED  BY <1>2 DEF StateIn

(* When each row advances, so does the state of the transaction. *)
LEMMA RowsAdvance ==
    ASSUME NEW rows, NEW next, NEW x, OneRow(rows, x), OneRow(next, x),
           \A l \in Subs : RowAdvances(rows[l], next[l], x)
    PROVE  \/ StateIn(next, x) = StateIn(rows, x)
           \/ <<StateIn(rows, x), StateIn(next, x)>> \in PaymeMoves
<1>1. CASE \E s \in Subs : RowCarries(rows[s], x)
    <2>. PICK s \in Subs : RowCarries(rows[s], x)
        BY <1>1
    <2>1. /\ RowCarries(next[s], x)
          /\ \/ StateOfRow(next[s]) = StateOfRow(rows[s])
             \/ <<StateOfRow(rows[s]), StateOfRow(next[s])>> \in PaymeMoves
        BY DEF RowAdvances
    <2>2. StateIn(rows, x) = StateOfRow(rows[s]) /\ StateIn(next, x) = StateOfRow(next[s])
        BY <2>1, StateIsTheRows
    <2>. QED  BY <2>1, <2>2
<1>2. CASE \A s \in Subs : ~RowCarries(rows[s], x)
    <2>1. StateIn(rows, x) = 0
        BY <1>2 DEF StateIn
    <2>2. CASE \A s \in Subs : ~RowCarries(next[s], x)
        BY <2>1, <2>2 DEF StateIn
    <2>3. CASE \E s \in Subs : RowCarries(next[s], x)
        <3>. PICK s \in Subs : RowCarries(next[s], x)
            BY <2>3
        <3>1. StateOfRow(next[s]) = 1
            BY <1>2 DEF RowAdvances
        <3>2. StateIn(next, x) = 1
            BY <3>1, StateIsTheRows
        <3>. QED  BY <2>1, <3>2 DEF PaymeMoves
    <2>. QED  BY <2>2, <2>3
<1>. QED  BY <1>1, <1>2

SubsAdvance(x) == \A l \in Subs : RowAdvances(sub[l], sub'[l], x)

(* A row that did not change. *)
LEMMA SameAdvances ==
    ASSUME NEW row, NEW x
    PROVE  RowAdvances(row, row, x)
    BY DEF RowAdvances

(* A transaction's row is not blank or without a payment begun. *)
LEMMA CarriedShape ==
    ASSUME Consistent, NEW x \in Txs, NEW s \in Subs, RowCarries(sub[s], x)
    PROVE  sub[s].status \notin {"FREE", "CREATED"}
    BY ConstantsAssumption DEF Consistent, RowShape, RowCarries

LEMMA ReversalAdvances ==
    ASSUME TypeOK, Consistent, NEW x \in Txs, NEW s \in Subs,
           sub[s].status # "CANCELLED", ReversePayment(s)
    PROVE  SubsAdvance(x)
<1>1. /\ sub'[s] = [sub[s] EXCEPT !.status = "CANCELLED"]
      /\ \A l \in Subs \ {s} : sub'[l] = sub[l]
    BY DEF ReversePayment, TypeOK
<1>2. sub[s] \in Invoices
    BY DEF TypeOK
<1>3. /\ sub'[s].status = "CANCELLED" /\ sub'[s].end = sub[s].end
      /\ RowCarries(sub'[s], x) <=> RowCarries(sub[s], x)
    BY <1>1, <1>2 DEF Invoices, RowCarries
<1>4. RowAdvances(sub[s], sub'[s], x)
    <2>1. CASE ~RowCarries(sub[s], x)
        BY <1>3, <2>1 DEF RowAdvances
    <2>2. CASE RowCarries(sub[s], x)
        <3>1. sub[s].status \in {"PENDING", "PAID"}
            BY <1>2, <2>2, CarriedShape DEF Invoices
        <3>2. sub[s].status = "PENDING" => sub[s].end = 0
            BY DEF Consistent, RowShape
        <3>3. sub[s].status = "PAID" => sub[s].end # 0
            BY DEF Consistent, RowShape
        <3>4. <<StateOfRow(sub[s]), StateOfRow(sub'[s])>> \in PaymeMoves
            BY <1>3, <3>1, <3>2, <3>3 DEF StateOfRow, PaymeMoves
        <3>. QED  BY <1>3, <2>2, <3>4 DEF RowAdvances
    <2>. QED  BY <2>1, <2>2
<1>. QED  BY <1>1, <1>4, SameAdvances DEF SubsAdvance

(* Opening an invoice: the row itself is nobody's, before and after. *)
LEMMA OpenedAdvances ==
    ASSUME TypeOK, Consistent, NEW x \in Txs, NEW s \in Subs, NEW month \in Months,
           NEW plan \in Plans, NEW provider \in {"NONE", "CLICK", "PAYME"},
           MayOpen(month), IsInvoiceRow(s, month),
           NEW rows, rows = Opened(s, month, plan, provider)
    PROVE  /\ ~RowCarries(sub[s], x) /\ ~RowCarries(rows[s], x)
           /\ \A l \in Subs \ {s} : RowAdvances(sub[l], rows[l], x)
<1>1. sub[s].status \in {"FREE", "CREATED"} /\ rows[s].tx = NoTx
    BY OpenedRows
<1>2. ~RowCarries(sub[s], x) /\ ~RowCarries(rows[s], x)
    BY <1>1, CarriedShape, ConstantsAssumption DEF RowCarries
<1>3. ASSUME NEW l \in Subs \ {s}
      PROVE  RowAdvances(sub[l], rows[l], x)
    <2>1. rows[l] = IF l \in LiveOf(month) /\ TimedOut(l)
                    THEN [sub[l] EXCEPT !.status = "CANCELLED"] ELSE sub[l]
        BY DEF Opened
    <2>2. CASE l \in LiveOf(month) /\ TimedOut(l)
        <3>1. sub[l] \in Invoices /\ sub[l].status = "PENDING" /\ sub[l].end = 0
            BY <2>2 DEF TypeOK, TimedOut, Consistent, RowShape
        <3>2. /\ rows[l].status = "CANCELLED" /\ rows[l].end = 0
              /\ RowCarries(rows[l], x) <=> RowCarries(sub[l], x)
            BY <2>1, <2>2, <3>1 DEF Invoices, RowCarries
        <3>3. <<StateOfRow(sub[l]), StateOfRow(rows[l])>> \in PaymeMoves
            BY <3>1, <3>2 DEF StateOfRow, PaymeMoves
        <3>. QED  BY <3>2, <3>3 DEF RowAdvances
    <2>. QED  BY <2>1, <2>2, SameAdvances
<1>. QED  BY <1>2, <1>3

(* A payment of a row: what it makes of the row. *)
LEMMA PaidRowIs ==
    ASSUME TypeOK, NEW rows \in [Subs -> Invoices], NEW s \in Subs, NEW provider, NEW tx,
           ApplyPayment(rows, s, provider, tx)
    PROVE  /\ sub'[s].status = "PAID" /\ sub'[s].provider = provider /\ sub'[s].tx = tx
           /\ \A l \in Subs \ {s} : sub'[l] = rows[l]
    BY DEF ApplyPayment, PaidRows, Invoices

(* A payment without Payme, of a row Payme has no transaction on. *)
LEMMA OtherPaymentAdvances ==
    ASSUME TypeOK, NEW rows \in [Subs -> Invoices], NEW x \in Txs, NEW s \in Subs,
           NEW provider, NEW tx, provider # "PAYME",
           ApplyPayment(rows, s, provider, tx), ~RowCarries(sub[s], x),
           \A l \in Subs \ {s} : RowAdvances(sub[l], rows[l], x)
    PROVE  SubsAdvance(x)
<1>1. ~RowCarries(sub'[s], x)
    BY PaidRowIs DEF RowCarries
<1>2. \A l \in Subs \ {s} : sub'[l] = rows[l]
    BY PaidRowIs
<1>. QED  BY <1>1, <1>2 DEF SubsAdvance, RowAdvances

LEMMA QuietAdvances ==
    ASSUME NEW x, UNCHANGED sub
    PROVE  SubsAdvance(x)
    BY SameAdvances DEF SubsAdvance

LEMMA LinksAdvance ==
    ASSUME TypeOK, Consistent, Links, NEW x \in PaymeTxs
    PROVE  SubsAdvance(x)
<1>1. x \in Txs
    BY DEF Txs
<1>2. ASSUME NEW r \in Requests, NEW s \in Subs, NEW y \in Txs \cup {NoTx}, LinkOpen(r, s, y)
      PROVE  SubsAdvance(x)
    <2>1. /\ req[r].month \in Months /\ req[r].plan \in Plans
          /\ req[r].for \in {"NONE", "CLICK", "PAYME"}
        BY <1>2 DEF TypeOK, Reads, LinkOpen
    <2>2. /\ ~RowCarries(sub[s], x) /\ ~RowCarries(sub'[s], x)
          /\ \A l \in Subs \ {s} : RowAdvances(sub[l], sub'[l], x)
        BY <1>1, <1>2, <2>1, OpenedAdvances DEF LinkOpen
    <2>. QED  BY <2>2 DEF SubsAdvance, RowAdvances
<1>. QED  BY <1>2, QuietAdvances DEF Links, LinkBegin, LinkRefused

LEMMA ClickAdvances ==
    ASSUME TypeOK, Consistent, Click, NEW x \in PaymeTxs
    PROVE  SubsAdvance(x)
<1>1. PICK y \in ClickTxs :
        \/ \E heard \in BOOLEAN : ClickComplete(y, heard) \/ ClickFailed(y, heard)
        \/ ClickRefused(y)
    BY DEF Click
<1>. DEFINE s == order[y].sub
<1>2. x \in Txs /\ y \in Txs
    BY DEF Txs
<1>3. s \in Subs
    BY <1>1, <1>2 DEF ClickComplete, ClickFailed, ClickRefused, Calling, TypeOK
<1>4. ClickRefusal(y) = "NONE" => sub[s].status = "CREATED"
    BY DEF ClickRefusal
<1>. HIDE DEF s
<1>5. ASSUME NEW heard \in BOOLEAN, ClickComplete(y, heard)
      PROVE  SubsAdvance(x)
    <2>1. sub[s].status = "CREATED" /\ ApplyPayment(sub, s, "CLICK", y)
        BY <1>4, <1>5 DEF ClickComplete, s
    <2>2. ~RowCarries(sub[s], x)
        BY <1>2, <1>3, <2>1, CarriedShape
    <2>3. \A l \in Subs \ {s} : RowAdvances(sub[l], sub[l], x)
        BY SameAdvances
    <2>4. sub \in [Subs -> Invoices]
        BY DEF TypeOK
    <2>. QED  BY <1>2, <1>3, <2>1, <2>2, <2>3, <2>4, OtherPaymentAdvances
<1>6. ASSUME NEW heard \in BOOLEAN, ClickFailed(y, heard)
      PROVE  SubsAdvance(x)
    BY <1>2, <1>3, <1>4, <1>6, ReversalAdvances DEF ClickFailed, s
<1>7. CASE ClickRefused(y)
    BY <1>7, QuietAdvances DEF ClickRefused
<1>. QED  BY <1>1, <1>5, <1>6, <1>7

LEMMA PaymeAdvances ==
    ASSUME TypeOK, Consistent, Payme, NEW x \in PaymeTxs
    PROVE  SubsAdvance(x)
<1>1. PICK y \in PaymeTxs :
        \/ PaymeCreate(y)
        \/ PaymeCreateRefused(y)
        \/ \E s \in Subs, heard \in BOOLEAN :
             PaymePerform(y, s, heard) \/ PaymeCancel(y, s, heard)
    BY DEF Payme
<1>2. x \in Txs /\ y \in Txs
    BY DEF Txs
<1>3. CASE PaymeCreate(y)
    <2>. DEFINE s == order[y].sub
    <2>1. s \in Subs /\ sub[s].status = "CREATED"
        BY <1>2, <1>3 DEF PaymeCreate, PaymeMayCreate, Calling, TypeOK
    <2>2. /\ sub'[s] = [sub[s] EXCEPT !.status = "PENDING", !.provider = "PAYME",
                                      !.tx = y, !.opened = now]
          /\ \A l \in Subs \ {s} : sub'[l] = sub[l]
        BY <1>3, <2>1 DEF PaymeCreate, TypeOK
    <2>. HIDE DEF s
    <2>3. sub[s] \in Invoices
        BY <2>1 DEF TypeOK
    <2>4. sub'[s].status = "PENDING"
        BY <2>2, <2>3 DEF Invoices
    <2>5. ~RowCarries(sub[s], x)
        BY <1>2, <2>1, CarriedShape
    <2>6. StateOfRow(sub'[s]) = 1
        BY <2>4 DEF StateOfRow
    <2>7. RowAdvances(sub[s], sub'[s], x)
        BY <2>5, <2>6 DEF RowAdvances
    <2>. QED  BY <2>2, <2>7, SameAdvances DEF SubsAdvance
<1>4. CASE PaymeCreateRefused(y)
    BY <1>4, QuietAdvances DEF PaymeCreateRefused
<1>5. ASSUME NEW s \in Subs, NEW heard \in BOOLEAN, PaymePerform(y, s, heard)
      PROVE  SubsAdvance(x)
    <2>1. CASE UNCHANGED sub
        BY <2>1, QuietAdvances
    <2>2. CASE sub[s].status = "PENDING" /\ ReversePayment(s)
        BY <1>2, <2>2, ReversalAdvances
    <2>3. CASE sub[s].status = "PENDING" /\ ApplyPayment(sub, s, "PAYME", y)
        <3>1. /\ sub'[s].status = "PAID" /\ sub'[s].provider = "PAYME" /\ sub'[s].tx = y
              /\ \A l \in Subs \ {s} : sub'[l] = sub[l]
            BY <2>3, PaidRowIs DEF TypeOK
        <3>2. RowCarries(sub[s], y)
            BY <1>5 DEF PaymePerform, CarriedBy, RowCarries
        <3>3. StateOfRow(sub[s]) = 1 /\ StateOfRow(sub'[s]) = 2
            BY <2>3, <3>1 DEF StateOfRow
        <3>4. RowAdvances(sub[s], sub'[s], x)
            BY <3>1, <3>2, <3>3 DEF RowAdvances, RowCarries, PaymeMoves
        <3>. QED  BY <3>1, <3>4, SameAdvances DEF SubsAdvance
    <2>. QED  BY <1>5, <2>1, <2>2, <2>3 DEF PaymePerform
<1>6. ASSUME NEW s \in Subs, NEW heard \in BOOLEAN, PaymeCancel(y, s, heard)
      PROVE  SubsAdvance(x)
    <2>1. CASE sub[s].status = "CANCELLED"
        BY <1>6, <2>1, QuietAdvances DEF PaymeCancel
    <2>2. CASE sub[s].status # "CANCELLED"
        BY <1>2, <1>6, <2>2, ReversalAdvances DEF PaymeCancel
    <2>. QED  BY <2>1, <2>2
<1>. QED  BY <1>1, <1>3, <1>4, <1>5, <1>6

LEMMA ManualAdvances ==
    ASSUME TypeOK, Consistent, NEW x \in PaymeTxs, NEW s \in Subs, NEW month \in Months,
           NEW plan \in Plans, MayOpen(month), IsInvoiceRow(s, month),
           ApplyPayment(Opened(s, month, plan, "NONE"), s, "NONE", NoTx)
    PROVE  SubsAdvance(x)
<1>. DEFINE rows == Opened(s, month, plan, "NONE")
<1>1. rows \in [Subs -> Invoices]
    BY OpenedTypes
<1>2. /\ ~RowCarries(sub[s], x)
      /\ \A l \in Subs \ {s} : RowAdvances(sub[l], rows[l], x)
    BY OpenedAdvances DEF Txs
<1>. HIDE DEF rows
<1>3. ApplyPayment(rows, s, "NONE", NoTx)
    BY DEF rows
<1>. QED  BY <1>1, <1>2, <1>3, OtherPaymentAdvances DEF Txs

LEMMA CardsAdvance ==
    ASSUME TypeOK, Consistent, Cards, NEW x \in PaymeTxs
    PROVE  SubsAdvance(x)
<1>1. ASSUME NEW c \in Claims, NEW s \in Subs, CardConfirm(c, s)
      PROVE  SubsAdvance(x)
    <2>1. claim[c].month \in Months /\ claim[c].plan \in Plans
        BY DEF TypeOK, Receipts
    <2>. QED  BY <1>1, <2>1, ManualAdvances DEF CardConfirm
<1>. QED  BY <1>1, QuietAdvances DEF Cards, CardBegin, CardInsert, CardConflict, CardReject

LEMMA AdminAdvances ==
    ASSUME TypeOK, Consistent, Admin, NEW x \in PaymeTxs
    PROVE  SubsAdvance(x)
<1>1. ASSUME NEW s \in Subs, NEW m \in Months, NEW p \in AdminPlans, RecordPayment(s, m, p)
      PROVE  SubsAdvance(x)
    <2>1. p \in Plans
        BY ConstantsAssumption
    <2>. QED  BY <1>1, <2>1, ManualAdvances DEF RecordPayment
<1>. QED  BY <1>1, QuietAdvances DEF Admin, UpdateSubscription

(* The invoice a transaction is for is the one that carries it. *)
LEMMA OneRowEach ==
    ASSUME Consistent, NEW x \in Txs
    PROVE  OneRow(sub, x)
    BY ConstantsAssumption DEF Consistent, PaidAtItsPrice, OneRow, RowCarries

LEMMA OneRowEachAfter ==
    ASSUME Consistent', NEW x \in Txs
    PROVE  OneRow(sub', x)
    BY ConstantsAssumption DEF Consistent, PaidAtItsPrice, OneRow, RowCarries

(* Whatever path pays for, reopens or cancels an invoice, a transaction of  *)
(* Payme is created once, performed once and cancelled for good: its state  *)
(* never goes back and never skips.                                         *)
THEOREM PaymeAdvancesOnly == Spec => PaymeStatesAdvance
<1>1. TypeOK /\ Consistent /\ Consistent' /\ [Next]_vars =>
        [\A x \in PaymeTxs :
            PaymeState(x)' # PaymeState(x) =>
              <<PaymeState(x), PaymeState(x)'>> \in
                  {<<0, 1>>, <<1, 2>>, <<1, -1>>, <<2, -2>>}]_vars
    <2>. SUFFICES ASSUME TypeOK, Consistent, Consistent', [Next]_vars, NEW x \in PaymeTxs
                  PROVE  \/ PaymeState(x)' = PaymeState(x)
                         \/ <<PaymeState(x), PaymeState(x)'>> \in PaymeMoves
        BY DEF PaymeMoves
    <2>1. SubsAdvance(x)
        BY LinksAdvance, ClickAdvances, PaymeAdvances, CardsAdvance, AdminAdvances,
           QuietAdvances DEF Next, Renewal, RenewalScan, RenewalCommit, Tick, vars
    <2>2. x \in Txs
        BY DEF Txs
    <2>3. PaymeState(x) = StateIn(sub, x)
        BY DEF PaymeState, StateIn, StateOfRow, CarriedBy, RowCarries
    <2>4. PaymeState(x)' = StateIn(sub', x)
        BY DEF PaymeState, StateIn, StateOfRow, CarriedBy, RowCarries
    <2>5. OneRow(sub, x) /\ OneRow(sub', x)
        BY <2>2, OneRowEach, OneRowEachAfter
    <2>6. \A l \in Subs : RowAdvances(sub[l], sub'[l], x)
        BY <2>1 DEF SubsAdvance
    <2>7. \/ StateIn(sub', x) = StateIn(sub, x)
          \/ <<StateIn(sub, x), StateIn(sub', x)>> \in PaymeMoves
        BY <2>5, <2>6, RowsAdvance
    <2>. QED  BY <2>3, <2>4, <2>7
<1>. QED  BY <1>1, TypeCorrect, ConsistentInvariant, PTL DEF Spec, PaymeStatesAdvance
=============================================================================
