--------------------------- MODULE PlatformBilling ---------------------------
(***************************************************************************)
(* A center pays the platform (backend/src/platform-billing).  One center, *)
(* its invoices (platform_subscriptions), its card receipts                *)
(* (platform_payment_claims), the two payment providers that call back,    *)
(* the platform admin, and the renewal pass that downgrades a center whose *)
(* paid time ran out.                                                      *)
(*                                                                         *)
(* Every write is made under the center's advisory lock or row lock, so a  *)
(* transaction is one step; what the code reads before it takes the lock   *)
(* (the month a new payment is for, the renewal candidates) is a step of   *)
(* its own.  A provider's call and our answer are one step too, but the    *)
(* answer may be lost (heard = FALSE), after which the provider calls      *)
(* again.  Handlers that only read have no action.                         *)
(***************************************************************************)
EXTENDS Calendar

CONSTANTS
    Subs,            \* invoice rows
    Claims,          \* card receipts
    Keys,            \* idempotency keys a browser sends with a receipt
    ClickTxs,        \* payments made at Click
    PaymeTxs,        \* transactions of Payme
    Plans,           \* tariffs
    Price,           \* [Plans -> Nat]: a tariff's price
    Requests,        \* requests of the center in flight
    Passes,          \* renewal passes (one per worker process)
    AdminPlans,      \* tariffs the admin records payments of, or moves a center to
    AdminStatuses,   \* statuses the admin sets a center to
    NoTx, NoSub, NoKey,
    Timeout,         \* PROVIDER_TIMEOUT_MS
    Grace,           \* BILLING_GRACE_DAYS
    MonthsBack, MonthsAhead,  \* the window of assertRecordableMonth
    MaxTime, MaxMonth         \* bounds of the model: see Tick, PayableMonths

Txs == ClickTxs \cup PaymeTxs

Statuses == {"TRIAL", "ACTIVE", "PAST_DUE", "SUSPENDED"}

ASSUME ConstantsAssumption ==
    /\ Plans # {}
    /\ Price \in [Plans -> Nat]
    /\ AdminPlans \subseteq Plans
    /\ AdminStatuses \subseteq Statuses
    /\ ClickTxs \cap PaymeTxs = {}
    /\ NoTx \notin Txs
    /\ NoSub \notin Subs
    /\ NoKey \notin Keys
    /\ {Timeout, Grace, MonthsBack, MonthsAhead, MaxTime, MaxMonth} \subseteq Nat

VARIABLES
    now,      \* the clock of the servers
    center,   \* the tenants row: status, suspendedReason, plan, paidUntil
    sub,      \* the invoice rows
    claim,    \* the receipt rows
    req,      \* what a request in flight has read
    pass,     \* what a renewal pass in flight has read
    order,    \* external: the invoice and the tariff a provider payment is for
    told,     \* external: the answer a provider has last heard for a payment
    adminHold \* history: the admin's last decision on the status is SUSPENDED

vars == <<now, center, sub, claim, req, pass, order, told, adminHold>>

-----------------------------------------------------------------------------
(* State *)

Months == 0 .. MaxMonth

Never == -1   \* paid_until IS NULL: nothing was ever paid

SomePlan == CHOOSE p \in Plans : TRUE

Centers == [status : Statuses, reason : {"NONE", "NON_PAYMENT"},
            plan : Plans, paidUntil : Int]

(* end # 0 stands for paid_at IS NOT NULL; start and end are the period.   *)
Invoices == [status : {"FREE", "CREATED", "PENDING", "PAID", "CANCELLED"},
             month : Months, plan : Plans,
             provider : {"NONE", "CLICK", "PAYME"}, tx : Txs \cup {NoTx},
             opened : Nat, start : Int, end : Int]

Receipts == [status : {"FREE", "PENDING", "CONFIRMED", "REJECTED"},
             month : Months, plan : Plans, key : Keys \cup {NoKey},
             sub : Subs \cup {NoSub}]

Reads == [for : {"NOTHING", "CLICK", "PAYME", "CARD"}, month : Months,
          plan : Plans, key : Keys \cup {NoKey}]

FreeInvoice == [status |-> "FREE", month |-> 0, plan |-> SomePlan,
                provider |-> "NONE", tx |-> NoTx, opened |-> 0,
                start |-> 0, end |-> 0]

FreeReceipt == [status |-> "FREE", month |-> 0, plan |-> SomePlan,
                key |-> NoKey, sub |-> NoSub]

Nothing == [for |-> "NOTHING", month |-> 0, plan |-> SomePlan, key |-> NoKey]

Resting == [on |-> FALSE, at |-> 0]

Init ==
    /\ now = 0
    /\ center \in [status : {"TRIAL", "ACTIVE"}, reason : {"NONE"},
                   plan : {SomePlan}, paidUntil : {Never}]
    /\ sub = [s \in Subs |-> FreeInvoice]
    /\ claim = [c \in Claims |-> FreeReceipt]
    /\ req = [r \in Requests |-> Nothing]
    /\ pass = [w \in Passes |-> Resting]
    /\ order = [x \in Txs |-> [sub |-> NoSub, plan |-> SomePlan]]
    /\ told = [x \in Txs |-> "NONE"]
    /\ adminHold = FALSE

-----------------------------------------------------------------------------
(* billing-period.ts: the rules every payment path shares *)

(* paymentMonth: the first month not paid yet, from where paid time ends. *)
PaidMonths == {sub[s].month : s \in {t \in Subs : sub[t].status = "PAID"}}

PayableMonths ==
    {m \in Months \ PaidMonths :
        m >= MonthOf(IF center.paidUntil > now THEN center.paidUntil ELSE now)}

IsNextPaymentMonth(month) ==
    month \in PayableMonths /\ \A m \in PayableMonths : month <= m

Recordable(month) ==
    month \in (MonthOf(now) - MonthsBack) .. (MonthOf(now) + MonthsAhead)

(* openMonthInvoice *)
Live(s) == sub[s].status \in {"CREATED", "PENDING", "PAID"}

LiveOf(month) == {s \in Subs : sub[s].month = month /\ Live(s)}

TimedOut(s) == sub[s].status = "PENDING" /\ now - sub[s].opened >= Timeout

MayOpen(month) ==
    \A s \in LiveOf(month) : sub[s].status = "CREATED" \/ TimedOut(s)

(* Mutant: every link inserts a row, without looking for the month's. *)
AlwaysInserts(s, month) == sub[s].status = "FREE"

(* Mutant: a timed-out transaction's row is opened again, not closed and kept. *)
ReopensTimedOut(s, month) ==
    IF LiveOf(month) # {} THEN s \in LiveOf(month) ELSE sub[s].status = "FREE"

(* The row the month's invoice is: the CREATED one there is, else a new one. *)
IsInvoiceRow(s, month) ==
    IF \E l \in LiveOf(month) : sub[l].status = "CREATED"
    THEN s \in LiveOf(month) /\ sub[s].status = "CREATED"
    ELSE sub[s].status = "FREE"

Opened(s, month, plan, provider) ==
    [l \in Subs |->
        IF l = s
        THEN [FreeInvoice EXCEPT !.status = "CREATED", !.month = month,
                                 !.plan = plan, !.provider = provider]
        ELSE IF l \in LiveOf(month) /\ TimedOut(l) THEN [sub[l] EXCEPT !.status = "CANCELLED"]
        ELSE sub[l]]

(* applyPayment, on rows that already hold the open invoice s *)
StartsNow == now   \* mutant: paying early loses the time that was left

PeriodStart == IF center.paidUntil > now THEN center.paidUntil ELSE now

AdminSuspended == center.status = "SUSPENDED" /\ center.reason # "NON_PAYMENT"

PaidRows(rows, s, provider, tx) ==
    [rows EXCEPT ![s] = [@ EXCEPT !.status = "PAID", !.provider = provider,
                                  !.tx = tx, !.start = PeriodStart,
                                  !.end = AddMonth(PeriodStart)]]

PaidCenter(plan) ==
    [center EXCEPT !.paidUntil = AddMonth(PeriodStart), !.plan = plan,
                   !.status = IF AdminSuspended THEN @ ELSE "ACTIVE",
                   !.reason = IF AdminSuspended THEN @ ELSE "NONE"]

ApplyPayment(rows, s, provider, tx) ==
    /\ sub' = PaidRows(rows, s, provider, tx)
    /\ center' = PaidCenter(rows[s].plan)

(* reversePayment *)
ReversePayment(s) ==
    /\ sub' = [sub EXCEPT ![s].status = "CANCELLED"]
    /\ center' = IF sub[s].status = "PAID"
                 THEN [center EXCEPT !.paidUntil = @ - (sub[s].end - sub[s].start)]
                 ELSE center

-----------------------------------------------------------------------------
(* platform-billing.service.ts: links *)

Fresh(provider) ==
    {x \in IF provider = "CLICK" THEN ClickTxs ELSE PaymeTxs : order[x].sub = NoSub}

(* openInvoice reads the month to pay before it waits for the lock. *)
LinkBegin(r, provider, plan, month) ==
    /\ req[r] = Nothing
    /\ IsNextPaymentMonth(month)
    /\ req' = [req EXCEPT ![r] = [for |-> provider, month |-> month,
                                  plan |-> plan, key |-> NoKey]]
    /\ UNCHANGED <<now, center, sub, claim, pass, order, told, adminHold>>

(* The link is made; x, if any, names the payment that will be made of it. *)
LinkOpen(r, s, x) ==
    /\ req[r].for \in {"CLICK", "PAYME"}
    /\ MayOpen(req[r].month)
    /\ IsInvoiceRow(s, req[r].month)
    /\ sub' = Opened(s, req[r].month, req[r].plan, req[r].for)
    /\ x \in Fresh(req[r].for) \cup {NoTx}
    /\ order' = [y \in Txs |-> IF y = x THEN [sub |-> s, plan |-> req[r].plan]
                                        ELSE order[y]]
    /\ req' = [req EXCEPT ![r] = Nothing]
    /\ UNCHANGED <<now, center, claim, pass, told, adminHold>>

(* 409 ALREADY_PAID, 409 PAYMENT_IN_PROGRESS *)
LinkRefused(r) ==
    /\ req[r].for \in {"CLICK", "PAYME"}
    /\ ~MayOpen(req[r].month)
    /\ req' = [req EXCEPT ![r] = Nothing]
    /\ UNCHANGED <<now, center, sub, claim, pass, order, told, adminHold>>

-----------------------------------------------------------------------------
(* platform-billing.service.ts: the providers' callbacks *)

(* An answer the provider hears settles a payment it was still asking for. *)
Answer(x, heard, answer) ==
    told' = [told EXCEPT ![x] = IF heard /\ @ = "NONE" THEN answer ELSE @]

(* A provider repeats a call it has no answer to, or one it heard succeed. *)
Calling(x) == order[x].sub # NoSub /\ told[x] \in {"NONE", "PAID"}

AnyAmount(x) == TRUE   \* mutant: the amount is checked in Prepare only

RightAmount(x) == Price[order[x].plan] = Price[sub[order[x].sub].plan]

ProviderTxTaken(x, s) == \E o \in Subs \ {s} : sub[o].tx = x

(* Mutant: a paid invoice is not told from an open one. *)
RefusesUnlessLive(x) ==
    LET s == order[x].sub IN
    IF ~RightAmount(x) \/ sub[s].status \in {"PENDING", "CANCELLED"} \/ ProviderTxTaken(x, s)
    THEN "REFUSED" ELSE "NONE"

ClickRefusal(x) ==
    LET s == order[x].sub IN
    IF ~RightAmount(x) THEN "REFUSED"
    ELSE IF sub[s].status = "PAID" THEN "ALREADY_PAID"
    ELSE IF sub[s].status # "CREATED" \/ ProviderTxTaken(x, s) THEN "REFUSED"
    ELSE "NONE"

(* Complete (action 1): the payment succeeded at Click. *)
ClickComplete(x, heard) ==
    /\ Calling(x)
    /\ ClickRefusal(x) = "NONE"
    /\ ApplyPayment(sub, order[x].sub, "CLICK", x)
    /\ Answer(x, heard, "PAID")
    /\ UNCHANGED <<now, claim, req, pass, order, adminHold>>

(* Complete with error < 0: the payment failed at Click. *)
ClickFailed(x, heard) ==
    /\ Calling(x)
    /\ told[x] = "NONE"
    /\ ClickRefusal(x) = "NONE"
    /\ ReversePayment(order[x].sub)
    /\ Answer(x, heard, "REFUSED")
    /\ UNCHANGED <<now, claim, req, pass, order, adminHold>>

ClickRefused(x) ==
    /\ Calling(x)
    /\ ClickRefusal(x) # "NONE"
    /\ Answer(x, TRUE, ClickRefusal(x))
    /\ UNCHANGED <<now, center, sub, claim, req, pass, order, adminHold>>

(* Mutant: the invoice's status is not looked at again under the lock. *)
CreatesInAnyStatus(x) == RightAmount(x) /\ ~ProviderTxTaken(x, order[x].sub)

PaymeMayCreate(x) ==
    LET s == order[x].sub IN
    RightAmount(x) /\ sub[s].status = "CREATED" /\ ~ProviderTxTaken(x, s)

PaymeCreate(x) ==
    LET s == order[x].sub IN
    /\ Calling(x)
    /\ PaymeMayCreate(x)
    /\ sub' = [sub EXCEPT ![s] = [@ EXCEPT !.status = "PENDING", !.provider = "PAYME",
                                           !.tx = x, !.opened = now]]
    /\ UNCHANGED <<now, center, claim, req, pass, order, told, adminHold>>

(* A retry of its own Create is answered the same, whatever the state. *)
PaymeCreateRefused(x) ==
    /\ Calling(x)
    /\ ~PaymeMayCreate(x)
    /\ RightAmount(x) => sub[order[x].sub].tx # x
    /\ Answer(x, TRUE, "REFUSED")
    /\ UNCHANGED <<now, center, sub, claim, req, pass, order, adminHold>>

(* byTx, lockTx: the invoice that carries the transaction *)
CarriedBy(x, s) == sub[s].provider = "PAYME" /\ sub[s].tx = x

PaymePerform(x, s, heard) ==
    /\ Calling(x)
    /\ CarriedBy(x, s)
    /\ \/ /\ sub[s].status = "PAID"
          /\ Answer(x, heard, "PAID")
          /\ UNCHANGED <<center, sub>>
       \/ /\ sub[s].status = "CANCELLED"
          /\ Answer(x, heard, "REFUSED")
          /\ UNCHANGED <<center, sub>>
       \/ /\ sub[s].status = "PENDING"
          /\ now - sub[s].opened > Timeout
          /\ ReversePayment(s)
          /\ Answer(x, heard, "REFUSED")
       \/ /\ sub[s].status = "PENDING"
          /\ now - sub[s].opened <= Timeout
          /\ ApplyPayment(sub, s, "PAYME", x)
          /\ Answer(x, heard, "PAID")
    /\ UNCHANGED <<now, claim, req, pass, order, adminHold>>

(* The provider gives the money back as soon as it asks to cancel. *)
PaymeCancel(x, s, heard) ==
    /\ CarriedBy(x, s)
    /\ told[x] # "CANCELLED"
    /\ told' = [told EXCEPT ![x] = IF heard THEN "CANCELLED" ELSE "CANCELLING"]
    /\ IF sub[s].status = "CANCELLED" THEN UNCHANGED <<center, sub>>
                                      ELSE ReversePayment(s)
    /\ UNCHANGED <<now, claim, req, pass, order, adminHold>>

-----------------------------------------------------------------------------
(* platform-card.service.ts: receipts of card transfers *)

(* submit: the key's earlier receipt is looked for and the month is read, *)
(* both before the insert.  Without a key nothing is looked for.          *)
CardBegin(r, plan, key, month) ==
    /\ req[r] = Nothing
    /\ key # NoKey => \A c \in Claims : claim[c].key # key
    /\ Price[plan] > 0
    /\ IsNextPaymentMonth(month)
    /\ req' = [req EXCEPT ![r] = [for |-> "CARD", month |-> month,
                                  plan |-> plan, key |-> key]]
    /\ UNCHANGED <<now, center, sub, claim, pass, order, told, adminHold>>

(* The two unique indexes: one receipt per key, one waiting per month. *)
InsertConflict(r) ==
    \E c \in Claims :
        \/ req[r].key # NoKey /\ claim[c].key = req[r].key
        \/ claim[c].status = "PENDING" /\ claim[c].month = req[r].month

CardInsert(r, c) ==
    /\ req[r].for = "CARD"
    /\ ~InsertConflict(r)
    /\ claim[c].status = "FREE"
    /\ claim' = [claim EXCEPT ![c] = [status |-> "PENDING", month |-> req[r].month,
                                      plan |-> req[r].plan, key |-> req[r].key,
                                      sub |-> NoSub]]
    /\ req' = [req EXCEPT ![r] = Nothing]
    /\ UNCHANGED <<now, center, sub, pass, order, told, adminHold>>

(* A replay of the key's receipt, 409 KEY_REUSED or 409 PENDING. *)
CardConflict(r) ==
    /\ req[r].for = "CARD"
    /\ InsertConflict(r)
    /\ req' = [req EXCEPT ![r] = Nothing]
    /\ UNCHANGED <<now, center, sub, claim, pass, order, told, adminHold>>

(* confirm: the invoice is opened and paid, the receipt confirmed, at once. *)
CardConfirm(c, s) ==
    LET month == claim[c].month IN
    /\ claim[c].status = "PENDING"
    /\ MayOpen(month)
    /\ IsInvoiceRow(s, month)
    /\ ApplyPayment(Opened(s, month, claim[c].plan, "NONE"), s, "NONE", NoTx)
    /\ claim' = [claim EXCEPT ![c] = [@ EXCEPT !.status = "CONFIRMED", !.sub = s]]
    /\ UNCHANGED <<now, req, pass, order, told, adminHold>>

CardReject(c) ==
    /\ claim[c].status = "PENDING"
    /\ claim' = [claim EXCEPT ![c].status = "REJECTED"]
    /\ UNCHANGED <<now, center, sub, req, pass, order, told, adminHold>>

-----------------------------------------------------------------------------
(* platform.service.ts: the platform admin *)

RecordPayment(s, month, plan) ==
    /\ Recordable(month)
    /\ Price[plan] > 0
    /\ MayOpen(month)
    /\ IsInvoiceRow(s, month)
    /\ ApplyPayment(Opened(s, month, plan, "NONE"), s, "NONE", NoTx)
    /\ UNCHANGED <<now, claim, req, pass, order, told, adminHold>>

(* updateSubscription: the status, the tariff or both; never the reason. *)
UpdateSubscription(status, plan) ==
    /\ center' = [center EXCEPT !.status = IF status = "KEEP" THEN @ ELSE status,
                                !.plan = plan]
    /\ adminHold' = IF status = "KEEP" THEN adminHold ELSE status = "SUSPENDED"
    /\ UNCHANGED <<now, sub, claim, req, pass, order, told>>

-----------------------------------------------------------------------------
(* billing-lifecycle.service.ts: the renewal pass, with BILLING_ENFORCE on *)

(* Mutant: the grace days never end. *)
NeverSuspends(at) == IF at <= center.paidUntil THEN "NONE" ELSE "PAST_DUE"

Target(at) ==
    IF at <= center.paidUntil THEN "NONE"
    ELSE IF at > center.paidUntil + Grace THEN "SUSPENDED" ELSE "PAST_DUE"

Downgrades(at) ==
    /\ center.paidUntil # Never
    /\ center.status \in {"ACTIVE", "PAST_DUE"}
    /\ Target(at) \notin {"NONE", center.status}

(* The scan: what it found is decided again under the row lock, for the *)
(* time the pass began.                                                  *)
RenewalScan(w) ==
    /\ pass[w] = Resting
    /\ Downgrades(now)
    /\ pass' = [pass EXCEPT ![w] = [on |-> TRUE, at |-> now]]
    /\ UNCHANGED <<now, center, sub, claim, req, order, told, adminHold>>

(* Mutant: the paid time is not read again under the lock. *)
CommitsTheScan(w) ==
    /\ pass[w].on
    /\ center' = IF center.status \notin {"ACTIVE", "PAST_DUE"} THEN center
                 ELSE [center EXCEPT !.status = "PAST_DUE"]
    /\ pass' = [pass EXCEPT ![w] = Resting]
    /\ UNCHANGED <<now, sub, claim, req, order, told, adminHold>>

RenewalCommit(w) ==
    LET at == pass[w].at IN
    /\ pass[w].on
    /\ center' = IF ~Downgrades(at) THEN center
                 ELSE [center EXCEPT
                         !.status = Target(at),
                         !.reason = IF Target(at) = "SUSPENDED" THEN "NON_PAYMENT" ELSE @]
    /\ pass' = [pass EXCEPT ![w] = Resting]
    /\ UNCHANGED <<now, sub, claim, req, order, told, adminHold>>

Tick ==
    /\ now < MaxTime
    /\ now' = now + 1
    /\ UNCHANGED <<center, sub, claim, req, pass, order, told, adminHold>>

-----------------------------------------------------------------------------
Links == \E r \in Requests :
    \/ \E provider \in {"CLICK", "PAYME"}, p \in Plans, m \in Months :
         LinkBegin(r, provider, p, m)
    \/ \E s \in Subs, x \in Txs \cup {NoTx} : LinkOpen(r, s, x)
    \/ LinkRefused(r)

Click == \E x \in ClickTxs :
    \/ \E heard \in BOOLEAN : ClickComplete(x, heard) \/ ClickFailed(x, heard)
    \/ ClickRefused(x)

Payme == \E x \in PaymeTxs :
    \/ PaymeCreate(x)
    \/ PaymeCreateRefused(x)
    \/ \E s \in Subs, heard \in BOOLEAN :
         PaymePerform(x, s, heard) \/ PaymeCancel(x, s, heard)

Cards ==
    \/ \E r \in Requests :
         \/ \E p \in Plans, k \in Keys \cup {NoKey}, m \in Months : CardBegin(r, p, k, m)
         \/ \E c \in Claims : CardInsert(r, c)
         \/ CardConflict(r)
    \/ \E c \in Claims : CardReject(c) \/ \E s \in Subs : CardConfirm(c, s)

Admin ==
    \/ \E s \in Subs, m \in Months, p \in AdminPlans : RecordPayment(s, m, p)
    \/ \E st \in AdminStatuses \cup {"KEEP"}, p \in AdminPlans \cup {center.plan} :
         UpdateSubscription(st, p)

Renewal == \E w \in Passes : RenewalScan(w) \/ RenewalCommit(w)

Next == Links \/ Click \/ Payme \/ Cards \/ Admin \/ Renewal \/ Tick

Spec == Init /\ [][Next]_vars

(* setInterval starts a pass every BILLING_SCAN_MS and a pass it starts    *)
(* ends; nothing else is promised to happen.                               *)
FairSpec == Spec /\ \A w \in Passes : WF_vars(RenewalScan(w)) /\ WF_vars(RenewalCommit(w))
-----------------------------------------------------------------------------
(* Properties *)

(* The types of the variables. *)
TypeOK ==
    /\ now \in Nat
    /\ center \in Centers
    /\ sub \in [Subs -> Invoices]
    /\ claim \in [Claims -> Receipts]
    /\ req \in [Requests -> Reads]
    /\ pass \in [Passes -> [on : BOOLEAN, at : Nat]]
    /\ order \in [Txs -> [sub : Subs \cup {NoSub}, plan : Plans]]
    /\ told \in [Txs -> {"NONE", "PAID", "ALREADY_PAID", "REFUSED",
                          "CANCELLING", "CANCELLED"}]
    /\ adminHold \in BOOLEAN

(* A month has one invoice that is not cancelled, whichever of the five     *)
(* paths opened it, so a month is never paid twice: the unique index        *)
(* platform_subs_tenant_month_live_idx is never what stops a payment.       *)
OneLiveInvoice ==
    \A s, t \in Subs :
        Live(s) /\ Live(t) /\ sub[s].month = sub[t].month => s = t

(* What a provider was told is what the center has.  A payment whose        *)
(* success was answered is a paid invoice of that payment, and stays one    *)
(* until the provider itself takes it back; a payment answered as failed or *)
(* cancelled buys nothing, however calls and answers interleave or are lost.*)
ProviderAgrees ==
    \A x \in Txs :
        /\ told[x] = "PAID" => \E s \in Subs : sub[s].status = "PAID" /\ sub[s].tx = x
        /\ told[x] \in {"REFUSED", "CANCELLED"} =>
              \A s \in Subs : ~(sub[s].status = "PAID" /\ sub[s].tx = x)

(* A provider's payment pays for the invoice it was made for, at the price  *)
(* that invoice has when it is paid, though a new link may have changed the *)
(* invoice's tariff after the payer opened the old one.                     *)
PaidAtItsPrice ==
    \A s \in Subs : sub[s].tx # NoTx =>
        /\ order[sub[s].tx].sub = s
        /\ Price[order[sub[s].tx].plan] = Price[sub[s].plan]

(* A receipt a person confirmed stays the payment of its month and tariff,  *)
(* of one invoice no other receipt shares: no provider callback on the same *)
(* invoice row, no other receipt and no manual payment undoes it.           *)
ConfirmedReceiptsStand ==
    \A c \in Claims : claim[c].status = "CONFIRMED" =>
        /\ claim[c].sub \in Subs
        /\ sub[claim[c].sub].status = "PAID"
        /\ sub[claim[c].sub].month = claim[c].month
        /\ sub[claim[c].sub].plan = claim[c].plan
        /\ \A d \in Claims \ {c} : claim[d].sub # claim[c].sub

(* Payme's state of a transaction: none, 1 open, 2 performed, -1 cancelled, *)
(* -2 cancelled after it was performed.                                     *)
PaymeState(x) ==
    IF \A s \in Subs : ~CarriedBy(x, s) THEN 0
    ELSE LET s == CHOOSE t \in Subs : CarriedBy(x, t) IN
         IF sub[s].status = "PAID" THEN 2
         ELSE IF sub[s].status # "CANCELLED" THEN 1
         ELSE IF sub[s].end # 0 THEN -2 ELSE -1

(* Payme can always ask about a transaction it opened and the answers only  *)
(* follow its state machine: no other payment path takes the invoice over,  *)
(* forgets the transaction or brings a cancelled one back.                  *)
PaymeStatesAdvance ==
    [][\A x \in PaymeTxs :
          PaymeState(x)' # PaymeState(x) =>
              <<PaymeState(x), PaymeState(x)'>> \in
                  {<<0, 1>>, <<1, 2>>, <<1, -1>>, <<2, -2>>}]_vars

(* What each invoice bought, in the terms of the ledger of paid time. *)
PeriodOf(s) ==
    IF sub[s].status = "PAID"
    THEN [state |-> "PAID", month |-> sub[s].month,
          start |-> sub[s].start, end |-> sub[s].end]
    ELSE [state |-> IF sub[s].status = "CANCELLED" /\ sub[s].end # 0
                    THEN "TAKEN_BACK" ELSE "UNPAID",
          month |-> 0, start |-> 0, end |-> 0]

PaidPeriods == [s \in Subs |-> PeriodOf(s)]

(* Billing implements the ledger of paid time: each payment, by whatever    *)
(* path, buys its month once and whole; a retried, late or lost callback    *)
(* neither buys again nor takes back more than it bought.                   *)
Paid == INSTANCE PaidTime WITH
            Ids <- Subs,
            MonthLabels <- Months,
            paidUntil <- center.paidUntil,
            period <- PaidPeriods

ImplementsPaidTime == Paid!Spec

(* A renewal pass only ever lowers a working center, one step of ACTIVE,    *)
(* PAST_DUE, SUSPENDED or two, and only when the time paid for at that      *)
(* moment is over: a payment, or the admin, that came after its scan wins.  *)
PassOnlyLowersUnpaid ==
    [][\A w \in Passes : RenewalCommit(w) /\ center' # center =>
          /\ now > center.paidUntil
          /\ center'.status = "SUSPENDED" => now > center.paidUntil + Grace
          /\ <<center.status, center'.status>> \in
                {<<"ACTIVE", "PAST_DUE">>, <<"ACTIVE", "SUSPENDED">>,
                 <<"PAST_DUE", "SUSPENDED">>}]_vars

(* A center whose grace is over is suspended, or paid for, in the end.      *)
OverGrace ==
    /\ center.paidUntil # Never
    /\ center.status \in {"ACTIVE", "PAST_DUE"}
    /\ now > center.paidUntil + Grace

GraceEnds == OverGrace ~> ~OverGrace

(* billing-period.ts, above applyPayment: "one the platform admin suspended *)
(* stays suspended (the payment still counts)".                             *)
AdminSuspensionStands == adminHold => center.status = "SUSPENDED"
=============================================================================
