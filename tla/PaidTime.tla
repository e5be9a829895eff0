------------------------------- MODULE PaidTime -------------------------------
(***************************************************************************)
(* What the platform's billing promises a center, without saying how: a    *)
(* payment buys one month, no calendar month is paid for twice, the month  *)
(* starts where the paid time ends (or now, when it is over), and taking a *)
(* payment back takes off exactly the time it bought, once.                *)
(***************************************************************************)
EXTENDS Calendar

CONSTANTS
    Ids,          \* payments
    MonthLabels   \* calendar months

VARIABLES now, paidUntil, period

ledger == <<now, paidUntil, period>>

NothingPaid == -1

Unpaid == [state |-> "UNPAID", month |-> 0, start |-> 0, end |-> 0]

TakenBack == [state |-> "TAKEN_BACK", month |-> 0, start |-> 0, end |-> 0]

Init ==
    /\ now = 0
    /\ paidUntil = NothingPaid
    /\ period = [i \in Ids |-> Unpaid]

Buy(i, month) ==
    LET start == IF paidUntil > now THEN paidUntil ELSE now IN
    /\ period[i] = Unpaid
    /\ \A j \in Ids : period[j].state = "PAID" => period[j].month # month
    /\ paidUntil' = AddMonth(start)
    /\ period' = [period EXCEPT ![i] = [state |-> "PAID", month |-> month,
                                        start |-> start, end |-> AddMonth(start)]]
    /\ UNCHANGED now

TakeBack(i) ==
    /\ period[i].state = "PAID"
    /\ paidUntil' = paidUntil - (period[i].end - period[i].start)
    /\ period' = [period EXCEPT ![i] = TakenBack]
    /\ UNCHANGED now

Wait == now' = now + 1 /\ UNCHANGED <<paidUntil, period>>

Next == (\E i \in Ids, month \in MonthLabels : Buy(i, month)) \/ (\E i \in Ids : TakeBack(i)) \/ Wait

Spec == Init /\ [][Next]_ledger
=============================================================================
