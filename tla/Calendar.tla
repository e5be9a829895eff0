------------------------------ MODULE Calendar ------------------------------
(***************************************************************************)
(* The calendar the billing code counts in.  Time is a number of ticks     *)
(* (days); a year is a long month followed by a short one, which is the    *)
(* least calendar in which "the same day of the next month" can be clipped *)
(* to the month's last day and in which two months differ in length.       *)
(* A month label ("YYYY-MM") is the number of the month since time 0.      *)
(***************************************************************************)
EXTENDS Integers

CONSTANTS LongMonth, ShortMonth

ASSUME CalendarAssumption ==
    /\ LongMonth \in Nat \ {0}
    /\ ShortMonth \in Nat \ {0}
    /\ ShortMonth <= LongMonth

Year == LongMonth + ShortMonth

InLongMonth(t) == t % Year < LongMonth

(* The label of an instant: monthLabelOf. *)
MonthOf(t) == 2 * (t \div Year) + (IF InLongMonth(t) THEN 0 ELSE 1)

DayOfMonth(t) == IF InLongMonth(t) THEN t % Year ELSE (t % Year) - LongMonth

MonthLength(t) == IF InLongMonth(t) THEN LongMonth ELSE ShortMonth

NextMonthLength(t) == Year - MonthLength(t)

Lesser(a, b) == IF a < b THEN a ELSE b

(* The same day of the next month, or that month's last day: addMonth. *)
AddMonth(t) ==
    t + (MonthLength(t) - DayOfMonth(t))
      + Lesser(DayOfMonth(t), NextMonthLength(t) - 1)

=============================================================================
