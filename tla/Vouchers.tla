------------------------------- MODULE Vouchers -------------------------------
(***************************************************************************)
(* What make-ups promise a student, without saying how: a missed lesson is *)
(* made up at most once.  It is worth one voucher at a time; a voucher is  *)
(* held for one make-up, is the student's again when that one is called    *)
(* off, and once used stays used: it is never withdrawn, given back or     *)
(* given anew for the same lesson.                                         *)
(***************************************************************************)
CONSTANTS Holders, Lessons, Places, Ids

VARIABLE vouchers

None == [state |-> "NONE"]

Voucher(s, l, state, at) == [student |-> s, lesson |-> l, state |-> state, at |-> at]

Is(k, state) == vouchers[k].state = state

OfLesson(k, s, l) == vouchers[k] # None /\ vouchers[k].student = s /\ vouchers[k].lesson = l

OneEach ==
    \A j, k \in Ids : vouchers[j] # None /\ vouchers[k] # None /\ j # k =>
        vouchers[j].student # vouchers[k].student \/ vouchers[j].lesson # vouchers[k].lesson

Init ==
    /\ vouchers \in [Ids -> {None} \cup {Voucher(s, l, "ISSUED", {}) : s \in Holders, l \in Lessons}]
    /\ OneEach

Becomes(k, v) == vouchers' = [vouchers EXCEPT ![k] = v]

To(k, state, at) == Voucher(vouchers[k].student, vouchers[k].lesson, state, at)

Give(k, s, l) ==
    /\ vouchers[k] = None /\ ~\E j \in Ids : OfLesson(j, s, l)
    /\ Becomes(k, Voucher(s, l, "ISSUED", {}))

Hold(k, p) == Is(k, "ISSUED") /\ Becomes(k, To(k, "BOOKED", {p}))

Use(k) == Is(k, "BOOKED") /\ Becomes(k, To(k, "USED", vouchers[k].at))

Forfeit(k) == Is(k, "BOOKED") /\ Becomes(k, To(k, "FORFEITED", {}))

Reinstate(k) == Is(k, "FORFEITED") /\ Becomes(k, To(k, "ISSUED", {}))

\* One change of the timetable may call off several make-ups.
Release(K) ==
    /\ \A k \in K : Is(k, "BOOKED")
    /\ vouchers' = [k \in Ids |-> IF k \in K THEN To(k, "ISSUED", {}) ELSE vouchers[k]]

\* Attendance is corrected: vouchers without a ground go, if nobody holds or
\* has used them, and those of the day are found to be of the lesson l.
Correct(gone, moved, l) ==
    /\ \A k \in gone : Is(k, "ISSUED")
    /\ \A k \in moved : vouchers[k] # None
    /\ vouchers' = [k \in Ids |-> IF k \in gone THEN None
                                  ELSE IF k \in moved THEN [vouchers[k] EXCEPT !.lesson = l]
                                  ELSE vouchers[k]]
    /\ OneEach'

Next ==
    \/ \E K \in SUBSET Ids : Release(K)
    \/ \E k \in Ids :
         \/ \E s \in Holders, l \in Lessons : Give(k, s, l)
         \/ \E p \in Places : Hold(k, p)
         \/ Use(k) \/ Forfeit(k) \/ Reinstate(k)
    \/ \E gone, moved \in SUBSET Ids, l \in Lessons : Correct(gone, moved, l)

Spec == Init /\ [][Next]_vouchers
=============================================================================
