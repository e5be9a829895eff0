----------------------------- MODULE MakeUpsProofs -----------------------------
(***************************************************************************)
(* Theorems about MakeUps, for every timetable, every membership and any   *)
(* number of students, groups, credits and edits.                          *)
(***************************************************************************)
EXTENDS MakeUps, FiniteSetTheorems, TLAPS

(* A credit's ground, with what keeps it: a lesson that a credit was given   *)
(* for bears a mark or stays called off, and a deleted row never comes back. *)
OffForGood(o) == o \in Schedules /\ (o \in calledOff \/ timetable[o] = "GONE")

GroundOf(c) ==
    /\ c.reason = "ABSENT" /\ c.origin \in Schedules => marks[c.student][c.origin] # "NONE"
    /\ c.reason = "ABSENT" /\ c.status \in {"ISSUED", "BOOKED"} /\ ~c.pardoned =>
         marks[c.student][c.origin] = "ABSENT"
    /\ c.reason = "LESSON_CANCELLED" => OffForGood(c.origin)

GroundInv == \A k \in CreditIds : credits[k] # NoCredit => GroundOf(credits[k])

(* A make-up is never booked into the student's own group. *)
NotOwnGroup ==
    \A b \in bookings : b.at \in Schedules => b.student \notin Members[GroupOf[b.at]]

MakeUpInv ==
    MakeUpTypeOK /\ CreditsFollowBookings /\ GroundInv /\ NotOwnGroup /\ BookingsStand

-----------------------------------------------------------------------------
(* What closing or moving make-ups does: no action but a booking's own       *)
(* changes more than that.                                                   *)

\* The student has no lesson of their own at that time after the step.
FreeAfter(s, slot) ==
    \A r \in Schedules : TakesPlace(r)' /\ timetable'[r] = slot => s \notin Members[GroupOf[r]]

\* c is b, at the time its lesson moved to if it moved.
Carried(b, c) ==
    /\ c \in Booking
    /\ c.credit = b.credit /\ c.student = b.student /\ c.at = b.at /\ c.status = b.status
    /\ c.slot # b.slot => /\ c.at \in Schedules /\ c.slot = timetable'[c.at]
                          /\ b.status = "BOOKED" /\ ~past
                          /\ FreeAfter(c.student, c.slot)
                          /\ ~OtherMakeUp(c.student, c.slot, {b})

Closes(lost, after) ==
    /\ lost \subseteq Booked /\ credits' = Released(lost)
    /\ bookings' = {after[b] : b \in bookings \ lost}
    /\ \A b \in bookings \ lost : Carried(b, after[b])

HeldAt(b) == TakesPlace(b.at) /\ timetable[b.at] = b.slot

LEMMA NoCreditFacts ==
    /\ NoCredit \notin Credit /\ NoCredit.status = "NONE"
    /\ \A k \in Credit : k.status \in {"ISSUED", "BOOKED", "USED", "FORFEITED"}
    /\ MakeUpTypeOK => \A k \in CreditIds : credits[k] \in Credit <=> credits[k] # NoCredit
<1>1. NoCredit.status = "NONE"
    BY DEF NoCredit
<1>2. \A k \in Credit : k.status \in {"ISSUED", "BOOKED", "USED", "FORFEITED"}
    BY DEF Credit
<1>3. NoCredit \notin Credit
    BY <1>1, <1>2
<1> QED BY <1>1, <1>2, <1>3 DEF MakeUpTypeOK

LEMMA ReleasedFacts ==
    ASSUME MakeUpTypeOK, NEW closed
    PROVE  /\ Released(closed) \in [CreditIds -> Credit \cup {NoCredit}]
           /\ \A k \in CreditIds :
                LET c == Released(closed)[k] IN
                /\ c # NoCredit <=> credits[k] # NoCredit
                /\ credits[k] # NoCredit =>
                     /\ c.student = credits[k].student /\ c.origin = credits[k].origin
                     /\ c.reason = credits[k].reason /\ c.pardoned = credits[k].pardoned
                /\ c.status = IF credits[k].status = "BOOKED" /\ \E b \in closed : b.credit = k
                              THEN "ISSUED" ELSE credits[k].status
<1> DEFINE R == Released(closed)
<1>1. \A k \in CreditIds : R[k] = IF credits[k].status = "BOOKED" /\ \E b \in closed : b.credit = k
                         THEN [credits[k] EXCEPT !.status = "ISSUED"] ELSE credits[k]
    BY DEF Released
<1>2. ASSUME NEW k \in CreditIds, credits[k].status = "BOOKED"
      PROVE  LET c == [credits[k] EXCEPT !.status = "ISSUED"] IN
             /\ credits[k] \in Credit /\ c \in Credit /\ c.status = "ISSUED"
             /\ c.student = credits[k].student /\ c.origin = credits[k].origin
             /\ c.reason = credits[k].reason /\ c.pardoned = credits[k].pardoned
    <2>1. credits[k] \in Credit
        BY <1>2, NoCreditFacts DEF MakeUpTypeOK
    <2> QED BY <2>1 DEF Credit
<1>3. \A k \in CreditIds : R[k] \in Credit \cup {NoCredit}
    BY <1>1, <1>2 DEF MakeUpTypeOK
<1>4. R \in [CreditIds -> Credit \cup {NoCredit}]
    BY <1>3 DEF Released
<1>5. ASSUME NEW k \in CreditIds
      PROVE  /\ R[k] # NoCredit <=> credits[k] # NoCredit
             /\ credits[k] # NoCredit =>
                  /\ R[k].student = credits[k].student /\ R[k].origin = credits[k].origin
                  /\ R[k].reason = credits[k].reason /\ R[k].pardoned = credits[k].pardoned
             /\ R[k].status = IF credits[k].status = "BOOKED" /\ \E b \in closed : b.credit = k
                              THEN "ISSUED" ELSE credits[k].status
    <2>1. CASE credits[k].status = "BOOKED" /\ \E b \in closed : b.credit = k
        BY <1>1, <1>2, <2>1, NoCreditFacts
    <2>2. CASE ~(credits[k].status = "BOOKED" /\ \E b \in closed : b.credit = k)
        BY <1>1, <2>2
    <2> QED BY <2>1, <2>2
<1> QED BY <1>4, <1>5

(* Reconcile carries the group's make-ups over or closes them, and those it  *)
(* leaves have their lesson, at their time.                                  *)
LEMMA ReconcileResult ==
    ASSUME MakeUpTypeOK, timetable' \in [Schedules -> Slots \cup Elsewhere],
           NEW g \in Groups, Reconcile(g)
    PROVE  \E lost, after :
             /\ Closes(lost, after)
             /\ ~past => \A c \in bookings' :
                  c.status = "BOOKED" /\ c.at \in Schedules /\ GroupOf[c.at] = g => HeldAt(c)'
<1> DEFINE mine == {b \in Booked : ~past /\ b.at \in Schedules /\ GroupOf[b.at] = g}
           lost == {b \in mine :
                     \/ ~TakesPlace(b.at)'
                     \/ /\ timetable'[b.at] # b.slot
                        /\ OwnLesson(b.student, timetable[b.at])'
                           \/ OtherMakeUp(b.student, timetable'[b.at], {b})}
           Moved(b) == [b EXCEPT !.slot = timetable'[b.at]]
           after == [b \in bookings \ lost |-> IF b \in mine THEN Moved(b) ELSE b]
<1>1. /\ bookings' = (bookings \ mine) \cup {Moved(b) : b \in mine \ lost}
      /\ credits' = Released(lost)
    BY DEF Reconcile
<1>2. mine \subseteq Booked /\ lost \subseteq mine /\ Booked \subseteq bookings
      /\ \A b \in mine : ~past /\ b.at \in Schedules /\ b.status = "BOOKED" /\ GroupOf[b.at] = g
    BY DEF Booked
<1>3. ASSUME NEW b \in mine \ lost, NEW c, c = Moved(b)
      PROVE  Carried(b, c) /\ HeldAt(c)'
    <2>1. TakesPlace(b.at)' /\ (timetable'[b.at] # b.slot =>
              ~OwnLesson(b.student, timetable[b.at])' /\ ~OtherMakeUp(b.student, timetable'[b.at], {b}))
        BY <1>3
    <2>2. timetable'[b.at] \in Slots
        BY <2>1 DEF TakesPlace, OnDay
    <2>3. b \in Booking
        BY <1>2 DEF MakeUpTypeOK
    <2>4. /\ c \in Booking /\ c.slot = timetable'[b.at]
          /\ c.credit = b.credit /\ c.student = b.student
          /\ c.at = b.at /\ c.status = b.status
        BY <1>3, <2>2, <2>3 DEF Booking
    <2>5. c.slot # b.slot => FreeAfter(c.student, c.slot)
        BY <2>1, <2>4 DEF OwnLesson, FreeAfter
    <2>6. Carried(b, c)
        BY <1>2, <2>1, <2>4, <2>5 DEF Carried
    <2>7. TakesPlace(c.at)' /\ timetable'[c.at] = c.slot
        BY <2>1, <2>4 DEF TakesPlace, OnDay
    <2> QED BY <2>6, <2>7 DEF HeldAt
<1>4. ASSUME NEW b \in bookings PROVE Carried(b, b)
    BY DEF Carried, MakeUpTypeOK
<1>5. bookings' = {after[b] : b \in bookings \ lost}
    BY <1>1, <1>2
<1>6. ASSUME NEW b \in bookings \ lost PROVE Carried(b, after[b])
    <2>1. PICK c : c = after[b]
        OBVIOUS
    <2>2. CASE b \in mine
        BY <1>3, <2>1, <2>2
    <2>3. CASE b \notin mine
        BY <1>4, <2>1, <2>3
    <2> QED BY <2>1, <2>2, <2>3
<1>7. ASSUME ~past, NEW c \in bookings', c.status = "BOOKED", c.at \in Schedules, GroupOf[c.at] = g
      PROVE  HeldAt(c)'
    <2>1. c \notin bookings \ mine
        BY <1>7 DEF Booked
    <2>2. PICK b \in mine \ lost : c = Moved(b)
        BY <1>1, <2>1
    <2> QED BY <1>3, <2>2
<1>8. Closes(lost, after)
    BY <1>1, <1>2, <1>5, <1>6 DEF Closes
<1> QED BY <1>7, <1>8

(* Make-ups closed one by one. *)
LEMMA ClosesSome ==
    ASSUME MakeUpTypeOK, NEW lost \in SUBSET Booked,
           bookings' = bookings \ lost, credits' = Released(lost)
    PROVE  Closes(lost, [b \in bookings \ lost |-> b])
<1>1. \A b \in bookings : Carried(b, b)
    BY DEF Carried, MakeUpTypeOK
<1>2. bookings \ lost = {[b \in bookings \ lost |-> b][c] : c \in bookings \ lost}
    OBVIOUS
<1> QED BY <1>1, <1>2 DEF Closes

LEMMA ClosesKeepsCredits ==
    ASSUME MakeUpTypeOK, CreditsFollowBookings, NEW lost, NEW after, Closes(lost, after)
    PROVE  /\ credits' \in [CreditIds -> Credit \cup {NoCredit}]
           /\ bookings' \subseteq Booking
           /\ CreditsFollowBookings'
<1>1. \A b \in bookings \ lost : Carried(b, after[b]) /\ after[b] \in bookings'
    BY DEF Closes
<1>2. \A c \in bookings' : \E b \in bookings \ lost : c = after[b]
    BY DEF Closes
<1>3. credits' = Released(lost) /\ lost \subseteq bookings
    BY DEF Closes, Booked
<1>4. bookings \subseteq Booking /\ \A b \in bookings : b.credit \in CreditIds
    BY DEF MakeUpTypeOK, Booking
<1>5. ASSUME NEW b \in bookings \ lost
      PROVE  /\ credits'[b.credit].status = credits[b.credit].status
             /\ credits'[b.credit].student = credits[b.credit].student
    <2>1. \A c \in lost : c.credit # b.credit
        BY <1>3 DEF CreditsFollowBookings
    <2>2. credits[b.credit] # NoCredit
        BY NoCreditFacts DEF CreditsFollowBookings
    <2> QED BY <1>3, <1>4, <2>1, <2>2, ReleasedFacts
<1>6. ASSUME NEW c \in bookings'
      PROVE  /\ credits'[c.credit].status = IF c.status = "BOOKED" THEN "BOOKED" ELSE "USED"
             /\ credits'[c.credit].student = c.student
             /\ \A d \in bookings' : d.credit = c.credit => d = c
    <2>1. PICK b \in bookings \ lost : c = after[b]
        BY <1>2
    <2>2. c.credit = b.credit /\ c.student = b.student /\ c.status = b.status
        BY <1>1, <2>1 DEF Carried
    <2>3. ASSUME NEW d \in bookings', d.credit = c.credit PROVE d = c
        <3>1. PICK a \in bookings \ lost : d = after[a]
            BY <1>2
        <3>2. a.credit = b.credit
            BY <1>1, <2>2, <2>3, <3>1 DEF Carried
        <3> QED BY <2>1, <3>1, <3>2 DEF CreditsFollowBookings
    <2> QED BY <1>5, <2>2, <2>3 DEF CreditsFollowBookings
<1>7. ASSUME NEW k \in CreditIds, credits'[k].status \in {"BOOKED", "USED"}
      PROVE  \E c \in bookings' : c.credit = k
    <2>1. credits'[k].status = IF credits[k].status = "BOOKED" /\ \E b \in lost : b.credit = k
                              THEN "ISSUED" ELSE credits[k].status
        BY <1>3, ReleasedFacts
    <2>2. credits[k].status \in {"BOOKED", "USED"} /\ ~(credits[k].status = "BOOKED" /\ \E b \in lost : b.credit = k)
        BY <1>7, <2>1
    <2>3. PICK b \in bookings : b.credit = k
        BY <2>2 DEF CreditsFollowBookings
    <2>4. b \notin lost
        BY <2>2, <2>3 DEF Closes, Booked, CreditsFollowBookings
    <2> QED BY <1>1, <2>3, <2>4 DEF Carried
<1>8. CreditsFollowBookings'
    BY <1>6, <1>7 DEF CreditsFollowBookings
<1>9. bookings' \subseteq Booking
    BY <1>1, <1>2 DEF Carried
<1> QED BY <1>3, <1>8, <1>9, ReleasedFacts

-----------------------------------------------------------------------------
(* Types, and credits beside their bookings. *)

(* Nothing of a booked or used credit changes. *)
LEMMA QuietKeepsCredits ==
    ASSUME CreditsFollowBookings, bookings' = bookings,
           \A k \in CreditIds :
             credits[k].status \in {"BOOKED", "USED"} \/ credits'[k].status \in {"BOOKED", "USED"} =>
               credits'[k].status = credits[k].status /\ credits'[k].student = credits[k].student,
           MakeUpTypeOK
    PROVE  CreditsFollowBookings'
<1>1. \A b \in bookings : b.credit \in CreditIds /\ credits[b.credit].status \in {"BOOKED", "USED"}
    BY DEF CreditsFollowBookings, MakeUpTypeOK, Booking
<1> QED BY <1>1 DEF CreditsFollowBookings

LEMMA BooksResult ==
    ASSUME MakeUpTypeOK, CreditsFollowBookings, NEW k \in CreditIds,
           NEW at \in Schedules \cup Teachers, NEW slot \in Slots, Books(k, at, slot)
    PROVE  \E b \in Booking :
             /\ b.credit = k /\ b.student = credits[k].student /\ b.at = at /\ b.slot = slot
             /\ b.status = "BOOKED" /\ b \notin bookings /\ bookings' = bookings \cup {b}
             /\ credits' \in [CreditIds -> Credit \cup {NoCredit}]
             /\ CreditsFollowBookings'
<1> DEFINE b == [credit |-> k, student |-> credits[k].student, at |-> at, slot |-> slot,
                 status |-> "BOOKED"]
<1>1. credits[k] \in Credit /\ credits[k].status = "ISSUED"
    BY NoCreditFacts DEF Books, MakeUpTypeOK
<1>2. b \in Booking
    BY <1>1 DEF Booking, Credit
<1>3. bookings' = bookings \cup {b} /\ \A c \in bookings : c.credit # k
    BY DEF Books
<1>4. credits' = [credits EXCEPT ![k] = [credits[k] EXCEPT !.status = "BOOKED"]]
    BY DEF Books, MakeUpTypeOK
<1>5. /\ [credits[k] EXCEPT !.status = "BOOKED"] \in Credit
      /\ [credits[k] EXCEPT !.status = "BOOKED"].status = "BOOKED"
      /\ [credits[k] EXCEPT !.status = "BOOKED"].student = credits[k].student
    BY <1>1 DEF Credit
<1>6. credits' \in [CreditIds -> Credit \cup {NoCredit}]
    BY <1>4, <1>5 DEF MakeUpTypeOK
<1>7. /\ credits'[k].status = "BOOKED" /\ credits'[k].student = credits[k].student
      /\ \A j \in CreditIds : j # k => credits'[j] = credits[j]
    BY <1>4, <1>5 DEF MakeUpTypeOK
<1>8. \A c \in bookings : c.credit \in CreditIds /\ c.credit # k
    BY <1>3 DEF MakeUpTypeOK, Booking
<1>9. CreditsFollowBookings'
    <2>1. ASSUME NEW c \in bookings'
          PROVE  /\ credits'[c.credit].status = IF c.status = "BOOKED" THEN "BOOKED" ELSE "USED"
                 /\ credits'[c.credit].student = c.student
                 /\ \A d \in bookings' : d.credit = c.credit => d = c
        <3>1. CASE c \in bookings
            BY <1>3, <1>7, <1>8, <3>1 DEF CreditsFollowBookings
        <3>2. CASE c = b
            BY <1>3, <1>7, <1>8, <3>2
        <3> QED BY <1>3, <3>1, <3>2
    <2>2. ASSUME NEW j \in CreditIds, credits'[j].status \in {"BOOKED", "USED"}
          PROVE  \E c \in bookings' : c.credit = j
        <3>1. CASE j = k
            <4>1. b.credit = k /\ b \in bookings'
                BY <1>3
            <4> QED BY <3>1, <4>1
        <3>2. CASE j # k
            BY <1>3, <1>7, <2>2, <3>2 DEF CreditsFollowBookings
        <3> QED BY <3>1, <3>2
    <2> QED BY <2>1, <2>2 DEF CreditsFollowBookings
<1> QED BY <1>2, <1>3, <1>6, <1>9

(* A make-up marked. *)
LEMMA MarkBookingResult ==
    ASSUME MakeUpTypeOK, CreditsFollowBookings, NEW b \in bookings,
           NEW status \in {"ATTENDED", "MISSED"}, MarkBooking(b, status)
    PROVE  /\ credits' \in [CreditIds -> Credit \cup {NoCredit}]
           /\ bookings' \subseteq Booking
           /\ \A c \in bookings' : \E a \in bookings :
                /\ a.credit = c.credit /\ a.student = c.student /\ a.at = c.at /\ a.slot = c.slot
                /\ c.status = "BOOKED" => a = c
           /\ CreditsFollowBookings'
           /\ \A k \in CreditIds : \/ credits'[k] = credits[k]
                                  \/ /\ credits[k] \in Credit /\ credits'[k] \in Credit
                                     /\ credits'[k].student = credits[k].student
                                     /\ credits'[k].origin = credits[k].origin
                                     /\ credits'[k].reason = credits[k].reason
                                     /\ credits'[k].status \in {"USED", "FORFEITED"}
<1> DEFINE k == b.credit
           new == IF status = "ATTENDED" THEN "USED" ELSE "FORFEITED"
           done == [b EXCEPT !.status = status]
<1>1. b \in Booking /\ k \in CreditIds /\ b.status = "BOOKED"
    BY DEF MarkBooking, Booked, MakeUpTypeOK, Booking
<1>2. credits[k] \in Credit /\ credits[k].status = "BOOKED" /\ credits[k].student = b.student
    BY <1>1, NoCreditFacts DEF MarkBooking, MakeUpTypeOK, CreditsFollowBookings
<1>3. credits' = [credits EXCEPT ![k] = [credits[k] EXCEPT !.status = new]]
    BY DEF MarkBooking, MakeUpTypeOK
<1>4. /\ [credits[k] EXCEPT !.status = new] \in Credit
      /\ [credits[k] EXCEPT !.status = new].status = new
      /\ [credits[k] EXCEPT !.status = new].student = credits[k].student
      /\ [credits[k] EXCEPT !.status = new].origin = credits[k].origin
      /\ [credits[k] EXCEPT !.status = new].reason = credits[k].reason
    BY <1>2 DEF Credit
<1>5. /\ credits'[k] \in Credit /\ credits'[k].status = new
      /\ credits'[k].student = credits[k].student
      /\ credits'[k].origin = credits[k].origin /\ credits'[k].reason = credits[k].reason
      /\ \A j \in CreditIds : j # k => credits'[j] = credits[j]
      /\ credits' \in [CreditIds -> Credit \cup {NoCredit}]
    BY <1>1, <1>3, <1>4 DEF MakeUpTypeOK
<1>6. bookings' = (bookings \ {b}) \cup (IF status = "ATTENDED" THEN {done} ELSE {})
    BY DEF MarkBooking
<1>7. status = "ATTENDED" =>
        /\ done \in Booking /\ done.status = "ATTENDED" /\ done.credit = k
        /\ done.student = b.student /\ done.at = b.at /\ done.slot = b.slot
    BY <1>1 DEF Booking
<1>8. \A c \in bookings : c.credit \in CreditIds /\ (c.credit = k => c = b)
    BY DEF MakeUpTypeOK, Booking, CreditsFollowBookings
<1>9. ASSUME NEW c \in bookings'
      PROVE  /\ c \in Booking
             /\ \E a \in bookings :
                /\ a.credit = c.credit /\ a.student = c.student /\ a.at = c.at /\ a.slot = c.slot
                /\ c.status = "BOOKED" => a = c
             /\ credits'[c.credit].status = IF c.status = "BOOKED" THEN "BOOKED" ELSE "USED"
             /\ credits'[c.credit].student = c.student
             /\ \A d \in bookings' : d.credit = c.credit => d = c
    <2>1. CASE c \in bookings \ {b}
        <3>1. c.credit # k /\ c \in Booking
            BY <1>8, <2>1 DEF MakeUpTypeOK
        <3>2. \A d \in bookings' : d.credit = c.credit => d \in bookings
            BY <1>6, <1>7, <3>1
        <3> QED BY <1>5, <1>8, <2>1, <3>1, <3>2 DEF CreditsFollowBookings
    <2>2. CASE c = done /\ status = "ATTENDED"
        <3>1. \A d \in bookings' : d.credit = k => d = done
            BY <1>6, <1>8, <2>2
        <3> QED BY <1>2, <1>5, <1>7, <2>2, <3>1
    <2> QED BY <1>6, <2>1, <2>2
<1>10. ASSUME NEW j \in CreditIds, credits'[j].status \in {"BOOKED", "USED"}
       PROVE  \E c \in bookings' : c.credit = j
    <2>1. CASE j = k
        BY <1>5, <1>6, <1>7, <1>10, <2>1
    <2>2. CASE j # k
        <3>1. PICK c \in bookings : c.credit = j
            BY <1>5, <1>10, <2>2 DEF CreditsFollowBookings
        <3> QED BY <1>6, <2>2, <3>1
    <2> QED BY <2>1, <2>2
<1>11. CreditsFollowBookings'
    BY <1>9, <1>10 DEF CreditsFollowBookings
<1> QED BY <1>2, <1>5, <1>9, <1>11

(* What a save of marks does to a credit: voided, moved to the lesson whose  *)
(* mark it follows, left without its mark, or as it was.                     *)
LEMMA MarkedCredit ==
    ASSUME MakeUpTypeOK, NEW o \in Origins, NEW entries \in Entries(o), Mark(o, entries)
    PROVE  \A k \in CreditIds :
             \/ /\ Withdrawn(k, o, entries) /\ credits[k].status = "ISSUED"
                /\ credits'[k] = NoCredit
             \/ /\ ~(Withdrawn(k, o, entries) /\ credits[k].status = "ISSUED")
                /\ \E s \in DOMAIN entries : Follows(k, s, o)
                /\ credits[k] \in Credit /\ credits'[k] \in Credit
                /\ credits'[k].origin = o /\ credits'[k].student = credits[k].student
                /\ credits'[k].reason = credits[k].reason
                /\ credits'[k].status = credits[k].status
                /\ credits'[k].pardoned = credits[k].pardoned
             \/ /\ ~(Withdrawn(k, o, entries) /\ credits[k].status = "ISSUED")
                /\ \A s \in DOMAIN entries : ~Follows(k, s, o)
                /\ \E s \in DOMAIN entries : Stranded(k, s, o)
                /\ credits[k] \in Credit /\ credits'[k] \in Credit
                /\ credits'[k].origin = credits[k].origin
                /\ credits'[k].student = credits[k].student
                /\ credits'[k].reason = credits[k].reason
                /\ credits'[k].status = credits[k].status /\ credits'[k].pardoned
             \/ /\ ~(Withdrawn(k, o, entries) /\ credits[k].status = "ISSUED")
                /\ \A s \in DOMAIN entries : ~Follows(k, s, o) /\ ~Stranded(k, s, o)
                /\ credits'[k] = credits[k]
<1> SUFFICES ASSUME NEW k \in CreditIds PROVE
             \/ /\ Withdrawn(k, o, entries) /\ credits[k].status = "ISSUED"
                /\ credits'[k] = NoCredit
             \/ /\ ~(Withdrawn(k, o, entries) /\ credits[k].status = "ISSUED")
                /\ \E s \in DOMAIN entries : Follows(k, s, o)
                /\ credits[k] \in Credit /\ credits'[k] \in Credit
                /\ credits'[k].origin = o /\ credits'[k].student = credits[k].student
                /\ credits'[k].reason = credits[k].reason
                /\ credits'[k].status = credits[k].status
                /\ credits'[k].pardoned = credits[k].pardoned
             \/ /\ ~(Withdrawn(k, o, entries) /\ credits[k].status = "ISSUED")
                /\ \A s \in DOMAIN entries : ~Follows(k, s, o)
                /\ \E s \in DOMAIN entries : Stranded(k, s, o)
                /\ credits[k] \in Credit /\ credits'[k] \in Credit
                /\ credits'[k].origin = credits[k].origin
                /\ credits'[k].student = credits[k].student
                /\ credits'[k].reason = credits[k].reason
                /\ credits'[k].status = credits[k].status /\ credits'[k].pardoned
             \/ /\ ~(Withdrawn(k, o, entries) /\ credits[k].status = "ISSUED")
                /\ \A s \in DOMAIN entries : ~Follows(k, s, o) /\ ~Stranded(k, s, o)
                /\ credits'[k] = credits[k]
    OBVIOUS
<1> DEFINE W == Withdrawn(k, o, entries)
           F == \E s \in DOMAIN entries : Follows(k, s, o)
           L == \E s \in DOMAIN entries : Stranded(k, s, o)
<1>1. credits'[k] = IF W /\ credits[k].status = "ISSUED" THEN NoCredit
                    ELSE IF F THEN [credits[k] EXCEPT !.origin = o]
                    ELSE IF L THEN [credits[k] EXCEPT !.pardoned = TRUE] ELSE credits[k]
    BY DEF Mark
<1>2. W => credits[k] \in Credit
    BY NoCreditFacts DEF Withdrawn, Ground, Follows, CreditOf, MakeUpTypeOK
<1>3. F \/ L => credits[k] \in Credit
    BY NoCreditFacts DEF Follows, Stranded, CreditOf, MakeUpTypeOK
<1> HIDE DEF W, F, L
<1>4. F => LET c == [credits[k] EXCEPT !.origin = o] IN
           /\ c \in Credit /\ c.origin = o /\ c.student = credits[k].student
           /\ c.reason = credits[k].reason /\ c.status = credits[k].status
           /\ c.pardoned = credits[k].pardoned
    BY <1>3 DEF Credit
<1>5. L => LET c == [credits[k] EXCEPT !.pardoned = TRUE] IN
           /\ c \in Credit /\ c.origin = credits[k].origin /\ c.student = credits[k].student
           /\ c.reason = credits[k].reason /\ c.status = credits[k].status /\ c.pardoned
    BY <1>3 DEF Credit
<1>6. CASE W /\ credits[k].status = "ISSUED"
    BY <1>1, <1>6 DEF W
<1>7. CASE ~(W /\ credits[k].status = "ISSUED") /\ F
    BY <1>1, <1>3, <1>4, <1>7 DEF W, F
<1>8. CASE ~(W /\ credits[k].status = "ISSUED") /\ ~F /\ L
    BY <1>1, <1>3, <1>5, <1>8 DEF W, F, L
<1>9. CASE ~(W /\ credits[k].status = "ISSUED") /\ ~F /\ ~L
    BY <1>1, <1>9 DEF W, F, L
<1> QED BY <1>6, <1>7, <1>8, <1>9

LEMMA ReinstatedCredit ==
    ASSUME MakeUpTypeOK, NEW k \in CreditIds, Reinstate(k)
    PROVE  /\ credits[k] \in Credit /\ credits[k].status = "FORFEITED"
           /\ credits' \in [CreditIds -> Credit \cup {NoCredit}]
           /\ \A j \in CreditIds : j # k => credits'[j] = credits[j]
           /\ credits'[k].status = "ISSUED" /\ credits'[k].student = credits[k].student
           /\ credits'[k].origin = credits[k].origin /\ credits'[k].reason = credits[k].reason
           /\ ~credits'[k].pardoned =>
                Missed(credits[k].student, credits[k].origin, credits[k].reason)
<1> DEFINE c == credits[k]
           p == c.pardoned \/ ~Missed(c.student, c.origin, c.reason)
<1>1. c \in Credit /\ c.status = "FORFEITED"
    BY NoCreditFacts DEF Reinstate, MakeUpTypeOK
<1>2. credits' = [credits EXCEPT ![k] = [[c EXCEPT !.status = "ISSUED"] EXCEPT !.pardoned = p]]
    BY <1>1 DEF Reinstate, MakeUpTypeOK, Credit
<1>3. p \in BOOLEAN
    OBVIOUS
<1> HIDE DEF p
<1>4. LET d == [[c EXCEPT !.status = "ISSUED"] EXCEPT !.pardoned = p] IN
      /\ d \in Credit /\ d.status = "ISSUED" /\ d.student = c.student /\ d.origin = c.origin
      /\ d.reason = c.reason /\ d.pardoned = p
    BY <1>1, <1>3 DEF Credit
<1>5. ~p => Missed(c.student, c.origin, c.reason)
    BY DEF p
<1> QED BY <1>1, <1>2, <1>4, <1>5 DEF MakeUpTypeOK

LEMMA InitTypes == MakeUpInit => MakeUpTypeOK /\ CreditsFollowBookings
<1> SUFFICES ASSUME MakeUpInit PROVE MakeUpTypeOK /\ CreditsFollowBookings
    OBVIOUS
<1>1. MakeUpTypeOK
    <2>1. timetable \in [Schedules -> Slots \cup Elsewhere]
        BY SchedulesAssumption DEF MakeUpInit, Elsewhere
    <2>2. marks \in [Students -> [Origins -> {"NONE", "ABSENT", "PRESENT"}]]
        BY DEF MakeUpInit
    <2>3. credits \in [CreditIds -> Credit \cup {NoCredit}]
        BY DEF MakeUpInit
    <2>4. edits \in 0..MaxEdits
        BY BoundsAssumption DEF MakeUpInit
    <2> QED BY <2>1, <2>2, <2>3, <2>4, SchedulesAssumption DEF MakeUpInit, MakeUpTypeOK
<1>2. \A k \in CreditIds : credits[k].status = "NONE"
    BY DEF MakeUpInit, NoCredit
<1> QED BY <1>1, <1>2 DEF MakeUpInit, CreditsFollowBookings

LEMMA MarksType ==
    ASSUME MakeUpTypeOK, NEW o \in Origins, NEW entries \in Entries(o), Mark(o, entries)
    PROVE  /\ marks' \in [Students -> [Origins -> {"NONE", "ABSENT", "PRESENT"}]]
           /\ DOMAIN entries \subseteq Students
           /\ \A s \in DOMAIN entries : entries[s] \in {"ABSENT", "PRESENT"}
           /\ \A s \in Students, x \in Origins :
                marks'[s][x] = IF s \in DOMAIN entries /\ x = o THEN entries[s]
                               ELSE IF s \in DOMAIN entries /\ x = DayOf(o) /\ Adopted(s, o)
                               THEN "NONE" ELSE marks[s][x]
<1>1. DayOf(o) \in Groups /\ DayOf(o) \in Origins
    BY SchedulesAssumption DEF DayOf, Origins
<1>2. Members[DayOf(o)] \subseteq Students
    BY <1>1, SchedulesAssumption
<1>3. \A s \in DOMAIN entries : entries[s] \in {"ABSENT", "PRESENT"}
    <2>1. PICK S : entries \in [S -> {"ABSENT", "PRESENT"}]
        BY DEF Entries
    <2> QED BY <2>1
<1>4. DOMAIN entries \subseteq Students
    BY <1>2 DEF Mark
<1>5. marks' = [s \in Students |-> IF s \in DOMAIN entries THEN Marked(s, o, entries[s]) ELSE marks[s]]
    BY DEF Mark
<1>6. ASSUME NEW s \in Students, s \in DOMAIN entries
      PROVE  /\ Marked(s, o, entries[s]) \in [Origins -> {"NONE", "ABSENT", "PRESENT"}]
             /\ \A x \in Origins :
                  Marked(s, o, entries[s])[x] =
                    IF x = o THEN entries[s]
                    ELSE IF x = DayOf(o) /\ Adopted(s, o) THEN "NONE" ELSE marks[s][x]
    <2> DEFINE day == [marks[s] EXCEPT ![DayOf(o)] = IF Adopted(s, o) THEN "NONE" ELSE @]
    <2>1. marks[s] \in [Origins -> {"NONE", "ABSENT", "PRESENT"}]
        BY DEF MakeUpTypeOK
    <2>2. /\ day \in [Origins -> {"NONE", "ABSENT", "PRESENT"}]
          /\ \A x \in Origins : day[x] = IF x = DayOf(o) /\ Adopted(s, o) THEN "NONE" ELSE marks[s][x]
        BY <1>1, <2>1
    <2>3. Marked(s, o, entries[s]) = [day EXCEPT ![o] = entries[s]]
        BY DEF Marked
    <2> HIDE DEF day
    <2> QED BY <1>3, <1>6, <2>2, <2>3
<1> QED BY <1>3, <1>4, <1>5, <1>6 DEF MakeUpTypeOK

LEMMA MakeUpTypeStep ==
    ASSUME MakeUpTypeOK, CreditsFollowBookings, [MakeUpNext]_makeUpVars
    PROVE  MakeUpTypeOK' /\ CreditsFollowBookings'
<1> USE SchedulesAssumption, BoundsAssumption
<1>e. edits < MaxEdits /\ edits' = edits + 1 => edits' \in 0..MaxEdits
    BY DEF MakeUpTypeOK
<1>q. bookings' = bookings /\ credits' = credits => CreditsFollowBookings'
    BY DEF CreditsFollowBookings
<1>1. ASSUME NEW r \in Schedules, NEW slot \in Slots, NEW force \in BOOLEAN, AddRow(r, slot, force)
      PROVE  MakeUpTypeOK' /\ CreditsFollowBookings'
    <2>1. timetable' \in [Schedules -> Slots \cup Elsewhere] /\ edits' \in 0..MaxEdits
        BY <1>1, <1>e DEF AddRow, Edit, MakeUpTypeOK
    <2>2. forced' \in BOOLEAN
        BY <1>1 DEF AddRow, Clears, MakeUpTypeOK
    <2> QED BY <1>1, <1>q, <2>1, <2>2 DEF AddRow, MakeUpTypeOK
<1>2. ASSUME NEW r \in Schedules, NEW to \in Slots \cup {"AWAY"},
             NEW isDated \in BOOLEAN, NEW force \in BOOLEAN,
             MoveRow(r, to, isDated, force)
      PROVE  MakeUpTypeOK' /\ CreditsFollowBookings'
    <2>1. timetable' \in [Schedules -> Slots \cup Elsewhere] /\ edits' \in 0..MaxEdits
        BY <1>2, <1>e DEF MoveRow, Edit, MakeUpTypeOK, Elsewhere
    <2>2. forced' \in BOOLEAN
        BY <1>2 DEF MoveRow, Clears, MakeUpTypeOK
    <2>3. \E lost, after : Closes(lost, after)
        BY <1>2, <2>1, ReconcileResult DEF MoveRow
    <2>4. bookings' \subseteq Booking /\ credits' \in [CreditIds -> Credit \cup {NoCredit}]
          /\ CreditsFollowBookings'
        BY <2>3, ClosesKeepsCredits
    <2> QED BY <1>2, <2>1, <2>2, <2>4 DEF MoveRow, MakeUpTypeOK
<1>3. ASSUME NEW r \in Schedules, DeleteRow(r)
      PROVE  MakeUpTypeOK' /\ CreditsFollowBookings'
    <2>1. timetable' \in [Schedules -> Slots \cup Elsewhere] /\ edits' \in 0..MaxEdits
        BY <1>3, <1>e DEF DeleteRow, Edit, MakeUpTypeOK, Elsewhere
    <2>3. \E lost, after : Closes(lost, after)
        BY <1>3, <2>1, ReconcileResult DEF DeleteRow
    <2>4. bookings' \subseteq Booking /\ credits' \in [CreditIds -> Credit \cup {NoCredit}]
          /\ CreditsFollowBookings'
        BY <2>3, ClosesKeepsCredits
    <2> QED BY <1>3, <2>1, <2>4 DEF DeleteRow, MakeUpTypeOK
<1>4. ASSUME NEW r \in Schedules, CallOff(r)
      PROVE  MakeUpTypeOK' /\ CreditsFollowBookings'
    <2>1. edits' \in 0..MaxEdits
        BY <1>4, <1>e DEF CallOff
    <2>3. \E lost, after : Closes(lost, after)
        BY <1>4, ClosesSome DEF CallOff
    <2>4. bookings' \subseteq Booking /\ credits' \in [CreditIds -> Credit \cup {NoCredit}]
          /\ CreditsFollowBookings'
        BY <2>3, ClosesKeepsCredits
    <2> QED BY <1>4, <2>1, <2>4 DEF CallOff, MakeUpTypeOK
<1>5. ASSUME NEW r \in Schedules, RestoreLesson(r)
      PROVE  MakeUpTypeOK' /\ CreditsFollowBookings'
    <2>1. edits' \in 0..MaxEdits
        BY <1>5, <1>e DEF RestoreLesson
    <2> QED BY <1>5, <1>q, <2>1 DEF RestoreLesson, MakeUpTypeOK
<1>6. ASSUME NEW g \in Groups, RemoveGroup(g)
      PROVE  MakeUpTypeOK' /\ CreditsFollowBookings'
    <2>1. timetable' \in [Schedules -> Slots \cup Elsewhere] /\ edits' \in 0..MaxEdits
        BY <1>6, <1>e DEF RemoveGroup, Edit, MakeUpTypeOK
    <2>3. \E lost, after : Closes(lost, after)
        BY <1>6, <2>1, ReconcileResult DEF RemoveGroup
    <2>4. bookings' \subseteq Booking /\ credits' \in [CreditIds -> Credit \cup {NoCredit}]
          /\ CreditsFollowBookings'
        BY <2>3, ClosesKeepsCredits
    <2> QED BY <1>6, <2>1, <2>4 DEF RemoveGroup, MakeUpTypeOK
<1>7. ASSUME NEW g \in Groups, RestoreGroup(g)
      PROVE  MakeUpTypeOK' /\ CreditsFollowBookings'
    <2>1. timetable' \in [Schedules -> Slots \cup Elsewhere] /\ edits' \in 0..MaxEdits
        BY <1>7, <1>e DEF RestoreGroup, Edit, MakeUpTypeOK
    <2> QED BY <1>7, <1>q, <2>1 DEF RestoreGroup, MakeUpTypeOK
<1>8. ASSUME NEW o \in Origins, NEW entries \in Entries(o), Mark(o, entries)
      PROVE  MakeUpTypeOK' /\ CreditsFollowBookings'
    <2>1. ASSUME NEW k \in CreditIds
          PROVE  /\ credits'[k] \in Credit \cup {NoCredit}
                 /\ \/ /\ credits[k].status = "ISSUED" /\ credits'[k].status = "NONE"
                    \/ /\ credits'[k].status = credits[k].status
                       /\ credits'[k].student = credits[k].student
        BY <1>8, MarkedCredit, NoCreditFacts DEF MakeUpTypeOK
    <2>2. credits' \in [CreditIds -> Credit \cup {NoCredit}]
        BY <1>8, <2>1 DEF Mark
    <2>3. bookings' = bookings
        BY <1>8 DEF Mark
    <2>4. CreditsFollowBookings'
        BY <2>1, <2>3, QuietKeepsCredits
    <2> QED BY <1>8, <2>2, <2>4, MarksType DEF Mark, timetableVars, MakeUpTypeOK
<1>9. ASSUME NEW s \in Students, NEW r \in Schedules, Scan(s, r)
      PROVE  MakeUpTypeOK' /\ CreditsFollowBookings'
    <2>1. marks' \in [Students -> [Origins -> {"NONE", "ABSENT", "PRESENT"}]]
        BY <1>9 DEF Scan, MakeUpTypeOK, Origins
    <2> QED BY <1>9, <1>q, <2>1 DEF Scan, timetableVars, MakeUpTypeOK
<1>10. ASSUME NEW s \in Students, NEW o \in Origins, NEW reason \in {"ABSENT", "LESSON_CANCELLED"},
              Issue(s, o, reason)
       PROVE  MakeUpTypeOK' /\ CreditsFollowBookings'
    <2> DEFINE new == [student |-> s, origin |-> o, reason |-> reason, status |-> "ISSUED",
                       pardoned |-> FALSE]
    <2>1. PICK k \in CreditIds : credits[k] = NoCredit /\ credits' = [credits EXCEPT ![k] = new]
        BY <1>10 DEF Issue
    <2>2. new \in Credit /\ new.status = "ISSUED"
        BY DEF Credit
    <2> HIDE DEF new
    <2>3. credits' \in [CreditIds -> Credit \cup {NoCredit}]
        BY <2>1, <2>2 DEF MakeUpTypeOK
    <2>4. /\ credits[k].status = "NONE" /\ credits'[k].status = "ISSUED"
          /\ \A j \in CreditIds : j # k => credits'[j] = credits[j]
        BY <2>1, <2>2, NoCreditFacts DEF MakeUpTypeOK
    <2>5. CreditsFollowBookings'
        BY <1>10, <2>4, QuietKeepsCredits DEF Issue
    <2> QED BY <1>10, <2>3, <2>5 DEF Issue, timetableVars, MakeUpTypeOK
<1>11. ASSUME NEW k \in CreditIds, CancelCredit(k)
       PROVE  MakeUpTypeOK' /\ CreditsFollowBookings'
    <2>1. /\ credits[k].status = "ISSUED" /\ credits'[k].status = "NONE"
          /\ \A j \in CreditIds : j # k => credits'[j] = credits[j]
          /\ credits' \in [CreditIds -> Credit \cup {NoCredit}]
        BY <1>11, NoCreditFacts DEF CancelCredit, MakeUpTypeOK
    <2>2. CreditsFollowBookings'
        BY <1>11, <2>1, QuietKeepsCredits DEF CancelCredit
    <2> QED BY <1>11, <2>1, <2>2 DEF CancelCredit, timetableVars, MakeUpTypeOK
<1>12. ASSUME NEW k \in CreditIds, Reinstate(k)
       PROVE  MakeUpTypeOK' /\ CreditsFollowBookings'
    <2>1. /\ credits[k].status = "FORFEITED" /\ credits'[k].status = "ISSUED"
          /\ \A j \in CreditIds : j # k => credits'[j] = credits[j]
          /\ credits' \in [CreditIds -> Credit \cup {NoCredit}]
        BY <1>12, ReinstatedCredit
    <2>2. CreditsFollowBookings'
        BY <1>12, <2>1, QuietKeepsCredits DEF Reinstate
    <2> QED BY <1>12, <2>1, <2>2 DEF Reinstate, timetableVars, MakeUpTypeOK
<1>13. ASSUME NEW k \in CreditIds, NEW r \in Schedules, BookLesson(k, r)
       PROVE  MakeUpTypeOK' /\ CreditsFollowBookings'
    <2>1. timetable[r] \in Slots /\ Books(k, r, timetable[r])
        BY <1>13 DEF BookLesson, TakesPlace, OnDay
    <2>2. PICK b \in Booking :
             /\ bookings' = bookings \cup {b}
             /\ credits' \in [CreditIds -> Credit \cup {NoCredit}] /\ CreditsFollowBookings'
        BY <2>1, BooksResult
    <2> QED BY <2>1, <2>2 DEF Books, timetableVars, MakeUpTypeOK
<1>14. ASSUME NEW k \in CreditIds, NEW w \in Teachers, NEW slot \in Slots, BookSession(k, w, slot)
       PROVE  MakeUpTypeOK' /\ CreditsFollowBookings'
    <2>1. Books(k, w, slot)
        BY <1>14 DEF BookSession
    <2>2. PICK b \in Booking :
             /\ bookings' = bookings \cup {b}
             /\ credits' \in [CreditIds -> Credit \cup {NoCredit}] /\ CreditsFollowBookings'
        BY <2>1, BooksResult
    <2> QED BY <2>1, <2>2 DEF Books, timetableVars, MakeUpTypeOK
<1>15. ASSUME NEW b \in bookings, CancelBooking(b)
       PROVE  MakeUpTypeOK' /\ CreditsFollowBookings'
    <2>1. \E lost, after : Closes(lost, after)
        BY <1>15, ClosesSome DEF CancelBooking
    <2>2. bookings' \subseteq Booking /\ credits' \in [CreditIds -> Credit \cup {NoCredit}]
          /\ CreditsFollowBookings'
        BY <2>1, ClosesKeepsCredits
    <2> QED BY <1>15, <2>2 DEF CancelBooking, timetableVars, MakeUpTypeOK
<1>16. ASSUME NEW b \in bookings, NEW status \in {"ATTENDED", "MISSED"}, MarkBooking(b, status)
       PROVE  MakeUpTypeOK' /\ CreditsFollowBookings'
    <2>1. bookings' \subseteq Booking /\ credits' \in [CreditIds -> Credit \cup {NoCredit}]
          /\ CreditsFollowBookings'
        BY <1>16, MarkBookingResult
    <2> QED BY <1>16, <2>1 DEF MarkBooking, timetableVars, MakeUpTypeOK
<1>17. CASE DayPasses
    BY <1>17, <1>q DEF DayPasses, timetableVars, MakeUpTypeOK
<1>18. CASE UNCHANGED makeUpVars
    BY <1>18, <1>q DEF makeUpVars, MakeUpTypeOK
<1>19. CASE \/ \E r \in Schedules, slot \in Slots, force \in BOOLEAN : AddRow(r, slot, force)
            \/ \E r \in Schedules, to \in Slots \cup {"AWAY"}, isDated, force \in BOOLEAN :
                 MoveRow(r, to, isDated, force)
            \/ \E r \in Schedules : DeleteRow(r) \/ CallOff(r) \/ RestoreLesson(r)
            \/ \E g \in Groups : RemoveGroup(g) \/ RestoreGroup(g)
    BY <1>1, <1>2, <1>3, <1>4, <1>5, <1>6, <1>7, <1>19
<1>20. CASE \E k \in CreditIds :
              \/ CancelCredit(k) \/ Reinstate(k)
              \/ \E r \in Schedules : BookLesson(k, r)
              \/ \E w \in Teachers, slot \in Slots : BookSession(k, w, slot)
    BY <1>11, <1>12, <1>13, <1>14, <1>20
<1> QED BY <1>8, <1>9, <1>10, <1>15, <1>16, <1>17, <1>18, <1>19, <1>20 DEF MakeUpNext

-----------------------------------------------------------------------------
(* The ground of a credit. *)

(* Whatever leaves the marks, what credits were given for and the lessons    *)
(* called off, keeps the ground.                                             *)
LEMMA GroundKept ==
    ASSUME GroundInv, marks' = marks,
           \A k \in CreditIds : credits'[k] # NoCredit =>
             /\ credits[k] # NoCredit
             /\ credits'[k].student = credits[k].student /\ credits'[k].origin = credits[k].origin
             /\ credits'[k].reason = credits[k].reason
             /\ credits'[k].status \in {"ISSUED", "BOOKED"} =>
                  /\ credits[k].status \in {"ISSUED", "BOOKED"}
                  /\ credits'[k].pardoned = credits[k].pardoned,
           \A o \in Schedules : OffForGood(o) =>
             \/ OffForGood(o)'
             \/ \A k \in CreditIds : credits[k] # NoCredit =>
                  ~(credits[k].reason = "LESSON_CANCELLED" /\ credits[k].origin = o)
    PROVE  GroundInv'
<1> SUFFICES ASSUME NEW k \in CreditIds, credits'[k] # NoCredit PROVE GroundOf(credits[k])'
    BY DEF GroundInv
<1>1. GroundOf(credits[k])
    BY DEF GroundInv
<1>2. PICK o : o = credits[k].origin
    OBVIOUS
<1>3. credits[k].reason = "LESSON_CANCELLED" => OffForGood(o)'
    BY <1>1, <1>2 DEF GroundOf, OffForGood
<1>4. credits'[k].reason = "LESSON_CANCELLED" => OffForGood(credits[k].origin)'
    BY <1>2, <1>3 DEF OffForGood
<1> QED BY <1>1, <1>4 DEF GroundOf

LEMMA GroundClosed ==
    ASSUME MakeUpTypeOK, GroundInv, marks' = marks, NEW lost, credits' = Released(lost),
           \A o \in Schedules : OffForGood(o) => OffForGood(o)'
    PROVE  GroundInv'
<1>1. \A k \in CreditIds : credits'[k] # NoCredit =>
             /\ credits[k] # NoCredit
             /\ credits'[k].student = credits[k].student /\ credits'[k].origin = credits[k].origin
             /\ credits'[k].reason = credits[k].reason
             /\ credits'[k].status \in {"ISSUED", "BOOKED"} =>
                  /\ credits[k].status \in {"ISSUED", "BOOKED"}
                  /\ credits'[k].pardoned = credits[k].pardoned
    BY ReleasedFacts
<1> QED BY <1>1, GroundKept

LEMMA GroundStep ==
    ASSUME MakeUpInv, [MakeUpNext]_makeUpVars
    PROVE  GroundInv'
<1> USE DEF MakeUpInv
<1>o. timetable' = timetable /\ calledOff' = calledOff =>
        \A o \in Schedules : OffForGood(o) => OffForGood(o)'
    BY DEF OffForGood
<1>u. marks' = marks /\ credits' = credits /\
        (\A o \in Schedules : OffForGood(o) => OffForGood(o)') => GroundInv'
    BY GroundKept
<1>1. ASSUME NEW r \in Schedules, NEW slot \in Slots, NEW force \in BOOLEAN, AddRow(r, slot, force)
      PROVE  GroundInv'
    <2>1. \A o \in Schedules : OffForGood(o) => OffForGood(o)'
        BY <1>1 DEF AddRow, Edit, OffForGood, MakeUpTypeOK
    <2> QED BY <1>1, <1>u, <2>1 DEF AddRow
<1>2. ASSUME NEW r \in Schedules, NEW to \in Slots \cup {"AWAY"},
             NEW isDated \in BOOLEAN, NEW force \in BOOLEAN,
             MoveRow(r, to, isDated, force)
      PROVE  GroundInv'
    <2>1. \A o \in Schedules : OffForGood(o) => OffForGood(o)'
        BY <1>2 DEF MoveRow, Edit, OffForGood, MakeUpTypeOK
    <2>2. marks' = marks /\ \E lost : credits' = Released(lost)
        BY <1>2 DEF MoveRow, Reconcile
    <2> QED BY <2>1, <2>2, GroundClosed
<1>3. ASSUME NEW r \in Schedules, DeleteRow(r)
      PROVE  GroundInv'
    <2>1. \A o \in Schedules : OffForGood(o) => OffForGood(o)'
        BY <1>3 DEF DeleteRow, Edit, OffForGood, MakeUpTypeOK
    <2>2. marks' = marks /\ \E lost : credits' = Released(lost)
        BY <1>3 DEF DeleteRow, Reconcile
    <2> QED BY <2>1, <2>2, GroundClosed
<1>4. ASSUME NEW r \in Schedules, CallOff(r)
      PROVE  GroundInv'
    <2>1. \A o \in Schedules : OffForGood(o) => OffForGood(o)'
        BY <1>4 DEF CallOff, OffForGood
    <2>2. marks' = marks /\ \E lost : credits' = Released(lost)
        BY <1>4 DEF CallOff
    <2> QED BY <2>1, <2>2, GroundClosed
<1>5. ASSUME NEW r \in Schedules, RestoreLesson(r)
      PROVE  GroundInv'
    <2>1. \A o \in Schedules : OffForGood(o) =>
             \/ OffForGood(o)'
             \/ \A k \in CreditIds : credits[k] # NoCredit =>
                  ~(credits[k].reason = "LESSON_CANCELLED" /\ credits[k].origin = o)
        BY <1>5 DEF RestoreLesson, OffForGood
    <2> QED BY <1>5, <2>1, GroundKept DEF RestoreLesson
<1>6. ASSUME NEW g \in Groups, RemoveGroup(g)
      PROVE  GroundInv'
    <2>1. \A o \in Schedules : OffForGood(o) => OffForGood(o)'
        BY <1>6, <1>o DEF RemoveGroup, Edit
    <2>2. marks' = marks /\ \E lost : credits' = Released(lost)
        BY <1>6 DEF RemoveGroup, Reconcile
    <2> QED BY <2>1, <2>2, GroundClosed
<1>7. ASSUME NEW g \in Groups, RestoreGroup(g)
      PROVE  GroundInv'
    BY <1>7, <1>o, <1>u DEF RestoreGroup, Edit
<1>8. ASSUME NEW o \in Origins, NEW entries \in Entries(o), Mark(o, entries)
      PROVE  GroundInv'
    <2> SUFFICES ASSUME NEW k \in CreditIds, credits'[k] # NoCredit
                 PROVE  GroundOf(credits[k])'
        BY DEF GroundInv
    <2>1. \A x : OffForGood(x)' <=> OffForGood(x)
        BY <1>8 DEF Mark, timetableVars, OffForGood
    <2>2. o \in Schedules => TakesPlace(o)
        BY <1>8, SchedulesAssumption DEF Mark, Markable, MakeUpTypeOK
    <2>3. /\ credits[k] \in Credit /\ credits[k] # NoCredit /\ GroundOf(credits[k])
          /\ credits[k].student \in Students /\ credits[k].origin \in Origins
        <3>1. credits[k] \in Credit /\ credits[k] # NoCredit
            BY <1>8, MarkedCredit, NoCreditFacts DEF MakeUpTypeOK
        <3> QED BY <3>1 DEF GroundInv, Credit
    <2> DEFINE c == credits[k]
               s == credits[k].student
    <2>4. /\ \A y \in DOMAIN entries : entries[y] \in {"ABSENT", "PRESENT"}
          /\ \A y \in Students, x \in Origins :
                marks'[y][x] = IF y \in DOMAIN entries /\ x = o THEN entries[y]
                               ELSE IF y \in DOMAIN entries /\ x = DayOf(o) /\ Adopted(y, o)
                               THEN "NONE" ELSE marks[y][x]
        BY <1>8, MarksType
    <2>5. /\ c.status \in {"ISSUED", "BOOKED"} => ~Withdrawn(k, o, entries)
          /\ credits'[k].student = s /\ credits'[k].reason = c.reason
          /\ credits'[k].status = c.status
          /\ \/ /\ credits'[k].origin = o /\ credits'[k].pardoned = c.pardoned
                /\ \E y \in DOMAIN entries : Follows(k, y, o)
             \/ /\ credits'[k].origin = c.origin /\ (credits'[k].pardoned = c.pardoned \/ credits'[k].pardoned)
                /\ \A y \in DOMAIN entries : ~Follows(k, y, o)
                /\ (\E y \in DOMAIN entries : Stranded(k, y, o)) => credits'[k].pardoned
        BY <1>8, MarkedCredit, NoCreditFacts DEF Mark
    <2>6. CASE c.reason = "LESSON_CANCELLED"
        <3>1. credits'[k].origin = c.origin
            BY <2>5, <2>6 DEF Follows
        <3>2. OffForGood(credits[k].origin)'
            BY <2>3, <2>6, <3>1, <1>8 DEF GroundOf, OffForGood, Mark, timetableVars
        <3> QED BY <2>5, <2>6, <3>2 DEF GroundOf
    <2>7. CASE c.reason = "ABSENT"
        <3>1. ASSUME s \in DOMAIN entries, Ground(k, s, o), credits'[k].origin = o
              PROVE  /\ marks'[s][o] # "NONE"
                     /\ c.status \in {"ISSUED", "BOOKED"} => marks'[s][o] = "ABSENT"
            BY <2>3, <2>4, <2>5, <3>1 DEF Withdrawn
        <3>2. CASE credits'[k].origin = o /\ \E y \in DOMAIN entries : Follows(k, y, o)
            <4>1. s \in DOMAIN entries /\ Ground(k, s, o)
                BY <2>7, <3>2 DEF Follows, CreditOf, Ground
            <4> QED BY <2>5, <2>7, <3>1, <3>2, <4>1 DEF GroundOf
        <3>3. CASE /\ credits'[k].origin = c.origin
                   /\ \A y \in DOMAIN entries : ~Follows(k, y, o)
                   /\ (\E y \in DOMAIN entries : Stranded(k, y, o)) => credits'[k].pardoned
            <4>1. CASE s \in DOMAIN entries /\ c.origin = o
                <5>1. Ground(k, s, o)
                    BY <2>3, <2>7, <4>1 DEF Ground, CreditOf
                <5> QED BY <2>5, <2>7, <3>1, <3>3, <4>1, <5>1 DEF GroundOf
            <4>2. CASE s \in DOMAIN entries /\ c.origin = DayOf(o) /\ Adopted(s, o)
                <5>1. PICK j \in CreditIds : CreditOf(j, s, o)
                    BY <2>3, <2>7, <3>3, <4>2 DEF Follows, CreditOf
                <5>2. Stranded(k, s, o)
                    BY <2>3, <2>7, <4>2, <5>1 DEF Stranded, CreditOf
                <5>3. credits'[k].pardoned /\ credits'[k].origin \notin Schedules
                    BY <2>5, <3>3, <4>2, <5>2, SchedulesAssumption DEF Adopted, DayOf
                <5> QED BY <2>5, <2>7, <5>3 DEF GroundOf
            <4>3. CASE ~(s \in DOMAIN entries /\ c.origin = o)
                       /\ ~(s \in DOMAIN entries /\ c.origin = DayOf(o) /\ Adopted(s, o))
                <5>1. marks'[s][c.origin] = marks[s][c.origin]
                    BY <2>3, <2>4, <4>3
                <5> QED BY <2>3, <2>5, <2>7, <3>3, <5>1 DEF GroundOf
            <4> QED BY <4>1, <4>2, <4>3
        <3> QED BY <2>5, <3>2, <3>3
    <2> QED BY <2>3, <2>6, <2>7 DEF Credit
<1>9. ASSUME NEW s \in Students, NEW r \in Schedules, Scan(s, r)
      PROVE  GroundInv'
    <2> SUFFICES ASSUME NEW k \in CreditIds, credits'[k] # NoCredit
                 PROVE  GroundOf(credits[k])'
        BY DEF GroundInv
    <2>1. credits' = credits /\ timetable' = timetable /\ calledOff' = calledOff
          /\ marks[s][r] = "NONE" /\ marks' = [marks EXCEPT ![s][r] = "PRESENT"]
        BY <1>9 DEF Scan, timetableVars
    <2>2. GroundOf(credits[k]) /\ credits[k] \in Credit
        BY <2>1, NoCreditFacts DEF GroundInv, MakeUpTypeOK
    <2>3. \A y \in Students, x \in Origins :
            marks'[y][x] = IF y = s /\ x = r THEN "PRESENT" ELSE marks[y][x]
        BY <2>1 DEF MakeUpTypeOK, Origins
    <2>4. credits[k].student \in Students /\ credits[k].origin \in Origins
        BY <2>2 DEF Credit
    <2>5. CASE credits[k].student = s /\ credits[k].origin = r
        <3>1. credits[k].reason # "ABSENT"
            BY <2>1, <2>2, <2>5 DEF GroundOf
        <3> QED BY <2>1, <2>2, <3>1 DEF GroundOf, OffForGood
    <2>6. CASE ~(credits[k].student = s /\ credits[k].origin = r)
        BY <2>1, <2>2, <2>3, <2>4, <2>6 DEF GroundOf, OffForGood
    <2> QED BY <2>5, <2>6
<1>10. ASSUME NEW s \in Students, NEW o \in Origins, NEW reason \in {"ABSENT", "LESSON_CANCELLED"},
              Issue(s, o, reason)
       PROVE  GroundInv'
    <2> DEFINE new == [student |-> s, origin |-> o, reason |-> reason, status |-> "ISSUED",
                       pardoned |-> FALSE]
    <2>1. PICK k \in CreditIds : credits' = [credits EXCEPT ![k] = new]
        BY <1>10 DEF Issue
    <2>2. Missed(s, o, reason) /\ marks' = marks /\ timetable' = timetable /\ calledOff' = calledOff
        BY <1>10 DEF Issue, timetableVars
    <2>3. new.student = s /\ new.origin = o /\ new.reason = reason /\ new.status = "ISSUED"
        OBVIOUS
    <2> HIDE DEF new
    <2>4. ASSUME NEW j \in CreditIds, credits'[j] # NoCredit PROVE GroundOf(credits[j])'
        <3>1. CASE j = k
            <4>1. credits'[j] = new
                BY <2>1, <3>1 DEF MakeUpTypeOK
            <4> QED BY <2>2, <2>3, <4>1 DEF GroundOf, OffForGood, Missed, MakeUpTypeOK
        <3>2. CASE j # k
            <4>1. credits'[j] = credits[j]
                BY <2>1, <3>2 DEF MakeUpTypeOK
            <4>2. GroundOf(credits[j])
                BY <2>4, <4>1 DEF GroundInv
            <4> QED BY <2>2, <4>1, <4>2 DEF GroundOf, OffForGood
        <3> QED BY <3>1, <3>2
    <2> QED BY <2>4 DEF GroundInv
<1>11. ASSUME NEW k \in CreditIds, CancelCredit(k)
       PROVE  GroundInv'
    <2>1. \A j \in CreditIds : credits'[j] # NoCredit => credits'[j] = credits[j]
        BY <1>11 DEF CancelCredit, MakeUpTypeOK
    <2>2. marks' = marks /\ timetable' = timetable /\ calledOff' = calledOff
        BY <1>11 DEF CancelCredit, timetableVars
    <2> QED BY <1>o, <2>1, <2>2, GroundKept
<1>12. ASSUME NEW k \in CreditIds, Reinstate(k)
       PROVE  GroundInv'
    <2>1. marks' = marks /\ timetable' = timetable /\ calledOff' = calledOff
        BY <1>12 DEF Reinstate, timetableVars
    <2>2. ASSUME NEW j \in CreditIds, credits'[j] # NoCredit PROVE GroundOf(credits[j])'
        <3>1. CASE j = k
            <4>1. credits[k] \in Credit /\ GroundOf(credits[k])
                BY <1>12, ReinstatedCredit, NoCreditFacts DEF GroundInv
            <4>2. /\ credits'[j].student = credits[k].student
                  /\ credits'[j].origin = credits[k].origin /\ credits'[j].reason = credits[k].reason
                  /\ ~credits'[j].pardoned =>
                       Missed(credits[k].student, credits[k].origin, credits[k].reason)
                BY <1>12, <3>1, ReinstatedCredit
            <4> QED BY <2>1, <4>1, <4>2 DEF GroundOf, OffForGood, Missed
        <3>2. CASE j # k
            <4>1. credits'[j] = credits[j]
                BY <1>12, <3>2, ReinstatedCredit
            <4>2. GroundOf(credits[j])
                BY <2>2, <4>1 DEF GroundInv
            <4> QED BY <2>1, <4>1, <4>2 DEF GroundOf, OffForGood
        <3> QED BY <3>1, <3>2
    <2> QED BY <2>2 DEF GroundInv
<1>13. ASSUME NEW k \in CreditIds, NEW at, NEW slot, Books(k, at, slot)
       PROVE  GroundInv'
    <2>1. marks' = marks /\ timetable' = timetable /\ calledOff' = calledOff
        BY <1>13 DEF Books, timetableVars
    <2>2. credits[k] \in Credit /\ credits[k].status = "ISSUED"
        BY <1>13, NoCreditFacts DEF Books, MakeUpTypeOK
    <2>3. LET c == [credits[k] EXCEPT !.status = "BOOKED"] IN
          /\ c.student = credits[k].student /\ c.origin = credits[k].origin
          /\ c.reason = credits[k].reason /\ c.pardoned = credits[k].pardoned
        BY <2>2 DEF Credit
    <2>4. /\ \A j \in CreditIds : j # k => credits'[j] = credits[j]
          /\ credits'[k] = [credits[k] EXCEPT !.status = "BOOKED"]
        BY <1>13 DEF Books, MakeUpTypeOK
    <2>5. credits[k] # NoCredit
        BY <2>2, NoCreditFacts
    <2> QED BY <1>o, <2>1, <2>2, <2>3, <2>4, <2>5, GroundKept
<1>14. ASSUME NEW b \in bookings, CancelBooking(b)
       PROVE  GroundInv'
    <2>1. marks' = marks /\ timetable' = timetable /\ calledOff' = calledOff
          /\ credits' = Released({b})
        BY <1>14 DEF CancelBooking, timetableVars
    <2> QED BY <1>o, <2>1, GroundClosed
<1>15. ASSUME NEW b \in bookings, NEW status \in {"ATTENDED", "MISSED"}, MarkBooking(b, status)
       PROVE  GroundInv'
    <2>1. marks' = marks /\ timetable' = timetable /\ calledOff' = calledOff
        BY <1>15 DEF MarkBooking, timetableVars
    <2>2. \A k \in CreditIds : \/ credits'[k] = credits[k]
                             \/ /\ credits[k] # NoCredit
                                /\ credits'[k].student = credits[k].student
                                /\ credits'[k].origin = credits[k].origin
                                /\ credits'[k].reason = credits[k].reason
                                /\ credits'[k].status \in {"USED", "FORFEITED"}
        BY <1>15, MarkBookingResult, NoCreditFacts
    <2> QED BY <1>o, <2>1, <2>2, GroundKept
<1>16. CASE DayPasses \/ UNCHANGED makeUpVars
    BY <1>16, <1>o, <1>u DEF DayPasses, timetableVars, makeUpVars
<1> QED BY <1>1, <1>2, <1>3, <1>4, <1>5, <1>6, <1>7, <1>8, <1>9, <1>10, <1>11, <1>12, <1>13,
           <1>14, <1>15, <1>16 DEF MakeUpNext, BookLesson, BookSession

-----------------------------------------------------------------------------
(* Bookings. A step leaves them, carries them over or closes them, adds one  *)
(* or marks one.                                                             *)

Like(a, c) == a.credit = c.credit /\ a.student = c.student /\ a.at = c.at /\ a.slot = c.slot

OneRowMoves == \E r : \A q \in Schedules : q # r => timetable'[q] = timetable[q]

Carries == \E lost, after : Closes(lost, after) /\ OneRowMoves

AddsOne ==
    \E b \in Booking :
      /\ b.status = "BOOKED" /\ bookings' = bookings \cup {b} /\ b \notin bookings
      /\ ~Busy(b.student, b.slot)
      /\ \/ /\ b.at \in Schedules /\ HeldAt(b) /\ b.student \notin Members[GroupOf[b.at]]
            /\ Seats(b.at) < FreeSeats[GroupOf[b.at]]
         \/ /\ b.at \in Teachers
            /\ \A r \in Taking(b.slot, TRUE) : TeacherOf[GroupOf[r]] # b.at
            /\ \A c \in bookings : ~(c.at = b.at /\ c.slot = b.slot)
      /\ UNCHANGED <<timetableVars, past>>

MarksOne ==
    /\ \A c \in bookings' : \E a \in bookings : Like(a, c) /\ (c.status = "BOOKED" => a = c)
    /\ UNCHANGED <<timetableVars, past>>

LEMMA MoveRowCarries ==
    ASSUME MakeUpTypeOK, NEW r \in Schedules, NEW to \in Slots \cup {"AWAY"},
                         NEW isDated \in BOOLEAN, NEW force \in BOOLEAN,
           MoveRow(r, to, isDated, force)
    PROVE  /\ timetable' \in [Schedules -> Slots \cup Elsewhere]
           /\ \A q \in Schedules : timetable'[q] = IF q = r THEN to ELSE timetable[q]
           /\ GroupOf[r] \in Groups /\ Reconcile(GroupOf[r])
<1> QED BY SchedulesAssumption DEF MoveRow, Edit, MakeUpTypeOK, Elsewhere

LEMMA DeleteRowCarries ==
    ASSUME MakeUpTypeOK, NEW r \in Schedules, DeleteRow(r)
    PROVE  /\ timetable' \in [Schedules -> Slots \cup Elsewhere]
           /\ \A q \in Schedules : timetable'[q] = IF q = r THEN "GONE" ELSE timetable[q]
           /\ GroupOf[r] \in Groups /\ Reconcile(GroupOf[r])
<1> QED BY SchedulesAssumption DEF DeleteRow, Edit, MakeUpTypeOK, Elsewhere

LEMMA BookLessonAdds ==
    ASSUME MakeUpTypeOK, CreditsFollowBookings, NEW k \in CreditIds, NEW r \in Schedules,
           BookLesson(k, r)
    PROVE  AddsOne
<1>1. timetable[r] \in Slots /\ Books(k, r, timetable[r])
    BY DEF BookLesson, TakesPlace, OnDay
<1>2. PICK b \in Booking :
         /\ b.credit = k /\ b.student = credits[k].student /\ b.at = r /\ b.slot = timetable[r]
         /\ b.status = "BOOKED" /\ b \notin bookings /\ bookings' = bookings \cup {b}
    BY <1>1, BooksResult
<1>3. ~Busy(b.student, b.slot) /\ UNCHANGED <<timetableVars, past>>
    BY <1>1, <1>2 DEF Books
<1>4. HeldAt(b) /\ b.student \notin Members[GroupOf[b.at]] /\ Seats(b.at) < FreeSeats[GroupOf[b.at]]
    BY <1>2 DEF BookLesson, HeldAt
<1> QED BY <1>2, <1>3, <1>4 DEF AddsOne

LEMMA BookSessionAdds ==
    ASSUME MakeUpTypeOK, CreditsFollowBookings, NEW k \in CreditIds, NEW w \in Teachers,
           NEW slot \in Slots, BookSession(k, w, slot)
    PROVE  AddsOne
<1>1. Books(k, w, slot)
    BY DEF BookSession
<1>2. PICK b \in Booking :
         /\ b.credit = k /\ b.student = credits[k].student /\ b.at = w /\ b.slot = slot
         /\ b.status = "BOOKED" /\ b \notin bookings /\ bookings' = bookings \cup {b}
    BY <1>1, BooksResult
<1>3. ~Busy(b.student, b.slot) /\ UNCHANGED <<timetableVars, past>>
    BY <1>1, <1>2 DEF Books
<1>4. /\ \A r \in Taking(b.slot, TRUE) : TeacherOf[GroupOf[r]] # b.at
      /\ \A c \in bookings : ~(c.at = b.at /\ c.slot = b.slot)
    BY <1>2 DEF BookSession
<1> QED BY <1>2, <1>3, <1>4 DEF AddsOne

LEMMA StepKinds ==
    ASSUME MakeUpTypeOK, CreditsFollowBookings, [MakeUpNext]_makeUpVars
    PROVE  bookings' = bookings \/ Carries \/ AddsOne \/ MarksOne
<1>1. ASSUME NEW r \in Schedules, NEW to \in Slots \cup {"AWAY"},
             NEW isDated \in BOOLEAN, NEW force \in BOOLEAN,
             MoveRow(r, to, isDated, force)
      PROVE  Carries
    BY <1>1, MoveRowCarries, ReconcileResult DEF Carries, OneRowMoves
<1>2. ASSUME NEW r \in Schedules, DeleteRow(r) PROVE Carries
    BY <1>2, DeleteRowCarries, ReconcileResult DEF Carries, OneRowMoves
<1>3. ASSUME NEW g \in Groups, RemoveGroup(g) PROVE Carries
    BY <1>3, ReconcileResult DEF Carries, OneRowMoves, RemoveGroup, Edit, MakeUpTypeOK
<1>4. ASSUME NEW r \in Schedules, CallOff(r) PROVE Carries
    BY <1>4, ClosesSome DEF Carries, OneRowMoves, CallOff
<1>5. ASSUME NEW b \in bookings, CancelBooking(b) PROVE Carries
    BY <1>5, ClosesSome DEF Carries, OneRowMoves, CancelBooking, timetableVars
<1>6. ASSUME NEW b \in bookings, NEW status \in {"ATTENDED", "MISSED"}, MarkBooking(b, status)
      PROVE  MarksOne
    BY <1>6, MarkBookingResult DEF MarksOne, MarkBooking, Like
<1> QED BY <1>1, <1>2, <1>3, <1>4, <1>5, <1>6, BookLessonAdds, BookSessionAdds
        DEF MakeUpNext, AddRow, RestoreLesson, RestoreGroup, Mark, Scan, Issue, CancelCredit,
            Reinstate, DayPasses, makeUpVars

LEMMA CarriedFrom ==
    ASSUME NEW lost, NEW after, Closes(lost, after), NEW c \in bookings'
    PROVE  \E b \in bookings \ lost : c = after[b] /\ Carried(b, c)
<1> QED BY DEF Closes

LEMMA NotOwnGroupStep ==
    ASSUME MakeUpInv, [MakeUpNext]_makeUpVars
    PROVE  NotOwnGroup'
<1> USE DEF MakeUpInv
<1>1. CASE bookings' = bookings
    BY <1>1 DEF NotOwnGroup
<1>2. CASE Carries
    <2>1. PICK lost, after : Closes(lost, after)
        BY <1>2 DEF Carries
    <2>2. ASSUME NEW c \in bookings'
          PROVE  \E b \in bookings : b.at = c.at /\ b.student = c.student
        <3>1. PICK b \in bookings \ lost : Carried(b, c)
            BY <2>1, CarriedFrom
        <3> QED BY <3>1 DEF Carried
    <2> QED BY <2>2 DEF NotOwnGroup
<1>3. CASE AddsOne
    BY <1>3, SchedulesAssumption DEF AddsOne, NotOwnGroup
<1>4. CASE MarksOne
    BY <1>4 DEF MarksOne, Like, NotOwnGroup
<1> QED BY <1>1, <1>2, <1>3, <1>4, StepKinds

LEMMA BookingsAreFinite ==
    ASSUME MakeUpTypeOK, CreditsFollowBookings
    PROVE  IsFiniteSet(bookings)
<1> DEFINE f == [b \in bookings |-> b.credit]
<1>1. f \in Injection(bookings, CreditIds)
    <2>1. f \in [bookings -> CreditIds]
        BY DEF MakeUpTypeOK, Booking
    <2>2. \A a, b \in bookings : f[a] = f[b] => a = b
        BY DEF CreditsFollowBookings
    <2> QED BY <2>1, <2>2 DEF Injection, IsInjective
<1>2. IsFiniteSet(CreditIds)
    BY FS_Interval, BoundsAssumption DEF CreditIds
<1> QED BY <1>1, <1>2, FS_Injection

(* As long as every booking comes from one into the same lesson, none is     *)
(* over its seats.                                                           *)
LEMMA SeatsKept ==
    ASSUME MakeUpTypeOK, CreditsFollowBookings, CreditsFollowBookings', WithinSeats,
           \A c \in bookings' : \E b \in bookings : b.credit = c.credit /\ b.at = c.at
    PROVE  WithinSeats'
<1> SUFFICES ASSUME NEW r \in Schedules
             PROVE  Cardinality({c \in bookings' : c.at = r}) <= FreeSeats[GroupOf[r]]
    BY DEF WithinSeats
<1> DEFINE S == {c \in bookings' : c.at = r}
           T == {b \in bookings : b.at = r}
           f == [c \in S |-> CHOOSE b \in T : b.credit = c.credit]
<1>1. \A c \in S : f[c] \in T /\ f[c].credit = c.credit
    OBVIOUS
<1>2. \A c, d \in S : f[c] = f[d] => c = d
    BY <1>1 DEF CreditsFollowBookings
<1>3. f \in Injection(S, T)
    BY <1>1, <1>2 DEF Injection, IsInjective
<1>4. IsFiniteSet(bookings)
    BY BookingsAreFinite
<1>5. IsFiniteSet(T)
    BY <1>4, FS_Subset
<1> HIDE DEF S, T, f
<1>6. IsFiniteSet(S) /\ Cardinality(S) <= Cardinality(T)
    BY <1>3, <1>5, FS_Injection
<1>7. Cardinality(T) <= FreeSeats[GroupOf[r]]
    BY DEF T, WithinSeats
<1>8. Cardinality(S) \in Nat /\ Cardinality(T) \in Nat /\ FreeSeats[GroupOf[r]] \in Nat
    BY <1>5, <1>6, FS_CardinalityType, SchedulesAssumption, BoundsAssumption
<1>9. Cardinality(S) <= FreeSeats[GroupOf[r]]
    BY <1>6, <1>7, <1>8
<1> QED BY <1>9 DEF S

LEMMA WithinSeatsStep ==
    ASSUME MakeUpInv, [MakeUpNext]_makeUpVars
    PROVE  WithinSeats'
<1> USE DEF MakeUpInv
<1>0. CreditsFollowBookings' /\ WithinSeats
    BY MakeUpTypeStep DEF BookingsStand
<1>1. CASE bookings' = bookings
    BY <1>0, <1>1 DEF WithinSeats
<1>2. CASE Carries
    <2>1. PICK lost, after : Closes(lost, after)
        BY <1>2 DEF Carries
    <2>2. ASSUME NEW c \in bookings'
          PROVE  \E b \in bookings : b.credit = c.credit /\ b.at = c.at
        <3>1. PICK b \in bookings \ lost : Carried(b, c)
            BY <2>1, CarriedFrom
        <3> QED BY <3>1 DEF Carried
    <2> QED BY <1>0, <2>2, SeatsKept
<1>3. CASE AddsOne
    <2>1. PICK b \in Booking :
            /\ bookings' = bookings \cup {b} /\ b \notin bookings
            /\ b.at \in Schedules => Seats(b.at) < FreeSeats[GroupOf[b.at]]
        BY <1>3, SchedulesAssumption DEF AddsOne
    <2> SUFFICES ASSUME NEW r \in Schedules
                 PROVE  Cardinality({c \in bookings' : c.at = r}) <= FreeSeats[GroupOf[r]]
        BY DEF WithinSeats
    <2> DEFINE T == {c \in bookings : c.at = r}
    <2>2. CASE b.at # r
        <3>1. {c \in bookings' : c.at = r} = T
            BY <2>1, <2>2
        <3> QED BY <1>0, <3>1 DEF WithinSeats
    <2>3. CASE b.at = r
        <3>1. {c \in bookings' : c.at = r} = T \cup {b} /\ b \notin T
            BY <2>1, <2>3
        <3>2. IsFiniteSet(T)
            BY BookingsAreFinite, FS_Subset
        <3>3. Cardinality(T) < FreeSeats[GroupOf[r]]
            BY <2>1, <2>3 DEF Seats
        <3> HIDE DEF T
        <3>4. Cardinality(T \cup {b}) = Cardinality(T) + 1
            BY <3>1, <3>2, FS_AddElement
        <3>5. Cardinality(T) \in Nat /\ FreeSeats[GroupOf[r]] \in Nat
            BY <3>2, FS_CardinalityType, SchedulesAssumption, BoundsAssumption
        <3>6. Cardinality(T) + 1 <= FreeSeats[GroupOf[r]]
            BY <3>3, <3>5
        <3>7. Cardinality({c \in bookings' : c.at = r}) = Cardinality(T) + 1
            BY <3>1, <3>4, Zenon
        <3> QED BY <3>6, <3>7
    <2> QED BY <2>2, <2>3
<1>4. CASE MarksOne
    BY <1>0, <1>4, SeatsKept DEF MarksOne, Like
<1> QED BY <1>1, <1>2, <1>3, <1>4, StepKinds

LEMMA NobodyTwiceStep ==
    ASSUME MakeUpInv, [MakeUpNext]_makeUpVars
    PROVE  NobodyTwice'
<1> USE DEF MakeUpInv
<1>0. CreditsFollowBookings' /\ NobodyTwice /\ BookedIsHeld
    BY MakeUpTypeStep DEF BookingsStand
<1>1. CASE bookings' = bookings
    BY <1>0, <1>1 DEF NobodyTwice
<1>2. CASE Carries
    <2>1. PICK lost, after : Closes(lost, after) /\ OneRowMoves
        BY <1>2 DEF Carries
    <2> SUFFICES ASSUME NEW c \in bookings', NEW d \in bookings', c # d, c.slot = d.slot
                 PROVE  c.student # d.student /\ (c.at = d.at => c.at \in Schedules)
        BY DEF NobodyTwice
    <2>2. PICK a \in bookings \ lost : c = after[a] /\ Carried(a, c)
        BY <2>1, CarriedFrom
    <2>3. PICK b \in bookings \ lost : d = after[b] /\ Carried(b, d)
        BY <2>1, CarriedFrom
    <2>4. a # b
        BY <2>2, <2>3
    <2>5. CASE a.slot = b.slot
        BY <1>0, <2>2, <2>3, <2>4, <2>5 DEF NobodyTwice, Carried
    <2>6. CASE a.slot # b.slot /\ c.slot = a.slot
        <3>1. d.slot # b.slot /\ ~OtherMakeUp(d.student, d.slot, {b}) /\ d.at \in Schedules
            BY <2>3, <2>6 DEF Carried
        <3>2. a.student # d.student
            BY <2>4, <2>6, <3>1 DEF OtherMakeUp
        <3> QED BY <2>2, <3>1, <3>2 DEF Carried
    <2>7. CASE a.slot # b.slot /\ d.slot = b.slot
        <3>1. c.slot # a.slot /\ ~OtherMakeUp(c.student, c.slot, {a}) /\ c.at \in Schedules
            BY <2>2, <2>7 DEF Carried
        <3>2. b.student # c.student
            BY <2>4, <2>7, <3>1 DEF OtherMakeUp
        <3> QED BY <2>3, <3>1, <3>2 DEF Carried
    <2>8. CASE a.slot # b.slot /\ c.slot # a.slot /\ d.slot # b.slot
        <3>1. /\ a.at \in Schedules /\ a.slot = timetable[a.at] /\ timetable'[a.at] # timetable[a.at]
            BY <1>0, <2>2, <2>8 DEF Carried, BookedIsHeld, Booked
        <3>2. /\ b.at \in Schedules /\ b.slot = timetable[b.at] /\ timetable'[b.at] # timetable[b.at]
            BY <1>0, <2>3, <2>8 DEF Carried, BookedIsHeld, Booked
        <3>3. a.at = b.at
            BY <2>1, <3>1, <3>2 DEF OneRowMoves
        <3> QED BY <2>8, <3>1, <3>2, <3>3
    <2> QED BY <2>5, <2>6, <2>7, <2>8
<1>3. CASE AddsOne
    <2>1. PICK b \in Booking :
            /\ bookings' = bookings \cup {b} /\ ~Busy(b.student, b.slot)
            /\ \/ b.at \in Schedules
               \/ \A c \in bookings : ~(c.at = b.at /\ c.slot = b.slot)
        BY <1>3 DEF AddsOne
    <2>2. \A c \in bookings : ~(c.student = b.student /\ c.slot = b.slot)
        BY <2>1 DEF Busy, OtherMakeUp
    <2> QED BY <1>0, <2>1, <2>2 DEF NobodyTwice
<1>4. CASE MarksOne
    <2> SUFFICES ASSUME NEW c \in bookings', NEW d \in bookings', c # d, c.slot = d.slot
                 PROVE  c.student # d.student /\ (c.at = d.at => c.at \in Schedules)
        BY DEF NobodyTwice
    <2>1. PICK a \in bookings : Like(a, c)
        BY <1>4 DEF MarksOne
    <2>2. PICK b \in bookings : Like(b, d)
        BY <1>4 DEF MarksOne
    <2>3. c.credit # d.credit
        BY <1>0 DEF CreditsFollowBookings
    <2>4. a # b
        BY <2>1, <2>2, <2>3 DEF Like
    <2> QED BY <1>0, <2>1, <2>2, <2>4 DEF NobodyTwice, Like
<1> QED BY <1>1, <1>2, <1>3, <1>4, StepKinds

(* A booking whose row is as it was is still held, if its lesson is.         *)
LEMMA HeldCarried ==
    ASSUME BookedIsHeld, ~past, NEW lost, NEW after, Closes(lost, after),
           NEW c \in bookings', c.status = "BOOKED", c.at \in Schedules,
           timetable'[c.at] = timetable[c.at], TakesPlace(c.at) => TakesPlace(c.at)'
    PROVE  HeldAt(c)'
<1>1. PICK b \in bookings \ lost : Carried(b, c)
    BY CarriedFrom
<1>2. TakesPlace(c.at) /\ timetable[c.at] = b.slot
    BY <1>1 DEF BookedIsHeld, Booked, Carried
<1>3. timetable'[c.at] = c.slot
    BY <1>1, <1>2 DEF Carried
<1> QED BY <1>2, <1>3 DEF HeldAt

LEMMA HeldStep ==
    ASSUME MakeUpInv, [MakeUpNext]_makeUpVars
    PROVE  BookedIsHeld'
<1> USE DEF MakeUpInv
<1>0. BookedIsHeld
    BY DEF BookingsStand
<1>r. past' \in BOOLEAN /\ (past => past')
    BY DEF MakeUpNext, AddRow, MoveRow, DeleteRow, CallOff, RestoreLesson, RemoveGroup, RestoreGroup,
           Mark, Scan, Issue, CancelCredit, Reinstate, BookLesson, BookSession, Books, CancelBooking,
           MarkBooking, DayPasses, makeUpVars, MakeUpTypeOK
<1> SUFFICES ASSUME ~past', NEW c \in bookings', c.status = "BOOKED", c.at \in Schedules
             PROVE  HeldAt(c)'
    BY DEF BookedIsHeld, Booked, HeldAt
<1>p. ~past
    BY <1>r
<1>s. c \in bookings => HeldAt(c)
    BY <1>0, <1>p DEF BookedIsHeld, Booked, HeldAt
<1>q. c \in bookings /\ UNCHANGED timetableVars => HeldAt(c)'
    BY <1>s DEF HeldAt, TakesPlace, OnDay, timetableVars
<1>1. ASSUME NEW r \in Schedules, NEW slot \in Slots, NEW force \in BOOLEAN, AddRow(r, slot, force)
      PROVE  HeldAt(c)'
    <2>1. c \in bookings /\ timetable[r] = "UNMADE" /\ open' = open /\ dated' = dated /\ calledOff' = calledOff
          /\ timetable' = [timetable EXCEPT ![r] = slot]
        BY <1>1 DEF AddRow, Edit
    <2>2. c.at # r
        BY <1>s, <2>1, SchedulesAssumption DEF HeldAt, TakesPlace, OnDay, Elsewhere
    <2>3. timetable'[c.at] = timetable[c.at]
        BY <2>1, <2>2 DEF MakeUpTypeOK
    <2> QED BY <1>s, <2>1, <2>3 DEF HeldAt, TakesPlace, OnDay
<1>2. ASSUME NEW r \in Schedules, NEW to \in Slots \cup {"AWAY"},
             NEW isDated \in BOOLEAN, NEW force \in BOOLEAN,
             MoveRow(r, to, isDated, force)
      PROVE  HeldAt(c)'
    <2>1. PICK lost, after :
            /\ Closes(lost, after)
            /\ \A d \in bookings' :
                 d.status = "BOOKED" /\ d.at \in Schedules /\ GroupOf[d.at] = GroupOf[r] => HeldAt(d)'
        BY <1>2, <1>p, MoveRowCarries, ReconcileResult
    <2>2. CASE GroupOf[c.at] = GroupOf[r]
        BY <2>1, <2>2
    <2>3. CASE GroupOf[c.at] # GroupOf[r]
        <3>1. timetable'[c.at] = timetable[c.at] /\ open' = open /\ calledOff' = calledOff
              /\ (c.at \in dated' <=> c.at \in dated)
            BY <1>2, <2>3, MoveRowCarries DEF MoveRow
        <3>2. TakesPlace(c.at) => TakesPlace(c.at)'
            BY <3>1 DEF TakesPlace, OnDay
        <3> QED BY <1>0, <1>p, <2>1, <3>1, <3>2, HeldCarried
    <2> QED BY <2>2, <2>3
<1>3. ASSUME NEW r \in Schedules, DeleteRow(r) PROVE HeldAt(c)'
    <2>1. PICK lost, after :
            /\ Closes(lost, after)
            /\ \A d \in bookings' :
                 d.status = "BOOKED" /\ d.at \in Schedules /\ GroupOf[d.at] = GroupOf[r] => HeldAt(d)'
        BY <1>3, <1>p, DeleteRowCarries, ReconcileResult
    <2>2. CASE GroupOf[c.at] = GroupOf[r]
        BY <2>1, <2>2
    <2>3. CASE GroupOf[c.at] # GroupOf[r]
        <3>1. timetable'[c.at] = timetable[c.at] /\ open' = open /\ dated' = dated /\ calledOff' = calledOff \ {r}
            BY <1>3, <2>3, DeleteRowCarries DEF DeleteRow
        <3>2. TakesPlace(c.at) => TakesPlace(c.at)'
            BY <3>1 DEF TakesPlace, OnDay
        <3> QED BY <1>0, <1>p, <2>1, <3>1, <3>2, HeldCarried
    <2> QED BY <2>2, <2>3
<1>4. ASSUME NEW r \in Schedules, CallOff(r) PROVE HeldAt(c)'
    <2>1. c \in bookings /\ c.at # r
        BY <1>4 DEF CallOff, Booked
    <2> QED BY <1>4, <1>s, <2>1 DEF HeldAt, TakesPlace, OnDay, CallOff
<1>5. ASSUME NEW r \in Schedules, RestoreLesson(r) PROVE HeldAt(c)'
    BY <1>5, <1>s DEF HeldAt, TakesPlace, OnDay, RestoreLesson
<1>6. ASSUME NEW g \in Groups, RemoveGroup(g) PROVE HeldAt(c)'
    <2>0. timetable' \in [Schedules -> Slots \cup Elsewhere] /\ timetable' = timetable
          /\ open' = open \ {g} /\ dated' = dated /\ calledOff' = calledOff /\ Reconcile(g)
        BY <1>6 DEF RemoveGroup, Edit, MakeUpTypeOK
    <2>1. PICK lost, after :
            /\ Closes(lost, after)
            /\ \A d \in bookings' :
                 d.status = "BOOKED" /\ d.at \in Schedules /\ GroupOf[d.at] = g => HeldAt(d)'
        BY <1>p, <2>0, ReconcileResult
    <2>2. CASE GroupOf[c.at] = g
        BY <2>1, <2>2
    <2>3. CASE GroupOf[c.at] # g
        <3>1. TakesPlace(c.at) => TakesPlace(c.at)'
            BY <2>0, <2>3 DEF TakesPlace, OnDay
        <3> QED BY <1>0, <1>p, <2>0, <2>1, <3>1, HeldCarried
    <2> QED BY <2>2, <2>3
<1>7. ASSUME NEW g \in Groups, RestoreGroup(g) PROVE HeldAt(c)'
    BY <1>7, <1>s DEF HeldAt, TakesPlace, OnDay, RestoreGroup, Edit
<1>8. CASE AddsOne
    <2>1. PICK b : bookings' = bookings \cup {b} /\ (b.at \in Schedules => HeldAt(b))
                   /\ UNCHANGED timetableVars
        BY <1>8, SchedulesAssumption DEF AddsOne
    <2> QED BY <1>q, <2>1 DEF HeldAt, TakesPlace, OnDay, timetableVars
<1>9. CASE MarksOne
    BY <1>9, <1>q DEF MarksOne
<1>10. ASSUME NEW b \in bookings, CancelBooking(b) PROVE HeldAt(c)'
    BY <1>10, <1>q DEF CancelBooking
<1>11. ASSUME NEW b \in bookings, NEW status \in {"ATTENDED", "MISSED"}, MarkBooking(b, status)
       PROVE  MarksOne
    BY <1>11, MarkBookingResult DEF MarksOne, MarkBooking, Like
<1> QED BY <1>1, <1>2, <1>3, <1>4, <1>5, <1>6, <1>7, <1>8, <1>9, <1>10, <1>11, <1>q,
           BookLessonAdds, BookSessionAdds
        DEF MakeUpNext, Mark, Scan, Issue, CancelCredit, Reinstate, DayPasses, makeUpVars, timetableVars

(* No lesson at a make-up's time is its student's or its teacher's. *)
Apart(b, r) == b.student \notin Members[GroupOf[r]] /\ TeacherOf[GroupOf[r]] # b.at
At(r, slot) == TakesPlace(r) /\ timetable[r] = slot
Beside(b) == \A r \in Schedules : At(r, b.slot) => Apart(b, r)

LEMMA BesideMeans == BesideNoLesson <=> (~past /\ ~forced => \A b \in Booked : Beside(b))
<1> QED BY DEF BesideNoLesson, Beside, At, Apart, OwnLesson

(* A lesson that fits is apart from the make-ups of its time. *)
LEMMA ApartIfClear ==
    ASSUME NotOwnGroup, NEW r \in Schedules, NEW b \in Booked,
           MakeUpsInTheWay(GroupOf[r], b.slot) = {}
    PROVE  Apart(b, r)
<1>1. b \in bookings
    BY DEF Booked
<1>2. b.at # TeacherOf[GroupOf[r]]
    BY DEF MakeUpsInTheWay
<1>3. b.student \in Members[GroupOf[r]] => b.at \in Schedules /\ GroupOf[b.at] = GroupOf[r]
    BY DEF MakeUpsInTheWay
<1> QED BY <1>1, <1>2, <1>3 DEF NotOwnGroup, Apart

(* A make-up carried over is beside the lessons, if those that are new at    *)
(* its time are apart from it.                                               *)
LEMMA BesideCarried ==
    ASSUME MakeUpTypeOK, NEW lost, NEW after, Closes(lost, after), NEW c \in bookings',
           c.status = "BOOKED", \A b \in Booked : Beside(b),
           \A b \in Booked : \A r \in Schedules : At(r, b.slot)' => At(r, b.slot) \/ Apart(b, r)
    PROVE  Beside(c)'
<1>1. PICK b \in bookings \ lost : Carried(b, c)
    BY CarriedFrom
<1>2. b \in Booked
    BY <1>1 DEF Carried, Booked
<1>3. CASE c.slot = b.slot
    BY <1>1, <1>2, <1>3 DEF Beside, Apart, Carried
<1>4. CASE c.slot # b.slot
    <2>1. c.at \in Schedules /\ FreeAfter(c.student, c.slot)
        BY <1>1, <1>4 DEF Carried
    <2>2. \A r \in Schedules : TeacherOf[GroupOf[r]] # c.at
        BY <2>1, SchedulesAssumption
    <2> QED BY <2>1, <2>2 DEF Beside, At, Apart, FreeAfter
<1> QED BY <1>3, <1>4

LEMMA BesideStep ==
    ASSUME MakeUpInv, [MakeUpNext]_makeUpVars
    PROVE  BesideNoLesson'
<1> USE DEF MakeUpInv
<1>r. (past => past') /\ (forced => forced')
    BY DEF MakeUpNext, AddRow, MoveRow, Clears, DeleteRow, CallOff, RestoreLesson, RemoveGroup,
           RestoreGroup, Mark, Scan, Issue, CancelCredit, Reinstate, BookLesson, BookSession, Books,
           CancelBooking, MarkBooking, DayPasses, timetableVars, makeUpVars, MakeUpTypeOK
<1> SUFFICES ASSUME ~past', ~forced' PROVE \A c \in Booked' : Beside(c)'
    <2>1. (~past' /\ ~forced' => \A c \in Booked' : Beside(c)') => BesideNoLesson'
        BY DEF BesideNoLesson, Beside, At, Apart, OwnLesson
    <2> QED BY <2>1
<1> SUFFICES ASSUME NEW c \in bookings', c.status = "BOOKED" PROVE Beside(c)'
    BY DEF Booked
<1>p. ~past /\ ~forced /\ \A b \in Booked : Beside(b)
    BY <1>r, BesideMeans DEF BookingsStand
<1>q. c \in bookings /\ UNCHANGED timetableVars => Beside(c)'
    BY <1>p DEF Booked, Beside, At, Apart, TakesPlace, OnDay, timetableVars
<1>n. c \in bookings /\ (\A r \in Schedules : At(r, c.slot)' => At(r, c.slot) \/ Apart(c, r)) =>
        Beside(c)'
    BY <1>p DEF Booked, Beside, Apart
<1>1. ASSUME NEW r \in Schedules, NEW slot \in Slots, NEW force \in BOOLEAN, AddRow(r, slot, force)
      PROVE  Beside(c)'
    <2>1. c \in Booked /\ open' = open /\ dated' = dated /\ calledOff' = calledOff
          /\ \A q \in Schedules : timetable'[q] = IF q = r THEN slot ELSE timetable[q]
        BY <1>1 DEF AddRow, Edit, MakeUpTypeOK, Booked
    <2>2. MakeUpsInTheWay(GroupOf[r], slot) = {}
        BY <1>1, <1>p DEF AddRow, Clears, Fits
    <2>3. c.slot = slot => Apart(c, r)
        BY <2>1, <2>2, ApartIfClear
    <2>4. \A q \in Schedules : At(q, c.slot)' => At(q, c.slot) \/ Apart(c, q)
        BY <2>1, <2>3 DEF At, TakesPlace, OnDay
    <2> QED BY <1>n, <2>1, <2>4 DEF Booked
<1>2. ASSUME NEW r \in Schedules, NEW to \in Slots \cup {"AWAY"},
             NEW isDated \in BOOLEAN, NEW force \in BOOLEAN,
             MoveRow(r, to, isDated, force)
      PROVE  Beside(c)'
    <2>1. PICK lost, after : Closes(lost, after)
        BY <1>2, MoveRowCarries, ReconcileResult
    <2>0. /\ open' = open /\ calledOff' = calledOff
          /\ dated' = IF isDated THEN dated \cup {r} ELSE dated \ {r}
        BY <1>2 DEF MoveRow
    <2>2. /\ \A q \in Schedules : timetable'[q] = IF q = r THEN to ELSE timetable[q]
          /\ \A q \in Schedules : q # r => (q \in dated' <=> q \in dated)
        BY <1>2, <2>0, MoveRowCarries
    <2>3. to \in Slots => MakeUpsInTheWay(GroupOf[r], to) = {}
        BY <1>2, <1>p DEF MoveRow, Clears, Fits
    <2>4. \A b \in Booked : b.slot \in Slots /\ (b.slot = to => Apart(b, r))
        BY <2>3, ApartIfClear DEF Booked, Booking, MakeUpTypeOK
    <2>5. \A b \in Booked : \A q \in Schedules : At(q, b.slot)' => At(q, b.slot) \/ Apart(b, q)
        BY <2>0, <2>2, <2>4 DEF At, TakesPlace, OnDay
    <2> QED BY <1>p, <2>1, <2>5, BesideCarried
<1>3. ASSUME NEW r \in Schedules, DeleteRow(r) PROVE Beside(c)'
    <2>1. PICK lost, after : Closes(lost, after)
        BY <1>3, DeleteRowCarries, ReconcileResult
    <2>2. open' = open /\ dated' = dated /\ calledOff' = calledOff \ {r}
          /\ \A q \in Schedules : timetable'[q] = IF q = r THEN "GONE" ELSE timetable[q]
        BY <1>3, DeleteRowCarries DEF DeleteRow
    <2>3. "GONE" \notin Slots
        BY SchedulesAssumption DEF Elsewhere
    <2>4. \A b \in Booked : \A q \in Schedules : At(q, b.slot)' => At(q, b.slot) \/ Apart(b, q)
        BY <2>2, <2>3 DEF At, TakesPlace, OnDay
    <2> QED BY <1>p, <2>1, <2>4, BesideCarried
<1>4. ASSUME NEW r \in Schedules, CallOff(r) PROVE Beside(c)'
    <2>1. \A q \in Schedules : At(q, c.slot)' => At(q, c.slot)
        BY <1>4 DEF CallOff, At, TakesPlace, OnDay
    <2> QED BY <1>4, <1>n, <2>1 DEF CallOff
<1>5. ASSUME NEW r \in Schedules, RestoreLesson(r) PROVE Beside(c)'
    <2>1. c \in Booked /\ OnDay(r) /\ r \notin dated => MakeUpsInTheWay(GroupOf[r], timetable[r]) = {}
        BY <1>5 DEF RestoreLesson
    <2>2. c \in Booked
        BY <1>5 DEF RestoreLesson, Booked
    <2>3. OnDay(r) /\ r \notin dated /\ timetable[r] = c.slot => Apart(c, r)
        BY <2>1, <2>2, ApartIfClear
    <2>4. \A q \in Schedules : At(q, c.slot)' => At(q, c.slot) \/ Apart(c, q)
        BY <1>5, <2>3 DEF RestoreLesson, At, TakesPlace, OnDay
    <2> QED BY <1>n, <2>2, <2>4 DEF Booked
<1>6. ASSUME NEW g \in Groups, RemoveGroup(g) PROVE Beside(c)'
    <2>0. timetable' \in [Schedules -> Slots \cup Elsewhere] /\ timetable' = timetable
          /\ open' = open \ {g} /\ dated' = dated /\ calledOff' = calledOff /\ Reconcile(g)
        BY <1>6 DEF RemoveGroup, Edit, MakeUpTypeOK
    <2>1. PICK lost, after : Closes(lost, after)
        BY <2>0, ReconcileResult
    <2>2. \A b \in Booked : \A q \in Schedules : At(q, b.slot)' => At(q, b.slot) \/ Apart(b, q)
        BY <2>0 DEF At, TakesPlace, OnDay
    <2> QED BY <1>p, <2>1, <2>2, BesideCarried
<1>7. ASSUME NEW g \in Groups, RestoreGroup(g) PROVE Beside(c)'
    <2>1. /\ bookings' = bookings /\ timetable' = timetable /\ open' = open \cup {g}
          /\ dated' = dated /\ calledOff' = calledOff /\ c \in Booked
        BY <1>7 DEF RestoreGroup, Edit, Booked
    <2>2. ASSUME NEW r \in Schedules, GroupOf[r] = g, timetable[r] = c.slot PROVE Apart(c, r)
        <3>1. c.slot \in Slots
            BY <2>1 DEF Booked, Booking, MakeUpTypeOK
        <3>2. MakeUpsInTheWay(GroupOf[r], timetable[r])' = {}
            BY <1>7, <2>1, <2>2, <3>1 DEF RestoreGroup, Fits
        <3>3. MakeUpsInTheWay(GroupOf[r], c.slot) = {}
            BY <2>1, <2>2, <3>2 DEF MakeUpsInTheWay, Booked
        <3> QED BY <2>1, <3>3, ApartIfClear
    <2>3. \A q \in Schedules : At(q, c.slot)' => At(q, c.slot) \/ Apart(c, q)
        BY <2>1, <2>2 DEF At, TakesPlace, OnDay
    <2> QED BY <1>n, <2>1, <2>3 DEF Booked
<1>8. CASE AddsOne
    <2>1. PICK b \in Booking :
            /\ bookings' = bookings \cup {b} /\ ~Busy(b.student, b.slot) /\ UNCHANGED timetableVars
            /\ \/ b.at \in Schedules
               \/ \A r \in Taking(b.slot, TRUE) : TeacherOf[GroupOf[r]] # b.at
        BY <1>8 DEF AddsOne
    <2>2. CASE c \in bookings
        BY <1>q, <2>1, <2>2
    <2>3. CASE c = b
        <3>1. ASSUME NEW r \in Schedules, At(r, b.slot) PROVE Apart(b, r)
            <4>1. b.student \notin Members[GroupOf[r]]
                BY <2>1, <3>1 DEF Busy, OwnLesson, At
            <4>2. r \in Taking(b.slot, TRUE)
                BY <3>1 DEF At, TakesPlace, Taking
            <4>3. b.at \in Schedules => TeacherOf[GroupOf[r]] # b.at
                BY SchedulesAssumption
            <4> QED BY <2>1, <4>1, <4>2, <4>3 DEF Apart
        <3> QED BY <2>1, <2>3, <3>1 DEF Beside, At, Apart, TakesPlace, OnDay, timetableVars
    <2> QED BY <2>1, <2>2, <2>3
<1>9. CASE MarksOne
    BY <1>9, <1>q DEF MarksOne
<1>10. ASSUME NEW b \in bookings, CancelBooking(b) PROVE Beside(c)'
    BY <1>10, <1>q DEF CancelBooking
<1>11. ASSUME NEW b \in bookings, NEW status \in {"ATTENDED", "MISSED"}, MarkBooking(b, status)
       PROVE  MarksOne
    BY <1>11, MarkBookingResult DEF MarksOne, MarkBooking, Like
<1> QED BY <1>1, <1>2, <1>3, <1>4, <1>5, <1>6, <1>7, <1>8, <1>9, <1>10, <1>11, <1>q,
           BookLessonAdds, BookSessionAdds
        DEF MakeUpNext, Mark, Scan, Issue, CancelCredit, Reinstate, DayPasses, makeUpVars, timetableVars

-----------------------------------------------------------------------------
(* A day begins well if its credits have a ground and nothing is booked yet. *)
LEMMA BegunWell ==
    ASSUME MakeUpTypeOK, CreditsFollowBookings, GroundInv, bookings = {} PROVE MakeUpInv
<1>1. NotOwnGroup
    BY DEF NotOwnGroup
<1>2. BookedIsHeld /\ NobodyTwice /\ BesideNoLesson
    BY DEF BookedIsHeld, NobodyTwice, BesideNoLesson, Booked
<1>3. WithinSeats
    <2>1. ASSUME NEW r \in Schedules
          PROVE  Cardinality({b \in bookings : b.at = r}) <= FreeSeats[GroupOf[r]]
        <3>1. {b \in bookings : b.at = r} = {}
            OBVIOUS
        <3>2. Cardinality({b \in bookings : b.at = r}) = 0
            BY <3>1, FS_EmptySet
        <3>3. FreeSeats[GroupOf[r]] \in Nat
            BY SchedulesAssumption, BoundsAssumption
        <3> QED BY <3>2, <3>3
    <2> QED BY <2>1 DEF WithinSeats
<1> QED BY <1>1, <1>2, <1>3 DEF MakeUpInv, BookingsStand

LEMMA MakeUpBegins == MakeUpInit => MakeUpInv
<1> SUFFICES ASSUME MakeUpInit PROVE MakeUpInv
    OBVIOUS
<1>1. GroundInv /\ bookings = {}
    BY DEF MakeUpInit, GroundInv
<1> QED BY <1>1, InitTypes, BegunWell

LEMMA MakeUpStepKeeps == MakeUpInv /\ [MakeUpNext]_makeUpVars => MakeUpInv'
<1> SUFFICES ASSUME MakeUpInv, [MakeUpNext]_makeUpVars PROVE MakeUpInv'
    OBVIOUS
<1>1. MakeUpTypeOK' /\ CreditsFollowBookings'
    BY MakeUpTypeStep DEF MakeUpInv
<1>2. BookingsStand'
    BY HeldStep, NobodyTwiceStep, WithinSeatsStep, BesideStep DEF BookingsStand
<1> QED BY <1>1, <1>2, GroundStep, NotOwnGroupStep DEF MakeUpInv

LEMMA MakeUpInvariant == MakeUpSpec => []MakeUpInv
<1> QED BY MakeUpBegins, MakeUpStepKeeps, PTL DEF MakeUpSpec

LEMMA GroundIsThere == MakeUpInv => CreditHasGround
<1> SUFFICES ASSUME MakeUpInv PROVE CreditHasGround
    OBVIOUS
<1>1. \A o : OffForGood(o) => o \in Schedules /\ (o \in dated \/ ~TakesPlace(o))
    BY SchedulesAssumption DEF OffForGood, TakesPlace, OnDay, Elsewhere
<1> QED BY <1>1 DEF MakeUpInv, GroundInv, GroundOf, CreditHasGround

(* The timetable, marks, credits and bookings keep their types, and edits    *)
(* their bound (the rows of schedules, attendance, makeup_credits and        *)
(* makeup_bookings).                                                         *)
THEOREM MakeUpTypeCorrect == MakeUpSpec => []MakeUpTypeOK
<1>1. MakeUpInv => MakeUpTypeOK
    BY DEF MakeUpInv
<1> QED BY <1>1, MakeUpInvariant, PTL

(* A credit is BOOKED or USED exactly while one booking of it is: makeups'   *)
(* book, cancel and mark, and every writer that closes bookings for it       *)
(* (reconcileGroupMakeups, cancelForLesson), change the two together.        *)
THEOREM CreditsFollowTheirBookings == MakeUpSpec => []CreditsFollowBookings
<1>1. MakeUpInv => CreditsFollowBookings
    BY DEF MakeUpInv
<1> QED BY <1>1, MakeUpInvariant, PTL

(* Corrections of marks, restored lessons and deleted rows never leave a     *)
(* credit that can be spent without what it was given for.  Excused are a    *)
(* credit that staff reinstated, the day's credit when its mark became a     *)
(* lesson's that had one already (pardoned), and the credit of a lesson      *)
(* called off whose row was then given a date: a dated lesson is held.       *)
THEOREM CreditsHaveGround == MakeUpSpec => []CreditHasGround
<1> QED BY GroundIsThere, MakeUpInvariant, PTL

(* A booked make-up can take place, through every change of the timetable:   *)
(* its lesson is held, nobody is in two places, and no lesson is over its    *)
(* seats.                                                                    *)
THEOREM BookingsCanTakePlace == MakeUpSpec => []BookingsStand
<1>1. MakeUpInv => BookingsStand
    BY DEF MakeUpInv
<1> QED BY <1>1, MakeUpInvariant, PTL

-----------------------------------------------------------------------------
(* Make-ups implement Vouchers. *)

(* No two credits are of one student's one lesson. *)
OneCredit ==
    \A j, k \in CreditIds : credits[j] # NoCredit /\ credits[k] # NoCredit /\ j # k =>
        credits[j].student # credits[k].student \/ credits[j].origin # credits[k].origin

(* A voucher says of a credit whether there is one, whose it is, of what and *)
(* how it stands; where its make-up is, its booking says.                    *)
LEMMA VoucherSays ==
    MakeUpTypeOK => \A k \in CreditIds :
        /\ credits[k] = NoCredit => Vouched[k] = Owed!None
        /\ credits[k] # NoCredit =>
             /\ Vouched[k] = Owed!Voucher(credits[k].student, credits[k].origin,
                                          credits[k].status, PlacesOf(k))
             /\ Vouched[k] # Owed!None
             /\ Vouched[k].student = credits[k].student /\ Vouched[k].lesson = credits[k].origin
        /\ Vouched[k].state = credits[k].status
<1> SUFFICES ASSUME MakeUpTypeOK, NEW k \in CreditIds
             PROVE  /\ credits[k] = NoCredit => Vouched[k] = Owed!None
                    /\ credits[k] # NoCredit =>
                         /\ Vouched[k] = Owed!Voucher(credits[k].student, credits[k].origin,
                                                      credits[k].status, PlacesOf(k))
                         /\ Vouched[k] # Owed!None
                         /\ Vouched[k].student = credits[k].student
                         /\ Vouched[k].lesson = credits[k].origin
                    /\ Vouched[k].state = credits[k].status
    OBVIOUS
<1>1. Vouched[k] = VoucherOf(k)
    BY DEF Vouched
<1>2. CASE credits[k] = NoCredit
    BY <1>1, <1>2, NoCreditFacts DEF VoucherOf, Owed!None
<1>3. CASE credits[k] # NoCredit
    <2>1. Vouched[k] = Owed!Voucher(credits[k].student, credits[k].origin, credits[k].status,
                                    PlacesOf(k))
        BY <1>1, <1>3 DEF VoucherOf, Owed!Voucher
    <2>2. credits[k].status # "NONE"
        BY <1>3, NoCreditFacts
    <2>3. /\ Vouched[k].state = credits[k].status /\ Vouched[k].student = credits[k].student
          /\ Vouched[k].lesson = credits[k].origin
        BY <2>1 DEF Owed!Voucher
    <2>4. Owed!None.state = "NONE"
        BY DEF Owed!None
    <2> QED BY <1>3, <2>1, <2>2, <2>3, <2>4
<1> QED BY <1>2, <1>3

(* A credit has its make-up's place while it is BOOKED or USED, and none     *)
(* otherwise.                                                                *)
LEMMA PlacesAre ==
    MakeUpTypeOK /\ CreditsFollowBookings =>
        /\ \A b \in bookings : PlacesOf(b.credit) = {b.at}
        /\ \A k \in CreditIds : credits[k].status \notin {"BOOKED", "USED"} => PlacesOf(k) = {}
<1> SUFFICES ASSUME MakeUpTypeOK, CreditsFollowBookings
             PROVE  /\ \A b \in bookings : PlacesOf(b.credit) = {b.at}
                    /\ \A k \in CreditIds :
                         credits[k].status \notin {"BOOKED", "USED"} => PlacesOf(k) = {}
    OBVIOUS
<1>1. ASSUME NEW b \in bookings PROVE PlacesOf(b.credit) = {b.at}
    <2>1. {c \in bookings : c.credit = b.credit} = {b}
        BY DEF CreditsFollowBookings
    <2> QED BY <2>1 DEF PlacesOf
<1>2. ASSUME NEW k \in CreditIds, credits[k].status \notin {"BOOKED", "USED"}
      PROVE  PlacesOf(k) = {}
    <2>1. \A b \in bookings : b.credit # k
        BY <1>2 DEF CreditsFollowBookings
    <2> QED BY <2>1 DEF PlacesOf
<1> QED BY <1>1, <1>2

(* Both, after a step. *)
LEMMA SaysAfter ==
    ASSUME MakeUpTypeOK', CreditsFollowBookings'
    PROVE  /\ \A k \in CreditIds :
                /\ credits'[k] = NoCredit => Vouched'[k] = Owed!None
                /\ credits'[k] # NoCredit =>
                     Vouched'[k] = Owed!Voucher(credits'[k].student, credits'[k].origin,
                                                credits'[k].status, PlacesOf(k)')
           /\ \A b \in bookings' : PlacesOf(b.credit)' = {b.at}
           /\ \A k \in CreditIds : credits'[k].status \notin {"BOOKED", "USED"} => PlacesOf(k)' = {}
<1>1. (MakeUpTypeOK => \A k \in CreditIds :
        /\ credits[k] = NoCredit => Vouched[k] = Owed!None
        /\ credits[k] # NoCredit =>
             /\ Vouched[k] = Owed!Voucher(credits[k].student, credits[k].origin,
                                          credits[k].status, PlacesOf(k))
             /\ Vouched[k] # Owed!None
             /\ Vouched[k].student = credits[k].student /\ Vouched[k].lesson = credits[k].origin
        /\ Vouched[k].state = credits[k].status)'
    BY VoucherSays, PTL
<1>2. (MakeUpTypeOK /\ CreditsFollowBookings =>
        /\ \A b \in bookings : PlacesOf(b.credit) = {b.at}
        /\ \A k \in CreditIds : credits[k].status \notin {"BOOKED", "USED"} => PlacesOf(k) = {})'
    BY PlacesAre, PTL
<1> QED BY <1>1, <1>2

(* A credit that keeps its student, lesson, status and place is the voucher  *)
(* it was.                                                                   *)
LEMMA SameVoucher ==
    ASSUME NEW k \in CreditIds, credits'[k] = NoCredit <=> credits[k] = NoCredit,
           credits[k] # NoCredit =>
             /\ credits'[k].student = credits[k].student /\ credits'[k].origin = credits[k].origin
             /\ credits'[k].status = credits[k].status /\ PlacesOf(k)' = PlacesOf(k)
    PROVE  Vouched'[k] = Vouched[k]
<1> QED BY DEF Vouched, VoucherOf

(* Calling make-ups off gives their vouchers back and leaves the others.     *)
LEMMA ClosingReleases ==
    ASSUME MakeUpTypeOK, CreditsFollowBookings, MakeUpTypeOK', CreditsFollowBookings',
           NEW lost, NEW after, Closes(lost, after)
    PROVE  Owed!Next
<1> DEFINE K == {b.credit : b \in lost}
<1>1. lost \subseteq bookings /\ credits' = Released(lost) /\ \A b \in lost : b.status = "BOOKED"
    BY DEF Closes, Booked
<1>2. \A b \in bookings : b \in Booking /\ b.credit \in CreditIds
    BY DEF MakeUpTypeOK, Booking
<1>3. K \in SUBSET CreditIds
    BY <1>1, <1>2
<1>4. ASSUME NEW k \in K
      PROVE  /\ credits[k] # NoCredit /\ credits[k].status = "BOOKED" /\ credits'[k] # NoCredit
             /\ credits'[k].student = credits[k].student /\ credits'[k].origin = credits[k].origin
             /\ credits'[k].status = "ISSUED"
    <2>1. PICK b \in lost : b.credit = k
        OBVIOUS
    <2>2. credits[k].status = "BOOKED" /\ k \in CreditIds
        BY <1>1, <1>2, <2>1 DEF CreditsFollowBookings
    <2>3. credits[k] # NoCredit
        BY <2>2, NoCreditFacts
    <2> QED BY <1>1, <2>1, <2>2, <2>3, ReleasedFacts
<1>5. ASSUME NEW k \in CreditIds, k \notin K PROVE Vouched'[k] = Vouched[k]
    <2>1. ~\E b \in lost : b.credit = k
        BY <1>5
    <2>2. /\ credits'[k] = NoCredit <=> credits[k] = NoCredit
          /\ credits[k] # NoCredit =>
               credits'[k].student = credits[k].student /\ credits'[k].origin = credits[k].origin
          /\ credits'[k].status = credits[k].status
        BY <1>1, <2>1, ReleasedFacts
    <2>3. PlacesOf(k)' = PlacesOf(k)
        <3>1. CASE credits[k].status \in {"BOOKED", "USED"}
            <4>1. PICK b \in bookings : b.credit = k
                BY <3>1 DEF CreditsFollowBookings
            <4>2. Carried(b, after[b]) /\ after[b] \in bookings'
                BY <2>1, <4>1 DEF Closes
            <4>3. PICK c \in bookings' : c.credit = k /\ c.at = b.at
                BY <4>1, <4>2 DEF Carried
            <4> QED BY <4>1, <4>3, PlacesAre, SaysAfter
        <3>2. CASE credits[k].status \notin {"BOOKED", "USED"}
            BY <2>2, <3>2, PlacesAre, SaysAfter
        <3> QED BY <3>1, <3>2
    <2> QED BY <2>2, <2>3, SameVoucher
<1>6. ASSUME NEW k \in K
      PROVE  Owed!Is(k, "BOOKED") /\ Vouched'[k] = Owed!To(k, "ISSUED", {})
    <2>1. k \in CreditIds
        BY <1>3
    <2>2. /\ Vouched[k].state = "BOOKED" /\ Vouched[k].student = credits[k].student
          /\ Vouched[k].lesson = credits[k].origin
        BY <1>4, <2>1, VoucherSays
    <2>3. Vouched'[k] = Owed!Voucher(credits[k].student, credits[k].origin, "ISSUED", {})
        BY <1>4, <2>1, SaysAfter
    <2> QED BY <2>2, <2>3 DEF Owed!Is, Owed!To
<1>7. Vouched' = [k \in CreditIds |-> Vouched'[k]]
    BY DEF Vouched
<1> HIDE DEF K
<1>8. Vouched' = [k \in CreditIds |-> IF k \in K THEN Owed!To(k, "ISSUED", {}) ELSE Vouched[k]]
    BY <1>5, <1>6, <1>7
<1>9. Owed!Release(K)
    BY <1>6, <1>8 DEF Owed!Release
<1> QED BY <1>3, <1>9 DEF Owed!Next

(* One credit that becomes something else, while the others and their        *)
(* make-ups stay.                                                            *)
LEMMA OneBecomes ==
    ASSUME NEW k \in CreditIds, NEW v, Vouched'[k] = v,
           \A j \in CreditIds : j # k => credits'[j] = credits[j] /\ PlacesOf(j)' = PlacesOf(j)
    PROVE  Owed!Becomes(k, v)
<1>1. \A j \in CreditIds : j # k => Vouched'[j] = Vouched[j]
    BY SameVoucher
<1>2. Vouched' = [j \in CreditIds |-> Vouched'[j]] /\ Vouched = [j \in CreditIds |-> Vouched[j]]
    BY DEF Vouched
<1> QED BY <1>1, <1>2 DEF Owed!Becomes

(* A booking made holds the voucher.                                         *)
LEMMA BookingHolds ==
    ASSUME MakeUpTypeOK, CreditsFollowBookings, MakeUpTypeOK', CreditsFollowBookings',
           NEW k \in CreditIds, NEW at \in Schedules \cup Teachers, NEW slot \in Slots,
           Books(k, at, slot)
    PROVE  Owed!Next
<1>1. credits[k] # NoCredit /\ credits[k].status = "ISSUED"
    BY NoCreditFacts DEF Books
<1>2. PICK b \in Booking : b.credit = k /\ b.at = at /\ bookings' = bookings \cup {b}
    BY BooksResult
<1>3. credits' = [credits EXCEPT ![k] = [credits[k] EXCEPT !.status = "BOOKED"]]
    BY DEF Books, MakeUpTypeOK
<1>4. credits[k] \in Credit
    BY <1>1 DEF MakeUpTypeOK
<1>5. /\ credits'[k].student = credits[k].student /\ credits'[k].origin = credits[k].origin
      /\ credits'[k].status = "BOOKED" /\ credits'[k] # NoCredit
    <2>1. LET c == [credits[k] EXCEPT !.status = "BOOKED"] IN
          c.student = credits[k].student /\ c.origin = credits[k].origin /\ c.status = "BOOKED"
        BY <1>4 DEF Credit
    <2>2. credits'[k] = [credits[k] EXCEPT !.status = "BOOKED"]
        BY <1>3 DEF MakeUpTypeOK
    <2> QED BY <2>1, <2>2, NoCreditFacts
<1>6. ASSUME NEW j \in CreditIds, j # k
      PROVE  credits'[j] = credits[j] /\ PlacesOf(j)' = PlacesOf(j)
    <2>1. {c \in bookings' : c.credit = j} = {c \in bookings : c.credit = j}
        BY <1>2, <1>6
    <2> QED BY <1>3, <1>6, <2>1 DEF PlacesOf, MakeUpTypeOK
<1>7. Vouched'[k] = Owed!Voucher(credits[k].student, credits[k].origin, "BOOKED", {at})
    <2>1. PlacesOf(k)' = {at}
        BY <1>2, SaysAfter
    <2> QED BY <1>5, <2>1, SaysAfter
<1>8. Vouched'[k] = Owed!To(k, "BOOKED", {at}) /\ Owed!Is(k, "ISSUED")
    BY <1>1, <1>7, VoucherSays DEF Owed!To, Owed!Is
<1>9. Owed!Hold(k, at)
    BY <1>6, <1>8, OneBecomes DEF Owed!Hold
<1> QED BY <1>9 DEF Owed!Next

(* A make-up marked uses its voucher or forfeits it.                         *)
LEMMA MarkingSettles ==
    ASSUME MakeUpTypeOK, CreditsFollowBookings, MakeUpTypeOK', CreditsFollowBookings',
           NEW b \in bookings, NEW status \in {"ATTENDED", "MISSED"}, MarkBooking(b, status)
    PROVE  Owed!Next
<1> DEFINE k == b.credit
           new == IF status = "ATTENDED" THEN "USED" ELSE "FORFEITED"
           done == [b EXCEPT !.status = status]
<1>1. b \in Booking /\ k \in CreditIds /\ credits[k].status = "BOOKED"
    BY DEF MarkBooking, MakeUpTypeOK, Booking
<1>2. credits[k] # NoCredit /\ credits[k] \in Credit
    BY <1>1, NoCreditFacts DEF MakeUpTypeOK
<1>3. credits' = [credits EXCEPT ![k] = [credits[k] EXCEPT !.status = new]]
    BY DEF MarkBooking, MakeUpTypeOK
<1>4. /\ credits'[k].student = credits[k].student /\ credits'[k].origin = credits[k].origin
      /\ credits'[k].status = new /\ credits'[k] # NoCredit
    <2>1. /\ [credits[k] EXCEPT !.status = new].student = credits[k].student
          /\ [credits[k] EXCEPT !.status = new].origin = credits[k].origin
          /\ [credits[k] EXCEPT !.status = new].status = new
        BY <1>2 DEF Credit
    <2>2. credits'[k] = [credits[k] EXCEPT !.status = new]
        BY <1>1, <1>3 DEF MakeUpTypeOK
    <2>3. new # "NONE"
        OBVIOUS
    <2> HIDE DEF k, new
    <2>4. credits'[k].status = new
        BY <2>1, <2>2
    <2> QED BY <2>1, <2>2, <2>3, <2>4, NoCreditFacts
<1>5. done.credit = k /\ done.at = b.at
    BY <1>1 DEF Booking
<1>6. ASSUME NEW j \in CreditIds, j # k
      PROVE  credits'[j] = credits[j] /\ PlacesOf(j)' = PlacesOf(j)
    <2>1. bookings' = (bookings \ {b}) \cup (IF status = "ATTENDED" THEN {done} ELSE {})
        BY DEF MarkBooking
    <2>2. {c \in bookings' : c.credit = j} = {c \in bookings : c.credit = j}
        BY <1>5, <1>6, <2>1
    <2> QED BY <1>3, <1>6, <2>2 DEF PlacesOf, MakeUpTypeOK
<1>7. /\ Owed!Is(k, "BOOKED") /\ Vouched[k].student = credits[k].student
      /\ Vouched[k].lesson = credits[k].origin /\ Vouched[k].at = {b.at}
    <2>1. PlacesOf(k) = {b.at}
        BY PlacesAre
    <2>2. Vouched[k] = Owed!Voucher(credits[k].student, credits[k].origin, "BOOKED", {b.at})
        BY <1>1, <1>2, <2>1, VoucherSays
    <2> QED BY <2>2 DEF Owed!Voucher, Owed!Is
<1>8. CASE status = "ATTENDED"
    <2>1. done \in bookings'
        BY <1>8 DEF MarkBooking
    <2>2. PlacesOf(k)' = {b.at}
        BY <1>5, <2>1, SaysAfter
    <2>3. Vouched'[k] = Owed!Voucher(credits[k].student, credits[k].origin, "USED", {b.at})
        BY <1>1, <1>4, <1>8, <2>2, SaysAfter
    <2>4. Vouched'[k] = Owed!To(k, "USED", Vouched[k].at)
        BY <1>7, <2>3 DEF Owed!To
    <2>5. Owed!Use(k)
        BY <1>1, <1>6, <1>7, <2>4, OneBecomes DEF Owed!Use
    <2> QED BY <1>1, <2>5 DEF Owed!Next
<1>9. CASE status = "MISSED"
    <2>1. Vouched'[k] = Owed!Voucher(credits[k].student, credits[k].origin, "FORFEITED", {})
        BY <1>1, <1>4, <1>9, SaysAfter
    <2>2. Vouched'[k] = Owed!To(k, "FORFEITED", {})
        BY <1>7, <2>1 DEF Owed!To
    <2>3. Owed!Forfeit(k)
        BY <1>1, <1>6, <1>7, <2>2, OneBecomes DEF Owed!Forfeit
    <2> QED BY <1>1, <2>3 DEF Owed!Next
<1> QED BY <1>8, <1>9

(* A credit issued is a new voucher of a lesson that has none.               *)
LEMMA IssuingGives ==
    ASSUME MakeUpTypeOK, CreditsFollowBookings, MakeUpTypeOK', CreditsFollowBookings',
           NEW s \in Students, NEW o \in Origins, NEW reason \in {"ABSENT", "LESSON_CANCELLED"},
           Issue(s, o, reason)
    PROVE  Owed!Next
<1> DEFINE c == [student |-> s, origin |-> o, reason |-> reason, status |-> "ISSUED",
                 pardoned |-> FALSE]
<1>1. PICK k \in CreditIds : credits[k] = NoCredit /\ credits' = [credits EXCEPT ![k] = c]
    BY DEF Issue
<1>2. bookings' = bookings /\ ~HasCredit(s, o)
    BY DEF Issue
<1>3. credits'[k] = c /\ c # NoCredit
    BY <1>1, NoCreditFacts DEF MakeUpTypeOK
<1>4. Vouched'[k] = Owed!Voucher(s, o, "ISSUED", {})
    <2>1. c.student = s /\ c.origin = o /\ c.status = "ISSUED"
        OBVIOUS
    <2> HIDE DEF c
    <2>2. PlacesOf(k)' = {}
        BY <1>3, <2>1, SaysAfter
    <2>3. Vouched'[k] = Owed!Voucher(credits'[k].student, credits'[k].origin, credits'[k].status,
                                     PlacesOf(k)')
        BY <1>3, SaysAfter
    <2> QED BY <1>3, <2>1, <2>2, <2>3
<1>5. ASSUME NEW j \in CreditIds, j # k
      PROVE  credits'[j] = credits[j] /\ PlacesOf(j)' = PlacesOf(j)
    BY <1>1, <1>2, <1>5 DEF PlacesOf, MakeUpTypeOK
<1>6. Owed!Becomes(k, Owed!Voucher(s, o, "ISSUED", {}))
    BY <1>4, <1>5, OneBecomes
<1>7. ~\E j \in CreditIds : Owed!OfLesson(j, s, o)
    BY <1>2, VoucherSays DEF HasCredit, CreditOf, Owed!OfLesson
<1>8. Vouched[k] = Owed!None
    BY <1>1, VoucherSays
<1>9. Owed!Give(k, s, o)
    BY <1>6, <1>7, <1>8 DEF Owed!Give
<1> QED BY <1>9 DEF Owed!Next

(* Staff reinstate what was forfeited.                                       *)
LEMMA ReinstatingReinstates ==
    ASSUME MakeUpTypeOK, CreditsFollowBookings, MakeUpTypeOK', CreditsFollowBookings',
           NEW k \in CreditIds, Reinstate(k)
    PROVE  Owed!Next
<1>1. /\ credits[k] # NoCredit /\ credits[k].status = "FORFEITED" /\ credits'[k] # NoCredit
      /\ credits'[k].student = credits[k].student /\ credits'[k].origin = credits[k].origin
      /\ credits'[k].status = "ISSUED" /\ \A j \in CreditIds : j # k => credits'[j] = credits[j]
    BY ReinstatedCredit, NoCreditFacts
<1>2. bookings' = bookings
    BY DEF Reinstate
<1>3. Vouched'[k] = Owed!Voucher(credits[k].student, credits[k].origin, "ISSUED", {})
    BY <1>1, SaysAfter
<1>4. Vouched'[k] = Owed!To(k, "ISSUED", {}) /\ Owed!Is(k, "FORFEITED")
    BY <1>1, <1>3, VoucherSays DEF Owed!To, Owed!Is
<1>5. Owed!Reinstate(k)
    BY <1>1, <1>2, <1>4, OneBecomes DEF Owed!Reinstate, PlacesOf
<1> QED BY <1>5 DEF Owed!Next

(* What Vouchers says of the vouchers says OneCredit of the credits.         *)
LEMMA EachIsOne == MakeUpTypeOK => (OneCredit <=> Owed!OneEach)
<1> SUFFICES ASSUME MakeUpTypeOK PROVE OneCredit <=> Owed!OneEach
    OBVIOUS
<1>1. \A k \in CreditIds : credits[k] # NoCredit <=> Vouched[k] # Owed!None
    BY VoucherSays
<1> QED BY <1>1, VoucherSays DEF OneCredit, Owed!OneEach

(* A save of marks corrects: it voids what nobody has booked or used, and    *)
(* moves the day's credit to a lesson that has none.                         *)
LEMMA OneCreditMarked ==
    ASSUME MakeUpTypeOK, OneCredit, NEW o \in Origins, NEW entries \in Entries(o), Mark(o, entries)
    PROVE  OneCredit'
<1> SUFFICES ASSUME NEW j \in CreditIds, NEW k \in CreditIds,
                    credits'[j] # NoCredit, credits'[k] # NoCredit, j # k,
                    credits'[j].student = credits'[k].student,
                    credits'[j].origin = credits'[k].origin
             PROVE  FALSE
    BY DEF OneCredit
<1> DEFINE Moves(i) == /\ \E s \in DOMAIN entries : Follows(i, s, o)
                       /\ credits'[i].origin = o /\ credits'[i].student = credits[i].student
           Stays(i) == /\ credits'[i].origin = credits[i].origin
                       /\ credits'[i].student = credits[i].student /\ credits[i] # NoCredit
<1>1. /\ Moves(j) \/ Stays(j)
      /\ Moves(k) \/ Stays(k)
    BY MarkedCredit, NoCreditFacts
<1>2. ASSUME NEW i \in CreditIds, Moves(i), credits'[i].student = credits'[j].student
      PROVE  /\ credits[i] # NoCredit /\ credits[i].student = credits'[j].student
             /\ credits[i].origin = DayOf(o)
             /\ ~\E h \in CreditIds : CreditOf(h, credits'[j].student, o)
    BY <1>2 DEF Follows, CreditOf
<1>3. CASE Stays(j) /\ Stays(k)
    BY <1>3 DEF OneCredit
<1>4. CASE Moves(j) /\ Moves(k)
    BY <1>2, <1>4 DEF OneCredit
<1>5. CASE Moves(j) /\ Stays(k)
    BY <1>2, <1>5 DEF CreditOf
<1>6. CASE Stays(j) /\ Moves(k)
    BY <1>2, <1>6 DEF CreditOf
<1> QED BY <1>1, <1>3, <1>4, <1>5, <1>6

LEMMA MarkingCorrects ==
    ASSUME MakeUpTypeOK, CreditsFollowBookings, OneCredit, MakeUpTypeOK', CreditsFollowBookings',
           NEW o \in Origins, NEW entries \in Entries(o), Mark(o, entries)
    PROVE  Owed!Next
<1> DEFINE gone == {k \in CreditIds : Withdrawn(k, o, entries) /\ credits[k].status = "ISSUED"}
           moved == {k \in CreditIds \ gone : \E s \in DOMAIN entries : Follows(k, s, o)}
<1>0. bookings' = bookings
    BY DEF Mark
<1>1. ASSUME NEW k \in gone
      PROVE  Owed!Is(k, "ISSUED") /\ Vouched'[k] = Owed!None
    <2>1. credits'[k] = NoCredit
        BY MarkedCredit
    <2> QED BY <2>1, SaysAfter, VoucherSays DEF Owed!Is
<1>2. ASSUME NEW k \in moved
      PROVE  Vouched[k] # Owed!None /\ Vouched'[k] = [Vouched[k] EXCEPT !.lesson = o]
    <2>1. /\ credits[k] # NoCredit /\ credits'[k] # NoCredit /\ credits'[k].origin = o
          /\ credits'[k].student = credits[k].student /\ credits'[k].status = credits[k].status
        BY MarkedCredit, NoCreditFacts
    <2>2. PlacesOf(k)' = PlacesOf(k)
        BY <1>0 DEF PlacesOf
    <2>3. /\ Vouched[k] # Owed!None
          /\ Vouched[k] = Owed!Voucher(credits[k].student, credits[k].origin, credits[k].status,
                                       PlacesOf(k))
        BY <2>1, VoucherSays
    <2>4. Vouched'[k] = Owed!Voucher(credits[k].student, o, credits[k].status, PlacesOf(k))
        BY <2>1, <2>2, SaysAfter
    <2> QED BY <2>3, <2>4 DEF Owed!Voucher
<1>3. ASSUME NEW k \in CreditIds, k \notin gone, k \notin moved PROVE Vouched'[k] = Vouched[k]
    <2>1. \/ credits'[k] = credits[k]
          \/ /\ credits[k] \in Credit /\ credits'[k] \in Credit
             /\ credits'[k].student = credits[k].student /\ credits'[k].origin = credits[k].origin
             /\ credits'[k].status = credits[k].status
        BY <1>3, MarkedCredit
    <2> QED BY <1>0, <2>1, SameVoucher, NoCreditFacts DEF PlacesOf
<1>4. Vouched' = [k \in CreditIds |-> Vouched'[k]]
    BY DEF Vouched
<1>5. gone \in SUBSET CreditIds /\ moved \in SUBSET CreditIds
    OBVIOUS
<1>6. Owed!OneEach'
    <2>1. (MakeUpTypeOK => (OneCredit <=> Owed!OneEach))'
        BY EachIsOne, PTL
    <2> QED BY <2>1, OneCreditMarked
<1> HIDE DEF gone, moved
<1>7. Vouched' = [k \in CreditIds |-> IF k \in gone THEN Owed!None
                                      ELSE IF k \in moved THEN [Vouched[k] EXCEPT !.lesson = o]
                                      ELSE Vouched[k]]
    BY <1>1, <1>2, <1>3, <1>4
<1>8. Owed!Correct(gone, moved, o)
    BY <1>1, <1>2, <1>6, <1>7 DEF Owed!Correct
<1> QED BY <1>5, <1>8 DEF Owed!Next

(* Staff void a credit that is not booked.                                   *)
LEMMA VoidingCorrects ==
    ASSUME MakeUpTypeOK, CreditsFollowBookings, OneCredit, MakeUpTypeOK', CreditsFollowBookings',
           NEW k \in CreditIds, CancelCredit(k)
    PROVE  Owed!Next
<1>1. credits[k].status = "ISSUED" /\ credits' = [credits EXCEPT ![k] = NoCredit]
      /\ bookings' = bookings
    BY DEF CancelCredit
<1>2. credits[k] \in Credit
    BY <1>1, NoCreditFacts DEF MakeUpTypeOK
<1>3. /\ credits'[k] = NoCredit
      /\ \A j \in CreditIds : j # k => credits'[j] = credits[j]
    BY <1>1 DEF MakeUpTypeOK
<1>4. Owed!Is(k, "ISSUED") /\ Vouched'[k] = Owed!None
    BY <1>1, <1>3, VoucherSays, SaysAfter DEF Owed!Is
<1>5. \A j \in CreditIds : j # k => Vouched'[j] = Vouched[j]
    BY <1>1, <1>3, SameVoucher DEF PlacesOf
<1>6. Vouched' = [j \in CreditIds |-> Vouched'[j]]
    BY DEF Vouched
<1>7. OneCredit'
    BY <1>3 DEF OneCredit
<1>8. Owed!OneEach'
    <2>1. (MakeUpTypeOK => (OneCredit <=> Owed!OneEach))'
        BY EachIsOne, PTL
    <2> QED BY <1>7, <2>1
<1>9. Vouched' = [j \in CreditIds |->
                    IF j \in {k} THEN Owed!None
                    ELSE IF j \in {} THEN [Vouched[j] EXCEPT !.lesson = credits[k].origin]
                    ELSE Vouched[j]]
    BY <1>4, <1>5, <1>6
<1>10. Owed!Correct({k}, {}, credits[k].origin)
    BY <1>4, <1>8, <1>9 DEF Owed!Correct
<1>11. credits[k].origin \in Origins
    BY <1>2 DEF Credit
<1> QED BY <1>10, <1>11 DEF Owed!Next

(* Every step is one of Vouchers.                                            *)
LEMMA VoucherStep ==
    ASSUME MakeUpTypeOK, CreditsFollowBookings, OneCredit, [MakeUpNext]_makeUpVars
    PROVE  [Owed!Next]_Vouched
<1>0. MakeUpTypeOK' /\ CreditsFollowBookings'
    BY MakeUpTypeStep
<1>1. ASSUME credits' = credits, bookings' = bookings PROVE Vouched' = Vouched
    BY <1>1 DEF Vouched, VoucherOf, PlacesOf
<1>2. ASSUME NEW r \in Schedules, NEW to \in Slots \cup {"AWAY"},
             NEW isDated \in BOOLEAN, NEW force \in BOOLEAN,
             MoveRow(r, to, isDated, force)
      PROVE  Owed!Next
    BY <1>0, <1>2, MoveRowCarries, ReconcileResult, ClosingReleases
<1>3. ASSUME NEW r \in Schedules, DeleteRow(r) PROVE Owed!Next
    BY <1>0, <1>3, DeleteRowCarries, ReconcileResult, ClosingReleases
<1>4. ASSUME NEW g \in Groups, RemoveGroup(g) PROVE Owed!Next
    <2>1. timetable' \in [Schedules -> Slots \cup Elsewhere] /\ Reconcile(g)
        BY <1>4 DEF RemoveGroup, Edit, MakeUpTypeOK
    <2> QED BY <1>0, <2>1, ReconcileResult, ClosingReleases
<1>5. ASSUME NEW r \in Schedules, CallOff(r) PROVE Owed!Next
    <2> DEFINE into == {b \in Booked : b.at = r}
    <2>1. bookings' = bookings \ into /\ credits' = Released(into)
        BY <1>5 DEF CallOff
    <2> QED BY <1>0, <2>1, ClosesSome, ClosingReleases
<1>6. ASSUME NEW b \in bookings, CancelBooking(b) PROVE Owed!Next
    <2>1. {b} \in SUBSET Booked /\ bookings' = bookings \ {b} /\ credits' = Released({b})
        BY <1>6 DEF CancelBooking
    <2> QED BY <1>0, <2>1, ClosesSome, ClosingReleases
<1>7. ASSUME NEW b \in bookings, NEW status \in {"ATTENDED", "MISSED"}, MarkBooking(b, status)
      PROVE  Owed!Next
    BY <1>0, <1>7, MarkingSettles
<1>8. ASSUME NEW k \in CreditIds, NEW r \in Schedules, BookLesson(k, r) PROVE Owed!Next
    <2>1. timetable[r] \in Slots /\ Books(k, r, timetable[r])
        BY <1>8 DEF BookLesson, TakesPlace, OnDay
    <2> QED BY <1>0, <2>1, BookingHolds
<1>9. ASSUME NEW k \in CreditIds, NEW w \in Teachers, NEW slot \in Slots, BookSession(k, w, slot)
      PROVE  Owed!Next
    <2>1. Books(k, w, slot)
        BY <1>9 DEF BookSession
    <2> QED BY <1>0, <2>1, BookingHolds
<1>10. ASSUME NEW o \in Origins, NEW entries \in Entries(o), Mark(o, entries) PROVE Owed!Next
    BY <1>0, <1>10, MarkingCorrects
<1>11. ASSUME NEW s \in Students, NEW o \in Origins,
              NEW reason \in {"ABSENT", "LESSON_CANCELLED"}, Issue(s, o, reason)
       PROVE  Owed!Next
    BY <1>0, <1>11, IssuingGives
<1>12. ASSUME NEW k \in CreditIds, CancelCredit(k) \/ Reinstate(k) PROVE Owed!Next
    BY <1>0, <1>12, VoidingCorrects, ReinstatingReinstates
<1> QED BY <1>1, <1>2, <1>3, <1>4, <1>5, <1>6, <1>7, <1>8, <1>9, <1>10, <1>11, <1>12
        DEF MakeUpNext, AddRow, RestoreLesson, RestoreGroup, Scan, DayPasses, makeUpVars

(* Vouchers keeps its own promise, so the credits do: a lesson has one.      *)
LEMMA EachStaysOne ==
    ASSUME MakeUpTypeOK, Owed!OneEach, [Owed!Next]_Vouched
    PROVE  Owed!OneEach'
<1> DEFINE Same(k) == /\ Vouched'[k] # Owed!None => Vouched[k] # Owed!None
                      /\ Vouched'[k].student = Vouched[k].student
                      /\ Vouched'[k].lesson = Vouched[k].lesson
<1>0. \A s, l, state, at : /\ Owed!Voucher(s, l, state, at).student = s
                           /\ Owed!Voucher(s, l, state, at).lesson = l
    BY DEF Owed!Voucher
<1>1. \A k \in CreditIds : \A state, at :
        Vouched[k] # Owed!None => /\ Owed!To(k, state, at).student = Vouched[k].student
                                  /\ Owed!To(k, state, at).lesson = Vouched[k].lesson
    BY <1>0 DEF Owed!To
<1>2. \A k \in CreditIds : Owed!Is(k, "ISSUED") \/ Owed!Is(k, "BOOKED") \/ Owed!Is(k, "FORFEITED")
        => Vouched[k] # Owed!None
    BY DEF Owed!Is, Owed!None
<1>3. ASSUME \A k \in CreditIds : Same(k) PROVE Owed!OneEach'
    BY <1>3 DEF Owed!OneEach
<1>4. ASSUME NEW k \in CreditIds, NEW v, Owed!Becomes(k, v)
      PROVE  Vouched'[k] = v /\ \A j \in CreditIds : j # k => Vouched'[j] = Vouched[j]
    BY <1>4 DEF Owed!Becomes, Vouched
<1>5. ASSUME NEW k \in CreditIds, NEW state, NEW at, Vouched[k] # Owed!None,
             Owed!Becomes(k, Owed!To(k, state, at))
      PROVE  Owed!OneEach'
    BY <1>1, <1>3, <1>4, <1>5
<1>6. ASSUME NEW k \in CreditIds, NEW s \in Students, NEW l \in Origins, Owed!Give(k, s, l)
      PROVE  Owed!OneEach'
    <2>1. /\ Vouched'[k].student = s /\ Vouched'[k].lesson = l
          /\ \A j \in CreditIds : j # k => Vouched'[j] = Vouched[j]
        BY <1>0, <1>4, <1>6 DEF Owed!Give
    <2>2. \A j \in CreditIds : Vouched[j] # Owed!None => Vouched[j].student # s \/ Vouched[j].lesson # l
        BY <1>6 DEF Owed!Give, Owed!OfLesson
    <2> QED BY <2>1, <2>2 DEF Owed!OneEach
<1>7. ASSUME NEW K \in SUBSET CreditIds, Owed!Release(K) PROVE Owed!OneEach'
    BY <1>1, <1>2, <1>3, <1>7 DEF Owed!Release
<1>8. ASSUME NEW k \in CreditIds, NEW p, Owed!Hold(k, p) PROVE Owed!OneEach'
    BY <1>2, <1>5, <1>8 DEF Owed!Hold
<1>9. ASSUME NEW k \in CreditIds, Owed!Use(k) \/ Owed!Forfeit(k) \/ Owed!Reinstate(k)
      PROVE  Owed!OneEach'
    BY <1>2, <1>5, <1>9 DEF Owed!Use, Owed!Forfeit, Owed!Reinstate
<1>10. ASSUME Vouched' = Vouched PROVE Owed!OneEach'
    BY <1>10 DEF Owed!OneEach
<1> QED BY <1>6, <1>7, <1>8, <1>9, <1>10 DEF Owed!Next, Owed!Correct

LEMMA OneCreditStep ==
    ASSUME MakeUpTypeOK, CreditsFollowBookings, OneCredit, [MakeUpNext]_makeUpVars
    PROVE  OneCredit'
<1>1. Owed!OneEach'
    BY VoucherStep, EachIsOne, EachStaysOne
<1>2. (MakeUpTypeOK => (OneCredit <=> Owed!OneEach))'
    BY EachIsOne, PTL
<1> QED BY <1>1, <1>2, MakeUpTypeStep

(* A day may begin with credits, as long as nothing is booked with them.     *)
LEMMA VouchersBegin ==
    ASSUME MakeUpTypeOK, OneCredit, bookings = {},
           \A k \in CreditIds : credits[k] # NoCredit => credits[k].status = "ISSUED"
    PROVE  Owed!Init
<1>1. \A k \in CreditIds : PlacesOf(k) = {}
    BY DEF PlacesOf
<1>2. ASSUME NEW k \in CreditIds
      PROVE  Vouched[k] \in {Owed!None}
               \cup {Owed!Voucher(s, l, "ISSUED", {}) : s \in Students, l \in Origins}
    <2>1. CASE credits[k] = NoCredit
        BY <2>1, VoucherSays
    <2>2. CASE credits[k] # NoCredit
        <3>1. credits[k].student \in Students /\ credits[k].origin \in Origins
            BY <2>2 DEF MakeUpTypeOK, Credit
        <3>2. Vouched[k] = Owed!Voucher(credits[k].student, credits[k].origin, "ISSUED", {})
            BY <1>1, <2>2, VoucherSays
        <3> QED BY <3>1, <3>2
    <2> QED BY <2>1, <2>2
<1>3. Vouched = [k \in CreditIds |-> Vouched[k]]
    BY DEF Vouched
<1>4. Vouched \in [CreditIds -> {Owed!None}
        \cup {Owed!Voucher(s, l, "ISSUED", {}) : s \in Students, l \in Origins}]
    BY <1>2, <1>3
<1>5. Owed!OneEach
    BY EachIsOne
<1> QED BY <1>4, <1>5 DEF Owed!Init

LEMMA MakeUpStepOwes ==
    MakeUpInv /\ OneCredit /\ [MakeUpNext]_makeUpVars => OneCredit' /\ [Owed!Next]_Vouched
<1>1. MakeUpInv => MakeUpTypeOK /\ CreditsFollowBookings
    BY DEF MakeUpInv
<1> QED BY <1>1, OneCreditStep, VoucherStep

(* Issuing, booking, marking, correcting, and every change of the timetable  *)
(* with the bookings it closes, are steps of Vouchers: a missed lesson is    *)
(* made up at most once.                                                     *)
THEOREM MakeUpsImplementVouchers == MakeUpSpec => ImplementsVouchers
<1>1. MakeUpInit => OneCredit
    BY DEF MakeUpInit, OneCredit
<1>2. MakeUpInit => Owed!Init
    <2> SUFFICES ASSUME MakeUpInit PROVE Owed!Init
        OBVIOUS
    <2>1. bookings = {} /\ \A k \in CreditIds : credits[k] = NoCredit
        BY DEF MakeUpInit
    <2> QED BY <1>1, <2>1, InitTypes, VouchersBegin
<1> QED BY <1>1, <1>2, MakeUpStepOwes, MakeUpInvariant, PTL
        DEF MakeUpSpec, ImplementsVouchers, Owed!Spec
=============================================================================
