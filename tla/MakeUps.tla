------------------------------- MODULE MakeUps -------------------------------
(***************************************************************************)
(* One day of a center: its timetable, attendance marks, the make-up       *)
(* credits issued for missed lessons and the make-ups booked with them.    *)
(*                                                                         *)
(* Every writer here first takes the center's timetable lock               *)
(* (common/timetable-lock.ts), except the two that touch one credit row    *)
(* under its row lock; each is one transaction, so each is one action. The *)
(* difficulty is not in their interleaving but in that six services change *)
(* the same facts: what a credit or a booking rests on may be changed by a *)
(* writer that knows nothing about it.                                     *)
(***************************************************************************)
EXTENDS Naturals, FiniteSets

CONSTANTS
    Students, Teachers,
    Groups,
    Schedules,    \* timetable rows: a lesson is its row
    Slots,        \* times of the day, none overlapping another
    GroupOf,      \* the group of each row
    TeacherOf,    \* the teacher (and room) of each group's lessons
    OneOff,       \* rows that begin with a date of their own; the others are weekly
    Planned,      \* where the timetable has each row when the day begins
    Members,      \* who studies in each group
    FreeSeats,    \* what a group's members leave of its seats
    MaxCredits,   \* bound: credits that are not voided
    MaxEdits      \* bound: changes of the timetable

Elsewhere == {"AWAY", "UNMADE", "GONE"}

ASSUME SchedulesAssumption ==
    /\ GroupOf \in [Schedules -> Groups] /\ TeacherOf \in [Groups -> Teachers]
    /\ OneOff \subseteq Schedules /\ Members \in [Groups -> SUBSET Students]
    /\ Planned \in [Schedules -> Slots \cup {"AWAY", "UNMADE"}]
    /\ Slots \cap Elsewhere = {}
    /\ Schedules \cap Groups = {} /\ Schedules \cap Teachers = {}

ASSUME BoundsAssumption ==
    FreeSeats \in [Groups -> Nat] /\ MaxCredits \in Nat /\ MaxEdits \in Nat

VARIABLES
    timetable,   \* the slot of each row that day; AWAY: another day, or cancelled
    dated,       \* rows with a date of their own; the others are weekly
    calledOff,   \* rows with a cancellation of that day (lesson_cancellations)
    open,        \* groups that are not in the trash
    marks,       \* attendance, of a row's lesson or of the group's day as a whole
    credits,     \* make-up credits; a voided one is history nobody reads
    bookings,    \* make-ups still booked or attended; the others are history
    past,        \* the day is over
    forced,      \* somebody planned a lesson over a clash (allowCollision)
    edits        \* changes of the timetable so far (bound)

timetableVars == <<timetable, dated, calledOff, open, forced, edits>>
makeUpVars == <<timetable, dated, calledOff, open, marks, credits, bookings, past, forced, edits>>

\* What a mark or a credit is about: a lesson, or a group's day.
Origins == Schedules \cup Groups
DayOf(o) == IF o \in Schedules THEN GroupOf[o] ELSE o

CreditIds == 1..MaxCredits
NoCredit == [status |-> "NONE"]
Credit == [student : Students, origin : Origins, reason : {"ABSENT", "LESSON_CANCELLED"},
           status : {"ISSUED", "BOOKED", "USED", "FORFEITED"}, pardoned : BOOLEAN]

\* at: the row of a group lesson, or the teacher of a session.
Booking == [credit : CreditIds, student : Students, at : Schedules \cup Teachers, slot : Slots,
            status : {"BOOKED", "ATTENDED"}]

MakeUpTypeOK ==
    /\ timetable \in [Schedules -> Slots \cup Elsewhere]
    /\ dated \subseteq Schedules /\ calledOff \subseteq Schedules
    /\ open \subseteq Groups
    /\ marks \in [Students -> [Origins -> {"NONE", "ABSENT", "PRESENT"}]]
    /\ credits \in [CreditIds -> Credit \cup {NoCredit}]
    /\ bookings \subseteq Booking
    /\ past \in BOOLEAN /\ forced \in BOOLEAN /\ edits \in 0..MaxEdits

MakeUpInit ==
    /\ timetable = Planned /\ dated = OneOff /\ calledOff = {} /\ open = Groups
    /\ marks = [s \in Students |-> [o \in Origins |-> "NONE"]]
    /\ credits = [k \in CreditIds |-> NoCredit] /\ bookings = {}
    /\ past = FALSE /\ forced = FALSE /\ edits = 0

-----------------------------------------------------------------------------
(* Lessons of the day, and what stands in the way of one. *)

OnDay(r) == timetable[r] \in Slots /\ GroupOf[r] \in open

\* A cancellation is one of a weekly lesson: a dated one is held.
TakesPlace(r) == OnDay(r) /\ (r \in dated \/ r \notin calledOff)

Booked == {b \in bookings : b.status = "BOOKED"}

\* Lessons that take the slot: from a dated lesson's point of view, one called
\* off does not; from a weekly one's, a one-off of the past does not.
Taking(slot, isDated) ==
    {c \in Schedules : /\ OnDay(c) /\ timetable[c] = slot
                  /\ IF isDated THEN TakesPlace(c) ELSE past => c \notin dated}

\* Rows that cannot share a slot with one of g's: the group's own, its
\* teacher's, and those of a group with a student in common.
Rivals(g) == {c \in Schedules : \/ GroupOf[c] = g \/ TeacherOf[GroupOf[c]] = TeacherOf[g]
                           \/ Members[GroupOf[c]] \cap Members[g] # {}}

\* Mutant: the students' make-ups are not asked about.
SessionsInTheWay(g, slot) == {b \in Booked : b.slot = slot /\ b.at = TeacherOf[g]}

\* A session of its teacher, or a make-up of one of its students elsewhere.
MakeUpsInTheWay(g, slot) ==
    {b \in Booked : /\ b.slot = slot
                    /\ \/ b.at = TeacherOf[g]
                       \/ b.student \in Members[g] /\ ~(b.at \in Schedules /\ GroupOf[b.at] = g)}

Fits(r, slot, isDated) ==
    slot \in Slots =>
        /\ Taking(slot, isDated) \cap Rivals(GroupOf[r]) \subseteq {r}
        /\ (isDated \/ ~past) => MakeUpsInTheWay(GroupOf[r], slot) = {}

\* A student's own lesson, or another make-up of theirs, at that time.
OwnLesson(s, slot) == \E r \in Schedules : TakesPlace(r) /\ timetable[r] = slot /\ s \in Members[GroupOf[r]]
OtherMakeUp(s, slot, but) == \E b \in bookings \ but : b.student = s /\ b.slot = slot

\* Mutant: the credit is forgotten.
NothingReleased(closed) == credits

Released(closed) ==
    [k \in CreditIds |-> IF credits[k].status = "BOOKED" /\ \E b \in closed : b.credit = k
                         THEN [credits[k] EXCEPT !.status = "ISSUED"] ELSE credits[k]]

\* Make-ups follow the lesson they were booked into, or are released.
Reconcile(g) ==
    LET mine == {b \in Booked : ~past /\ b.at \in Schedules /\ GroupOf[b.at] = g}
        lost == {b \in mine :
                   \/ ~TakesPlace(b.at)'
                   \/ /\ timetable'[b.at] # b.slot
                      /\ OwnLesson(b.student, timetable[b.at])'
                         \/ OtherMakeUp(b.student, timetable'[b.at], {b})}
    IN /\ bookings' = (bookings \ mine)
                        \cup {[b EXCEPT !.slot = timetable'[b.at]] : b \in mine \ lost}
       /\ credits' = Released(lost)

-----------------------------------------------------------------------------
(* The timetable. *)

Edit(change) == edits < MaxEdits /\ edits' = edits + 1 /\ timetable' = change

\* Staff may plan over a clash.
Clears(r, slot, isDated, force) ==
    /\ Fits(r, slot, isDated) \/ force
    /\ forced' = (forced \/ ~Fits(r, slot, isDated))

AddRow(r, slot, force) ==
    /\ timetable[r] = "UNMADE" /\ GroupOf[r] \in open
    /\ Clears(r, slot, r \in dated, force)
    /\ Edit([timetable EXCEPT ![r] = slot])
    /\ UNCHANGED <<dated, calledOff, open, marks, credits, bookings, past>>

\* A weekly row may be given a date, a dated one be made weekly: the
\* cancellation stays, and nobody asks what was given for it.
MoveRow(r, to, isDated, force) ==
    /\ timetable[r] \notin {"UNMADE", "GONE"} /\ <<timetable[r], r \in dated>> # <<to, isDated>>
    /\ Clears(r, to, isDated, force)
    /\ Edit([timetable EXCEPT ![r] = to])
    /\ dated' = IF isDated THEN dated \cup {r} ELSE dated \ {r}
    /\ UNCHANGED <<calledOff, open, marks, past>>
    /\ Reconcile(GroupOf[r])

\* The row takes its cancellation with it.
DeleteRow(r) ==
    /\ timetable[r] \notin {"UNMADE", "GONE"}
    /\ Edit([timetable EXCEPT ![r] = "GONE"])
    /\ calledOff' = calledOff \ {r}
    /\ UNCHANGED <<dated, open, marks, past, forced>>
    /\ Reconcile(GroupOf[r])

RemoveGroup(g) ==
    /\ g \in open /\ open' = open \ {g}
    /\ Edit(timetable)
    /\ UNCHANGED <<dated, calledOff, marks, past, forced>>
    /\ Reconcile(g)

RestoreGroup(g) ==
    /\ g \notin open /\ open' = open \cup {g}
    /\ Edit(timetable)
    /\ UNCHANGED <<dated, calledOff, marks, credits, bookings, past, forced>>
    /\ \A r \in Schedules : GroupOf[r] = g /\ (r \in dated => ~past) =>
         Fits(r, timetable[r], r \in dated)'

CallOff(r) ==
    /\ r \notin dated /\ TakesPlace(r)
    /\ edits < MaxEdits /\ edits' = edits + 1
    /\ calledOff' = calledOff \cup {r}
    /\ LET into == {b \in Booked : b.at = r}
       IN bookings' = bookings \ into /\ credits' = Released(into)
    /\ UNCHANGED <<timetable, dated, open, marks, past, forced>>

\* Refused while credits were given for the lesson, or when something dated
\* took its place.
RestoreLesson(r) ==
    /\ r \in calledOff
    /\ \A k \in CreditIds : credits[k] # NoCredit =>
         ~(credits[k].reason = "LESSON_CANCELLED" /\ credits[k].origin = r)
    /\ OnDay(r) /\ r \notin dated =>
         /\ Taking(timetable[r], TRUE) \cap dated \cap Rivals(GroupOf[r]) = {}
         /\ MakeUpsInTheWay(GroupOf[r], timetable[r]) = {}
    /\ edits < MaxEdits /\ edits' = edits + 1
    /\ calledOff' = calledOff \ {r}
    /\ UNCHANGED <<timetable, dated, open, marks, credits, bookings, past, forced>>

-----------------------------------------------------------------------------
(* Attendance. *)

\* A lesson of the day that was not called off, or the day of a group that
\* has no lesson on it.
Markable(o) ==
    \/ o \in Schedules /\ TakesPlace(o)
    \/ o \in open /\ \A r \in Schedules : GroupOf[r] = o => ~OnDay(r)

CreditOf(k, s, o) == credits[k] # NoCredit /\ credits[k].student = s /\ credits[k].origin = o

\* The day's mark becomes the lesson's, and the absence's credit with it.
Adopted(s, o) ==
    /\ o \in Schedules /\ marks[s][o] = "NONE" /\ marks[s][DayOf(o)] # "NONE"
Follows(k, s, o) ==
    /\ Adopted(s, o) /\ CreditOf(k, s, DayOf(o)) /\ credits[k].reason = "ABSENT"
    /\ ~\E j \in CreditIds : CreditOf(j, s, o)

\* The lesson has a credit of its own already (it was called off before its
\* row was given a date): the day's is left without its mark.
Stranded(k, s, o) ==
    /\ Adopted(s, o) /\ CreditOf(k, s, DayOf(o)) /\ credits[k].reason = "ABSENT"
    /\ \E j \in CreditIds : CreditOf(j, s, o)

\* Mutant: the credits are settled before the day's mark is adopted.
GroundBefore(k, s, o) == CreditOf(k, s, o) /\ credits[k].reason = "ABSENT"

Ground(k, s, o) ==
    /\ Follows(k, s, o) \/ CreditOf(k, s, o)
    /\ credits[k].reason = "ABSENT"

Marked(s, o, mark) ==
    [marks[s] EXCEPT ![DayOf(o)] = IF Adopted(s, o) THEN "NONE" ELSE @, ![o] = mark]

\* A correction takes the ground from under a credit: an open one is voided,
\* a booked one stops the whole save.
Withdrawn(k, o, entries) ==
    \E s \in DOMAIN entries : entries[s] # "ABSENT" /\ Ground(k, s, o)

Mark(o, entries) ==
    /\ Markable(o) /\ DOMAIN entries \subseteq Members[DayOf(o)]
    /\ ~\E k \in CreditIds : Withdrawn(k, o, entries) /\ credits[k].status = "BOOKED"
    /\ marks' = [s \in Students |-> IF s \in DOMAIN entries THEN Marked(s, o, entries[s])
                                    ELSE marks[s]]
    /\ credits' = [k \in CreditIds |->
         IF Withdrawn(k, o, entries) /\ credits[k].status = "ISSUED" THEN NoCredit
         ELSE IF \E s \in DOMAIN entries : Follows(k, s, o) THEN [credits[k] EXCEPT !.origin = o]
         ELSE IF \E s \in DOMAIN entries : Stranded(k, s, o) THEN [credits[k] EXCEPT !.pardoned = TRUE]
         ELSE credits[k]]
    /\ UNCHANGED <<timetableVars, bookings, past>>

\* A scanned card: present, unless the lesson has a mark already.
Scan(s, r) ==
    /\ TakesPlace(r) /\ s \in Members[GroupOf[r]] /\ marks[s][r] = "NONE"
    /\ marks' = [marks EXCEPT ![s][r] = "PRESENT"]
    /\ UNCHANGED <<timetableVars, credits, bookings, past>>

-----------------------------------------------------------------------------
(* Credits. *)

Missed(s, o, reason) ==
    IF reason = "ABSENT" THEN marks[s][o] = "ABSENT" ELSE o \in calledOff

\* Mutant: a used credit does not count.
HasUnused(s, o) == \E k \in CreditIds : CreditOf(k, s, o) /\ credits[k].status # "USED"

HasCredit(s, o) == \E k \in CreditIds : CreditOf(k, s, o)

\* One credit that is not voided for one missed lesson.
Issue(s, o, reason) ==
    /\ s \in Members[DayOf(o)] /\ Missed(s, o, reason)
    /\ ~HasCredit(s, o)
    /\ \E k \in CreditIds :
         /\ credits[k] = NoCredit /\ \A j \in 1..(k - 1) : credits[j] # NoCredit
         /\ credits' = [credits EXCEPT ![k] =
              [student |-> s, origin |-> o, reason |-> reason, status |-> "ISSUED",
               pardoned |-> FALSE]]
    /\ UNCHANGED <<timetableVars, marks, bookings, past>>

CancelCredit(k) ==
    /\ credits[k].status = "ISSUED"
    /\ credits' = [credits EXCEPT ![k] = NoCredit]
    /\ UNCHANGED <<timetableVars, marks, bookings, past>>

\* Whether the credit still has a ground is not asked.
Reinstate(k) ==
    /\ credits[k].status = "FORFEITED"
    /\ credits' = [credits EXCEPT ![k].status = "ISSUED",
         ![k].pardoned = @ \/ ~Missed(credits[k].student, credits[k].origin, credits[k].reason)]
    /\ UNCHANGED <<timetableVars, marks, bookings, past>>

-----------------------------------------------------------------------------
(* Bookings. *)

Seats(r) == Cardinality({b \in bookings : b.at = r})

Busy(s, slot) == OwnLesson(s, slot) \/ OtherMakeUp(s, slot, {})

Books(k, at, slot) ==
    /\ credits[k].status = "ISSUED" /\ ~Busy(credits[k].student, slot)
    /\ \A b \in bookings : b.credit # k
    /\ bookings' = bookings \cup {[credit |-> k, student |-> credits[k].student, at |-> at,
                                   slot |-> slot, status |-> "BOOKED"]}
    /\ credits' = [credits EXCEPT ![k].status = "BOOKED"]
    /\ UNCHANGED <<timetableVars, marks, past>>

BookLesson(k, r) ==
    /\ Books(k, r, timetable[r])
    /\ TakesPlace(r) /\ credits[k].student \notin Members[GroupOf[r]]
    /\ Seats(r) < FreeSeats[GroupOf[r]]

BookSession(k, w, slot) ==
    /\ \A r \in Taking(slot, TRUE) : TeacherOf[GroupOf[r]] # w
    /\ \A b \in bookings : ~(b.at = w /\ b.slot = slot)
    /\ Books(k, w, slot)

CancelBooking(b) ==
    /\ b \in Booked
    /\ bookings' = bookings \ {b} /\ credits' = Released({b})
    /\ UNCHANGED <<timetableVars, marks, past>>

\* Attendance at the make-up: once, and the credit is used or forfeited.
MarkBooking(b, status) ==
    /\ b \in Booked /\ credits[b.credit].status = "BOOKED"
    /\ bookings' = (bookings \ {b})
                     \cup (IF status = "ATTENDED" THEN {[b EXCEPT !.status = status]} ELSE {})
    /\ credits' = [credits EXCEPT ![b.credit].status =
                     IF status = "ATTENDED" THEN "USED" ELSE "FORFEITED"]
    /\ UNCHANGED <<timetableVars, marks, past>>

DayPasses == ~past /\ past' = TRUE /\ UNCHANGED <<timetableVars, marks, credits, bookings>>

-----------------------------------------------------------------------------
Entries(o) == UNION {[S -> {"ABSENT", "PRESENT"}] : S \in (SUBSET Members[DayOf(o)]) \ {{}}}

MakeUpNext ==
    \/ \E r \in Schedules, slot \in Slots, force \in BOOLEAN : AddRow(r, slot, force)
    \/ \E r \in Schedules, to \in Slots \cup {"AWAY"}, isDated, force \in BOOLEAN :
         MoveRow(r, to, isDated, force)
    \/ \E r \in Schedules : DeleteRow(r) \/ CallOff(r) \/ RestoreLesson(r)
    \/ \E g \in Groups : RemoveGroup(g) \/ RestoreGroup(g)
    \/ \E o \in Origins : \E entries \in Entries(o) : Mark(o, entries)
    \/ \E s \in Students, r \in Schedules : Scan(s, r)
    \/ \E s \in Students, o \in Origins, reason \in {"ABSENT", "LESSON_CANCELLED"} :
         Issue(s, o, reason)
    \/ \E k \in CreditIds :
         \/ CancelCredit(k) \/ Reinstate(k)
         \/ \E r \in Schedules : BookLesson(k, r)
         \/ \E w \in Teachers, slot \in Slots : BookSession(k, w, slot)
    \/ \E b \in bookings :
         CancelBooking(b) \/ \E status \in {"ATTENDED", "MISSED"} : MarkBooking(b, status)
    \/ DayPasses

MakeUpSpec == MakeUpInit /\ [][MakeUpNext]_makeUpVars

-----------------------------------------------------------------------------
(* A credit and its make-up tell the same story whatever closed, moved or    *)
(* marked the booking: a credit is BOOKED or USED exactly while one booking  *)
(* of it, of the same student, is BOOKED or ATTENDED - so a released credit  *)
(* comes back once and a used one never.                                     *)
CreditsFollowBookings ==
    /\ \A b \in bookings :
         /\ credits[b.credit].status = IF b.status = "BOOKED" THEN "BOOKED" ELSE "USED"
         /\ credits[b.credit].student = b.student
         /\ \A c \in bookings : c.credit = b.credit => c = b
    /\ \A k \in CreditIds : credits[k].status \in {"BOOKED", "USED"} =>
         \E b \in bookings : b.credit = k

(* A credit that can be spent has a ground: an absence still marked for its  *)
(* lesson (unless staff reinstated it when it was not, or its mark became a  *)
(* lesson's that had a credit already), and a lesson called off is not held  *)
(* as long as a credit was given for it (unless its row was given a date,    *)
(* for which the cancellation does not hold).                                *)
CreditHasGround ==
    \A k \in CreditIds : credits[k] # NoCredit =>
        LET c == credits[k]
        IN /\ c.reason = "ABSENT" /\ c.status \in {"ISSUED", "BOOKED"} /\ ~c.pardoned =>
                marks[c.student][c.origin] = "ABSENT"
           /\ c.reason = "LESSON_CANCELLED" =>
                c.origin \in Schedules /\ (c.origin \in dated \/ ~TakesPlace(c.origin))

BookedIsHeld ==
    ~past => \A b \in Booked : b.at \in Schedules => TakesPlace(b.at) /\ timetable[b.at] = b.slot

NobodyTwice ==
    \A b, c \in bookings : b # c /\ b.slot = c.slot =>
        b.student # c.student /\ (b.at = c.at => b.at \in Schedules)

WithinSeats ==
    \A r \in Schedules : Cardinality({b \in bookings : b.at = r}) <= FreeSeats[GroupOf[r]]

BesideNoLesson ==
    ~past /\ ~forced => \A b \in Booked :
        /\ ~OwnLesson(b.student, b.slot)
        /\ \A r \in Schedules : TakesPlace(r) /\ timetable[r] = b.slot => TeacherOf[GroupOf[r]] # b.at

(* A make-up that is booked can take place: its lesson is held and at the    *)
(* booked time (through moves, deletions, cancellations and the group's      *)
(* trash), no student has two make-ups and no teacher two sessions at a      *)
(* time, no lesson is over its seats, and - while nobody planned over a      *)
(* clash - the student has no lesson and the session's teacher no group then.*)
BookingsStand == BookedIsHeld /\ NobodyTwice /\ WithinSeats /\ BesideNoLesson

-----------------------------------------------------------------------------
(* What all of it is for: a credit and what is booked with it are a voucher  *)
(* of the missed lesson.                                                     *)
PlacesOf(k) == {b.at : b \in {c \in bookings : c.credit = k}}

VoucherOf(k) ==
    IF credits[k] = NoCredit THEN [state |-> "NONE"]
    ELSE [student |-> credits[k].student, lesson |-> credits[k].origin,
          state |-> credits[k].status, at |-> PlacesOf(k)]

Vouched == [k \in CreditIds |-> VoucherOf(k)]

Owed == INSTANCE Vouchers WITH
    Holders <- Students, Lessons <- Origins, Places <- Schedules \cup Teachers,
    Ids <- CreditIds, vouchers <- Vouched

(* Whatever the six writers do - issue, book, mark, correct, call off, move, *)
(* delete, reconcile - a missed lesson is made up at most once: its credit   *)
(* is held by the one make-up booked with it, comes back when that one is    *)
(* closed, and a used credit never goes, comes back or is given anew.        *)
ImplementsVouchers == Owed!Spec
=============================================================================
