----------------------------- MODULE ServicesProofs -----------------------------
(***************************************************************************)
(* What MCServices checks is what the theorems about the four services are *)
(* about: whatever its scene, a step is one of the service at work and     *)
(* leaves the others alone, so their invariants hold side by side.         *)
(***************************************************************************)
EXTENDS CalendarSyncProofs, PhoneProofs, MakeUpsProofs, MCServices

-----------------------------------------------------------------------------
(* The steps of a scene are steps of its service *)

LEMMA CalendarSteps == Pollers \/ LessonChanges \/ AccountChanges => SyncNext
<1>1. ASSUME NEW t \in Tabs, FinishesRequest(t) \/ AskList(t) PROVE OfUser(t)
    BY <1>1 DEF FinishesRequest, OfUser
<1>2. Pollers => SyncNext
    BY <1>1 DEF Pollers, SyncNext
<1>3. a1 \in Accounts
    BY SceneAssumption
<1>4. LessonChanges => SyncNext
    BY <1>3 DEF LessonChanges, SyncNext, OfUser
<1>5. AccountChanges => SyncNext
    BY DEF AccountChanges, SyncNext, OfUser
<1> QED BY <1>2, <1>4, <1>5

LEMMA SmsSteps == Sends \/ OverMonths \/ WithKeys => SmsNext
<1>1. Sends => SmsNext
    BY DEF Sends, SmsNext
<1>2. /\ \A x \in Centers : <<x, h1>> \in Messages
      /\ \A h \in MessageKeys : <<x1, h>> \in Messages
      /\ <<x2, h1>> \in Messages
    BY SceneAssumption DEF Messages
<1>3. OverMonths => SmsNext
    BY <1>2 DEF OverMonths, SmsNext
<1>4. WithKeys => SmsNext
    BY <1>2 DEF WithKeys, SmsNext
<1> QED BY <1>1, <1>3, <1>4

LEMMA CallSteps == Handles \/ AnyEvent \/ OfSeveral => CallNext
<1>1. c1 \in Calls /\ n1 \in Numbers /\ m1 \in Users
    BY SceneAssumption
<1>2. Handles => CallNext
    BY <1>1 DEF Handles, CallNext
<1>3. AnyEvent => CallNext
    BY <1>1 DEF AnyEvent, CallNext
<1>4. OfSeveral => CallNext
    BY DEF OfSeveral, CallNext
<1> QED BY <1>2, <1>3, <1>4

LEMMA DeskSteps == AtDesk => MakeUpNext
<1> QED BY DEF AtDesk, MakeUpNext

(* One student's mark is a list of entries. *)
LEMMA OneMark ==
    ASSUME NEW o \in {r1, g1}, NEW mark \in {"ABSENT", "PRESENT"},
           Mark(o, [s \in {s1} |-> mark])
    PROVE  MakeUpNext
<1> DEFINE entries == [s \in {s1} |-> mark]
<1>1. entries \in [{s1} -> {"ABSENT", "PRESENT"}] /\ DOMAIN entries = {s1}
    OBVIOUS
<1>2. {s1} \subseteq Members[DayOf(o)]
    BY <1>1 DEF Mark
<1>3. entries \in Entries(o)
    <2>1. {s1} \in (SUBSET Members[DayOf(o)]) \ {{}}
        BY <1>2
    <2> HIDE DEF entries
    <2> QED BY <1>1, <2>1 DEF Entries
<1>4. o \in Origins
    BY SceneAssumption DEF Origins
<1> QED BY <1>3, <1>4 DEF MakeUpNext

LEMMA MakeUpSteps == OwnMarks \/ OneSeat => MakeUpNext
<1> USE SceneAssumption
<1>1. {r1, g1} \subseteq Origins
    BY DEF Origins
<1>2. 2 \in CreditIds
    BY BoundsAssumption DEF CreditIds
<1>3. ASSUME OwnMarks PROVE MakeUpNext
    <2>1. CASE \E to \in Slots \cup {"AWAY"}, isDated \in BOOLEAN : MoveRow(r1, to, isDated, FALSE)
        BY <2>1 DEF MakeUpNext
    <2>2. CASE DeleteRow(r1) \/ CallOff(r1) \/ RestoreLesson(r1) \/ Scan(s1, r1)
        BY <2>2 DEF MakeUpNext
    <2>3. ASSUME NEW o \in {r1, g1}, NEW reason \in {"ABSENT", "LESSON_CANCELLED"},
                 Issue(s1, o, reason)
          PROVE  MakeUpNext
        BY <1>1, <2>3 DEF MakeUpNext
    <2>4. ASSUME NEW k \in CreditIds,
                 BookLesson(k, r2) \/ \E slot \in Slots : BookSession(k, w2, slot)
          PROVE  MakeUpNext
        BY <2>4 DEF MakeUpNext
    <2> QED BY <1>3, <2>1, <2>2, <2>3, <2>4, DeskSteps, OneMark DEF OwnMarks
<1>4. ASSUME OneSeat PROVE MakeUpNext
    <2>1. CASE \E slot \in Slots : AddRow(r3, slot, TRUE)
        BY <2>1 DEF MakeUpNext
    <2>2. CASE \E r \in Schedules, to \in Slots \cup {"AWAY"}, isDated \in BOOLEAN :
               MoveRow(r, to, isDated, TRUE)
        BY <2>2 DEF MakeUpNext
    <2>3. CASE \E r \in Schedules : DeleteRow(r) \/ CallOff(r) \/ RestoreLesson(r)
        BY <2>3 DEF MakeUpNext
    <2>4. CASE RemoveGroup(g2) \/ RestoreGroup(g2) \/ DayPasses
        BY <2>4 DEF MakeUpNext
    <2>5. CASE \E k \in CreditIds, r \in {r2, r3} : BookLesson(k, r)
        BY <2>5 DEF MakeUpNext
    <2>6. CASE \E slot \in Slots : BookSession(2, w2, slot)
        BY <1>2, <2>6 DEF MakeUpNext
    <2> QED BY <1>4, <2>1, <2>2, <2>3, <2>4, <2>5, <2>6, DeskSteps DEF OneSeat
<1> QED BY <1>3, <1>4

(* Every step is one of each service, or nothing to it. *)
LEMMA StepOfAll ==
    [MCNext]_vars => /\ [SyncNext]_syncVars /\ [SmsNext]_smsVars
                     /\ [CallNext]_callVars /\ [MakeUpNext]_makeUpVars
<1> SUFFICES ASSUME [MCNext]_vars
             PROVE  /\ [SyncNext]_syncVars /\ [SmsNext]_smsVars
                    /\ [CallNext]_callVars /\ [MakeUpNext]_makeUpVars
    OBVIOUS
<1>1. CASE UNCHANGED vars
    BY <1>1 DEF vars
<1>2. CASE MCNext
    BY <1>2, CalendarSteps, SmsSteps, CallSteps, MakeUpSteps DEF MCNext
<1> QED BY <1>1, <1>2

-----------------------------------------------------------------------------
(* Theorems *)

(* Every scene of the run is a run of the calendar, of the SMS budget and of *)
(* phone calls as their modules specify them: nothing is cut off but by      *)
(* choosing some of their steps.                                             *)
THEOREM ScenesAreRuns == MCSpec => SyncSpec /\ SmsSpec /\ CallSpec
<1>1. MCInit => SyncInit /\ SmsInit /\ CallInit
    BY DEF MCInit
<1> QED BY <1>1, StepOfAll, PTL DEF MCSpec, SyncSpec, SmsSpec, CallSpec

(* The scene SEATS starts later in the day than MakeUps does, but from a     *)
(* state its invariant allows.                                               *)
LEMMA SceneBegins == MCInit => MakeUpInv
<1>1. ASSUME BothMissed PROVE MakeUpInv
    <2> USE SchedulesAssumption, BoundsAssumption, SceneAssumption
    <2>1. MakeUpTypeOK
        <3>1. timetable \in [Schedules -> Slots \cup Elsewhere]
            BY <1>1 DEF BothMissed, Elsewhere
        <3>2. marks \in [Students -> [Origins -> {"NONE", "ABSENT", "PRESENT"}]]
            BY <1>1 DEF BothMissed
        <3>3. credits \in [CreditIds -> Credit \cup {NoCredit}]
            BY <1>1 DEF BothMissed, Credit, Origins
        <3>4. /\ bookings \subseteq Booking /\ open \subseteq Groups
              /\ dated \subseteq Schedules /\ calledOff \subseteq Schedules
            BY <1>1 DEF BothMissed
        <3>5. past \in BOOLEAN /\ forced \in BOOLEAN
            BY <1>1 DEF BothMissed
        <3>6. MaxEdits \in Nat /\ edits = 0
            BY <1>1 DEF BothMissed
        <3> QED BY <3>1, <3>2, <3>3, <3>4, <3>5, <3>6 DEF MakeUpTypeOK
    <2>2. CreditsFollowBookings
        BY <1>1 DEF BothMissed, CreditsFollowBookings
    <2>3. GroundInv
        BY <1>1 DEF BothMissed, GroundInv, GroundOf, Origins
    <2>4. bookings = {}
        BY <1>1 DEF BothMissed
    <2> QED BY <2>1, <2>2, <2>3, <2>4, BegunWell
<1> QED BY <1>1, MakeUpBegins DEF MCInit

LEMMA DayHolds == MCSpec => []MakeUpInv
<1> QED BY SceneBegins, StepOfAll, MakeUpStepKeeps, PTL DEF MCSpec

(* Every table of the four services keeps its columns' types, also when all  *)
(* four are in one database, and in a day that begins with credits.          *)
THEOREM ScenesKeepTypes == MCSpec => []TypesOK
<1>1. MakeUpInv => MakeUpTypeOK
    BY DEF MakeUpInv
<1>2. SyncTypeOK /\ SmsTypeOK /\ CallTypeOK /\ MakeUpTypeOK => TypesOK
    BY DEF TypesOK
<1> QED BY <1>1, <1>2, ScenesAreRuns, DayHolds, CalendarTypes, SmsTypeCorrect, CallTypeCorrect, PTL

(* What is promised of each service alone it keeps beside the others, in     *)
(* every scene: calendar, SMS, calls and make-ups share a database and a     *)
(* process and nothing else.                                                 *)
THEOREM ServicesSideBySide ==
    MCSpec => /\ [](LinksHold /\ ToldOfWhatIsLeft /\ NoLostChange)
              /\ [](SmsWithinBudget /\ SmsNeverTwice)
              /\ [](StatusOfEvents /\ LeadToWhoAnswered /\ MarkedOpenedIt)
              /\ [](CallersAreKept /\ NotedOnce)
              /\ [](CreditsFollowBookings /\ CreditHasGround /\ BookingsStand)
<1>1. MCSpec => [](LinksHold /\ ToldOfWhatIsLeft /\ NoLostChange)
    BY ScenesAreRuns, LinksAreHeld, LeftIsTold, ChangesAreSynced, PTL
<1>2. MCSpec => [](SmsWithinBudget /\ SmsNeverTwice)
    BY ScenesAreRuns, BudgetHolds, SentOnce, PTL
<1>3. MCSpec => [](StatusOfEvents /\ LeadToWhoAnswered /\ MarkedOpenedIt)
    BY ScenesAreRuns, StatusIsOfEvents, LeadGoesToWhoAnswered, OpenerIsMarked, PTL
<1>4. MCSpec => [](CallersAreKept /\ NotedOnce)
    BY ScenesAreRuns, CallersKept, NoteIsMadeOnce, PTL
<1>5. MCSpec => [](CreditsFollowBookings /\ CreditHasGround /\ BookingsStand)
    <2>1. MakeUpInv => CreditsFollowBookings /\ CreditHasGround /\ BookingsStand
        BY GroundIsThere DEF MakeUpInv
    <2> QED BY <2>1, DayHolds, PTL
<1> QED BY <1>1, <1>2, <1>3, <1>4, <1>5

(* Also in a day that begins with credits, and beside the other services, a  *)
(* missed lesson is made up at most once: what the run checks of make-ups'   *)
(* credits against Vouchers holds of every instance of its scenes.           *)
THEOREM ScenesImplementVouchers == MCSpec => ImplementsVouchers
<1>1. MCInit => OneCredit /\ Owed!Init
    <2>1. ASSUME BothMissed PROVE OneCredit
        <3>1. \A k \in CreditIds : k = 1 \/ k = 2
            BY SceneAssumption DEF CreditIds
        <3>2. \A k \in CreditIds : credits[k].student = IF k = 1 THEN s1 ELSE s2
            BY <2>1 DEF BothMissed
        <3> QED BY <3>1, <3>2, SceneAssumption DEF OneCredit
    <2>2. MakeUpInit => OneCredit
        BY DEF MakeUpInit, OneCredit
    <2>3. MakeUpInit \/ BothMissed =>
            /\ bookings = {}
            /\ \A k \in CreditIds : credits[k] # NoCredit => credits[k].status = "ISSUED"
        BY DEF MakeUpInit, BothMissed
    <2>4. MCInit => MakeUpInit \/ BothMissed
        BY DEF MCInit
    <2>5. MakeUpInv => MakeUpTypeOK
        BY DEF MakeUpInv
    <2> QED BY <2>1, <2>2, <2>3, <2>4, <2>5, SceneBegins, VouchersBegin
<1> QED BY <1>1, StepOfAll, MakeUpStepOwes, DayHolds, PTL DEF MCSpec, ImplementsVouchers, Owed!Spec
===============================================================================
