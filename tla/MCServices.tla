----------------------------- MODULE MCServices -----------------------------
(***************************************************************************)
(* Small instances of four services that share no state - the calendar,    *)
(* the SMS budget, phone calls and make-up lessons - in one run: the       *)
(* scene, chosen in the initial state, says which of them is at work, so   *)
(* that the sizes add up.                                                  *)
(***************************************************************************)
EXTENDS CalendarSync, SmsBudget, CallIngest, MakeUps, TLC

CONSTANTS y1, y2, t1, a1, a2, l1,            \* calendar
          x1, x2, h1, h2, z1, z2,            \* SMS
          c1, c2, c3, c4, n1, n2, m1, m2, e1, e2, d1, d2,  \* calls
          s1, s2, g1, g2, r1, r2, r3, w1, w2, am, pm      \* make-ups

(* What the scenes name is of these sets. *)
ASSUME SceneAssumption ==
    /\ a1 \in Accounts
    /\ {x1, x2} \subseteq Centers /\ h1 \in MessageKeys
    /\ c1 \in Calls /\ n1 \in Numbers /\ m1 \in Users
    /\ {s1, s2} \subseteq Students /\ s1 # s2 /\ {g1, g2} \subseteq Groups
    /\ {r1, r2, r3} \subseteq Schedules /\ w2 \in Teachers /\ MaxCredits = 2

VARIABLE scene

vars == <<syncVars, smsVars, callVars, makeUpVars, scene>>

-----------------------------------------------------------------------------
(* The calendar: lessons change, or accounts do. *)

FinishesRequest(t) ==
    \/ \E answer \in Answers : Look(t, answer)
    \/ LookAgain(t) \/ Connect(t) \/ Unverified(t) \/ Wait(t) \/ Reconnect(t)
    \/ Disconnect(t) \/ Dismiss(t) \/ SetCalendar(t)
    \/ \E auth \in BOOLEAN : ListFailed(t, auth)

Pollers ==
    \/ Lapse
    \/ \E w \in Syncers : Sync(w) \/ Clean(w) \/ Dies(w)
    \/ \E t \in Tabs : FinishesRequest(t) \/ AskList(t)

LessonChanges ==
    \/ \E l \in Lessons, content \in 0..MaxContent : Change(l, content)
    \/ MarkDirty \/ RequestSync
    \/ \E t \in Tabs : /\ clock = 0 \/ conn.status = "NEEDS_RECONNECT"
                       /\ Arrive(t, a1, TRUE)
    \/ \E t \in Tabs, name \in Names : AskCalendar(t, name)

AccountChanges ==
    /\ clock < MaxClock - 1
    /\ \E t \in Tabs :
         \/ \E a \in Accounts, named \in BOOLEAN : Arrive(t, a, named)
         \/ AskDisconnect(t) \/ AskDismiss(t)

-----------------------------------------------------------------------------
(* SMS: two messages over the turn of a month, or three keys within it. *)

Sends ==
    \E s \in Senders :
        \/ LookSms(s) \/ TakeSms(s) \/ SettleSms(s)
        \/ send[s].phase \in {"CALL", "SETTLE"} /\ SenderDies(s)
        \/ \E gone \in BOOLEAN, result \in {"SENT", "FAILED", "UNKNOWN"} :
             CallProvider(s, gone, result)

OverMonths ==
    \/ MonthTurns
    \/ \E s \in Senders, x \in Centers : BeginSend(s, <<x, h1>>, TRUE)

WithKeys ==
    \E s \in Senders :
        \/ \E h \in MessageKeys : BeginSend(s, <<x1, h>>, TRUE)
        \/ BeginSend(s, <<x2, h1>>, FALSE)

-----------------------------------------------------------------------------
(* Calls: one that rings at e1 and is taken at e2, or a few events of several. *)

MCNumberOf == [c \in Calls |-> IF c = c4 THEN n2 ELSE n1]
MCUserOf == [e \in Extensions |-> IF e = e1 THEN m1 ELSE m2]

Handles ==
    \/ \E d \in Requests :
         \/ Match(d) \/ Open(d) \/ LinkCall(d) \/ Assign(d) \/ Note(d) \/ Answered(d)
         \/ RequestFails(d)
    \/ StaffOpens(n1, m1)

AtE2(e) == e.ext \in {e2, NoExtension}

AnyEvent ==
    \E d \in Requests, e \in EventsOf(c1) :
        /\ IF e.kind \in {"RING", "LEG"} THEN e.ext = e1 ELSE AtE2(e)
        /\ Receive(d, c1, e)

OfSeveral ==
    /\ Cardinality(Received) < 3
    /\ \E d \in Requests, c \in Calls : \E e \in EventsOf(c) :
         e.kind \in {"START", "ANSWER", "END"} /\ AtE2(e) /\ Receive(d, c, e)

-----------------------------------------------------------------------------
(* Make-ups: one student's marks and credits while his own lesson moves, or *)
(* two credits for one seat while every lesson does.                        *)

MCGroupOf == r1 :> g1 @@ r2 :> g2 @@ r3 :> g2
MCTeacherOf == g1 :> w1 @@ g2 :> w2
MCPlanned == r1 :> am @@ r2 :> pm @@ r3 :> "UNMADE"
MCMembers == g1 :> {s1, s2} @@ g2 :> {}
MCFreeSeats == g1 :> 0 @@ g2 :> 1

AtDesk ==
    \/ \E k \in CreditIds : CancelCredit(k) \/ Reinstate(k)
    \/ \E b \in bookings :
         CancelBooking(b) \/ \E status \in {"ATTENDED", "MISSED"} : MarkBooking(b, status)

OwnMarks ==
    \/ AtDesk
    \/ \E to \in Slots \cup {"AWAY"}, isDated \in BOOLEAN : MoveRow(r1, to, isDated, FALSE)
    \/ DeleteRow(r1) \/ CallOff(r1) \/ RestoreLesson(r1)
    \/ Scan(s1, r1)
    \/ \E o \in {r1, g1} :
         \/ \E mark \in {"ABSENT", "PRESENT"} : Mark(o, [s \in {s1} |-> mark])
         \/ \E reason \in {"ABSENT", "LESSON_CANCELLED"} : Issue(s1, o, reason)
    \/ \E k \in CreditIds : BookLesson(k, r2) \/ \E slot \in Slots : BookSession(k, w2, slot)

OneSeat ==
    \/ AtDesk
    \/ \E slot \in Slots : AddRow(r3, slot, TRUE)
    \/ \E r \in Schedules, to \in Slots \cup {"AWAY"}, isDated \in BOOLEAN :
         (r = r2 \/ isDated = (r \in dated)) /\ MoveRow(r, to, isDated, TRUE)
    \/ \E r \in Schedules : DeleteRow(r) \/ CallOff(r) \/ RestoreLesson(r)
    \/ RemoveGroup(g2) \/ RestoreGroup(g2)
    \/ \E k \in CreditIds, r \in {r2, r3} : BookLesson(k, r)
    \/ \E slot \in Slots : BookSession(2, w2, slot)
    \/ DayPasses

(* Both missed r1's lesson, and have a credit for it. *)
BothMissed ==
    /\ timetable = Planned /\ dated = OneOff /\ calledOff = {} /\ open = Groups /\ bookings = {}
    /\ marks = [s \in Students |-> [o \in Origins |-> IF o = r1 THEN "ABSENT" ELSE "NONE"]]
    /\ credits = [k \in CreditIds |->
         [student |-> IF k = 1 THEN s1 ELSE s2, origin |-> r1, reason |-> "ABSENT",
          status |-> "ISSUED", pardoned |-> FALSE]]
    /\ past = FALSE /\ forced = FALSE /\ edits = 0

-----------------------------------------------------------------------------
MCInit ==
    /\ SyncInit /\ SmsInit /\ CallInit
    /\ \/ /\ MakeUpInit
          /\ scene \in {"LESSONS", "ACCOUNTS", "MONTHS", "KEYS", "CALL", "CALLS", "MARKS"}
       \/ BothMissed /\ scene = "SEATS"

MCNext ==
    /\ UNCHANGED scene
    /\ \/ /\ scene = "LESSONS" /\ (Pollers \/ LessonChanges)
          /\ UNCHANGED <<smsVars, callVars, makeUpVars>>
       \/ /\ scene = "ACCOUNTS" /\ (Pollers \/ AccountChanges)
          /\ UNCHANGED <<smsVars, callVars, makeUpVars>>
       \/ /\ scene = "MONTHS" /\ (Sends \/ OverMonths)
          /\ UNCHANGED <<syncVars, callVars, makeUpVars>>
       \/ /\ scene = "KEYS" /\ (Sends \/ WithKeys)
          /\ UNCHANGED <<syncVars, callVars, makeUpVars>>
       \/ /\ scene = "CALL" /\ (Handles \/ AnyEvent)
          /\ UNCHANGED <<syncVars, smsVars, makeUpVars>>
       \/ /\ scene = "CALLS" /\ (Handles \/ OfSeveral) /\ failures' = 0
          /\ UNCHANGED <<syncVars, smsVars, makeUpVars>>
       \/ /\ scene = "MARKS" /\ OwnMarks /\ UNCHANGED <<syncVars, smsVars, callVars>>
       \/ /\ scene = "SEATS" /\ OneSeat /\ UNCHANGED <<syncVars, smsVars, callVars>>

MCSpec == MCInit /\ [][MCNext]_vars

MCFairSpec == MCSpec /\ SyncFairness

(* Every table of the four services keeps its columns' types: their type    *)
(* invariants.                                                              *)
TypesOK == SyncTypeOK /\ SmsTypeOK /\ CallTypeOK /\ MakeUpTypeOK
=============================================================================
