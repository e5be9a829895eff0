------------------------------ MODULE TrialPurge ------------------------------
(***************************************************************************)
(* An unpaid trial that ended long ago is deleted, after two notices to    *)
(* the people who run the center (backend/src/trial), by passes of several *)
(* processes, while the platform admin extends the trial and the center    *)
(* pays.  One center; TRIAL_PURGE is on.                                   *)
(*                                                                         *)
(* A pass compares everything with the time it began (at), however long it *)
(* runs; a mail leaves when the pass comes to it, at the clock's time.     *)
(* Each statement to the database and each mail is a step; a transaction   *)
(* is one step.  A day of the code is some ticks of the model.             *)
(* The owners and admins of the center do not change.  Once the center is  *)
(* deleted nothing is left to model: no action is enabled.                 *)
(***************************************************************************)
EXTENDS Integers, FiniteSets

CONSTANTS
    Workers,       \* server processes
    Recipients,    \* owners and admins with an address
    Ends,          \* trial ends the admin may set
    AdminStatuses, \* statuses the admin sets the center to
    PurgeAfter,    \* TRIAL_PURGE_DAYS
    Lead,          \* 14 days: the first notice
    LastLead,      \* 7 days: the last notice
    LastGap,       \* 6 days between the last notice and the deletion
    Lock,          \* LOCK_MS
    RetryDelay,    \* 10 minutes, doubled at each attempt
    MaxAttempts,   \* MAX_ATTEMPTS
    MaxTime, MaxCycles,
    MaxFaults      \* bounds of the model: passes that fail or are slow

ASSUME TrialAssumption ==
    /\ {PurgeAfter, Lead, LastLead, LastGap, Lock, RetryDelay,
        MaxTime, MaxCycles, MaxFaults} \subseteq Nat
    /\ MaxAttempts \in Nat \ {0}
    /\ AdminStatuses \subseteq {"TRIAL", "ACTIVE"}
    /\ Ends \subseteq Nat /\ Ends # {}
    /\ IsFiniteSet(Recipients) /\ Recipients # {}
    /\ LastGap <= LastLead /\ LastLead <= Lead

VARIABLES
    now,      \* the clock
    center,   \* the tenants row, and whether a PAID platform invoice exists
    notices,  \* trial_notices: one row per kind and recipient
    pass,     \* what the pass of a process has read and is about to do
    cycles,   \* rows made before a reset are other rows than those after it
    told,     \* external: the last mail of a kind that reached a recipient
    faults    \* bound of the model

vars == <<now, center, notices, pass, cycles, told, faults>>

-----------------------------------------------------------------------------
Unset == -1   \* NULL

Kinds == {"FIRST", "FINAL"}

Dates == Nat \cup {Unset}

Centers == [status : {"TRIAL", "ACTIVE", "DELETED"}, paid : BOOLEAN, ends : Dates,
            on : Dates, basis : Dates, FIRST : Dates, FINAL : Dates]

(* center.FIRST and center.FINAL are trialWarnedAt and trialFinalWarnedAt. *)
NoCycle(c) ==
    [c EXCEPT !.on = Unset, !.basis = Unset, !.FIRST = Unset, !.FINAL = Unset]

Notices == [status : {"NONE", "PENDING", "SENDING", "ACCEPTED", "FAILED"},
            attempts : Nat, next : Nat, locked : Dates, accepted : Dates, id : Nat]

NoRow == [status |-> "NONE", attempts |-> 0, next |-> 0, locked |-> Unset,
          accepted |-> Unset, id |-> 0]

Mails == [kind : Kinds, to : Recipients, id : Nat, attempts : Nat, names : Dates,
          ok : BOOLEAN]

Phases == {"IDLE", "RESET", "BEGIN", "DUE", "CLAIM", "NAME", "SEND", "RECORD",
           "LOOK", "STAMP", "MARK", "FRESH", "LAST", "DELETE"}

(* ends: the trial end the scan read; final: the pass's second delivery;   *)
(* kind, stamp: the kind looked at, and the time it was accepted.          *)
Resting == [phase |-> "IDLE", at |-> 0, ends |-> 0, final |-> FALSE, todo |-> {},
            mail |-> {}, kind |-> "FIRST", stamp |-> Unset]

(* A mail as it was received: when it left, when its pass had begun, and    *)
(* the purge date it named.                                                *)
Received == [at : Nat, began : Nat, on : Dates, id : Nat]

NoMail == [at |-> 0, began |-> 0, on |-> Unset, id |-> 0]

Init ==
    /\ now = 0
    /\ center \in {NoCycle([status |-> "TRIAL", paid |-> FALSE, ends |-> e, on |-> Unset,
                            basis |-> Unset, FIRST |-> Unset, FINAL |-> Unset]) : e \in Ends}
    /\ notices = [k \in Kinds |-> [r \in Recipients |-> NoRow]]
    /\ pass = [w \in Workers |-> Resting]
    /\ cycles = 0
    /\ told = [k \in Kinds |-> [r \in Recipients |-> NoMail]]
    /\ faults = 0

Later(a, b) == IF a > b THEN a ELSE b

Exists == center.status # "DELETED"

-----------------------------------------------------------------------------
(* run: which centers, and what to do with this one *)

Candidate ==
    /\ center.status = "TRIAL"
    /\ center.ends # Unset
    /\ center.ends <= now - PurgeAfter + Lead \/ center.on # Unset
    /\ ~center.paid

Extended == center.basis # Unset /\ center.basis # center.ends

Scan(w) ==
    /\ pass[w].phase = "IDLE"
    /\ Candidate
    /\ pass' = [pass EXCEPT ![w] = [Resting EXCEPT
                    !.at = now, !.ends = center.ends,
                    !.phase = IF Extended THEN "RESET"
                              ELSE IF center.on = Unset THEN "BEGIN" ELSE "DUE"]]
    /\ UNCHANGED <<now, center, notices, cycles, told, faults>>

(* resetCycle: the trial was extended, so the cycle ends. *)
Reset(w) ==
    /\ Exists /\ pass[w].phase = "RESET"
    /\ notices' = [k \in Kinds |-> [r \in Recipients |-> NoRow]]
    /\ center' = NoCycle(center)
    /\ cycles' = cycles + 1
    /\ pass' = [pass EXCEPT ![w] = Resting]
    /\ UNCHANGED <<now, told, faults>>

(* A row per recipient, unless it is there. *)
Inserted(kind, at) ==
    [notices EXCEPT ![kind] = [r \in Recipients |->
        IF @[r].status # "NONE" THEN @[r]
        ELSE [NoRow EXCEPT !.status = "PENDING", !.next = at, !.id = cycles]]]

PurgeDate(w) == Later(pass[w].ends + PurgeAfter, pass[w].at + Lead)

(* The date is set and the first notice queued - by one of the workers. *)
Begin(w) ==
    /\ Exists /\ pass[w].phase = "BEGIN"
    /\ IF center.on = Unset
       THEN /\ center' = [NoCycle(center) EXCEPT !.on = PurgeDate(w), !.basis = pass[w].ends]
            /\ notices' = Inserted("FIRST", pass[w].at)
       ELSE UNCHANGED <<center, notices>>
    /\ pass' = [pass EXCEPT ![w].phase = "DUE"]
    /\ UNCHANGED <<now, cycles, told, faults>>

-----------------------------------------------------------------------------
(* deliverDue *)

DueFor(n, at) ==
    /\ n.next <= at
    /\ n.status = "PENDING" \/ (n.status = "SENDING" /\ n.locked < at)

Due(w) ==
    LET due == {k \in Kinds \X Recipients : DueFor(notices[k[1]][k[2]], pass[w].at)}
        todo == {<<k[1], k[2], notices[k[1]][k[2]].id>> : k \in due} IN
    /\ Exists /\ pass[w].phase = "DUE"
    /\ pass' = [pass EXCEPT ![w].phase = IF todo = {} THEN "LOOK" ELSE "CLAIM",
                            ![w].todo = todo, ![w].kind = "FIRST"]
    /\ UNCHANGED <<now, center, notices, cycles, told, faults>>

(* The next notice of the list, or the end of it. *)
Onward(p, row) ==
    LET todo == p.todo \ {row} IN
    [p EXCEPT !.todo = todo, !.mail = {}, !.phase = IF todo = {} THEN "LOOK" ELSE "CLAIM"]

(* The update's condition: status and lock again, for another may have it. *)
MayClaim(n, at) == n.status = "PENDING" \/ (n.status = "SENDING" /\ n.locked < at)

Claim(w) == \E row \in pass[w].todo :
    LET kind == row[1]
        r == row[2]
        n == notices[kind][r] IN
    /\ Exists /\ pass[w].phase = "CLAIM"
    /\ IF n.id = row[3] /\ MayClaim(n, pass[w].at)
       THEN /\ notices' = [notices EXCEPT ![kind][r] =
                             [n EXCEPT !.status = "SENDING", !.attempts = @ + 1,
                                       !.locked = pass[w].at + Lock]]
            /\ pass' = [pass EXCEPT ![w].phase = "NAME",
                          ![w].mail = {[kind |-> kind, to |-> r, id |-> n.id,
                                        attempts |-> n.attempts + 1, names |-> Unset,
                                        ok |-> FALSE]}]
       ELSE /\ pass' = [pass EXCEPT ![w] = Onward(@, row)]
            /\ UNCHANGED notices
    /\ UNCHANGED <<now, center, cycles, told, faults>>

(* Mutant: the last notice names the date of the row, however soon. *)
NamesTheRow(w, kind) == center.on

(* greatest() leaves NULL out: the date of a cancelled cycle becomes later. *)
NamedDate(w, kind) ==
    IF kind = "FINAL" THEN Later(center.on, pass[w].at + LastLead) ELSE center.on

(* The date the mail names is the date the system acts on. *)
Name(w) == \E m \in pass[w].mail :
    /\ Exists /\ pass[w].phase = "NAME"
    /\ center' = [center EXCEPT !.on = NamedDate(w, m.kind)]
    /\ pass' = [pass EXCEPT ![w] =
                  IF NamedDate(w, m.kind) = Unset THEN Onward(@, <<m.kind, m.to, m.id>>)
                  ELSE [@ EXCEPT !.phase = "SEND",
                                 !.mail = {[m EXCEPT !.names = NamedDate(w, m.kind)]}]]
    /\ UNCHANGED <<now, notices, cycles, told, faults>>

(* The provider accepts the mail or not; one that is accepted arrives, and *)
(* one whose answer was lost may have arrived too.  It leaves now, however *)
(* long ago the pass began that reckoned the date it names.                *)
Send(w, ok, arrives) == \E m \in pass[w].mail :
    /\ Exists /\ pass[w].phase = "SEND"
    /\ ok => arrives
    /\ pass' = [pass EXCEPT ![w].phase = "RECORD", ![w].mail = {[m EXCEPT !.ok = ok]}]
    /\ told' = IF arrives
               THEN [told EXCEPT ![m.kind][m.to] =
                       [at |-> now, began |-> pass[w].at, on |-> m.names, id |-> m.id]]
               ELSE told
    /\ UNCHANGED <<now, center, notices, cycles, faults>>

(* Mutant: the next try is reckoned backwards. *)
TriesBefore(at, attempts) == at - RetryDelay * 2 ^ (attempts - 1)

NextTry(at, attempts) == at + RetryDelay * 2 ^ (attempts - 1)

(* By the row's id alone. *)
Record(w) == \E m \in pass[w].mail :
    LET n == notices[m.kind][m.to]
        result == IF m.ok
                  THEN [n EXCEPT !.status = "ACCEPTED", !.accepted = pass[w].at,
                                 !.locked = Unset]
                  ELSE [n EXCEPT !.status = IF m.attempts >= MaxAttempts THEN "FAILED"
                                            ELSE "PENDING",
                                 !.locked = Unset,
                                 !.next = NextTry(pass[w].at, m.attempts)] IN
    /\ Exists /\ pass[w].phase = "RECORD"
    /\ notices' = IF n.status # "NONE" /\ n.id = m.id
                  THEN [notices EXCEPT ![m.kind][m.to] = result] ELSE notices
    /\ pass' = [pass EXCEPT ![w] = Onward(@, <<m.kind, m.to, m.id>>)]
    /\ UNCHANGED <<now, center, cycles, told, faults>>

(* A kind counts as told once every recipient's copy was accepted: whether *)
(* it was, when that was, and the mark are three statements.               *)
NextKind(p) ==
    IF p.kind = "FIRST" THEN [p EXCEPT !.phase = "LOOK", !.kind = "FINAL", !.stamp = Unset]
                        ELSE [p EXCEPT !.phase = "FRESH", !.kind = "FIRST", !.stamp = Unset]

(* Mutant: one accepted copy is enough. *)
SomeAccepted(kind) == \E r \in Recipients : notices[kind][r].status = "ACCEPTED"

AllAccepted(kind) ==
    LET rows == {r \in Recipients : notices[kind][r].status # "NONE"} IN
    rows # {} /\ \A r \in rows : notices[kind][r].status = "ACCEPTED"

AcceptedAt(kind) ==
    LET dates == {notices[kind][r].accepted : r \in Recipients} IN
    CHOOSE d \in dates : \A e \in dates : e <= d

Look(w) ==
    /\ Exists /\ pass[w].phase = "LOOK"
    /\ pass' = [pass EXCEPT ![w] = IF AllAccepted(@.kind) THEN [@ EXCEPT !.phase = "STAMP"]
                                   ELSE NextKind(@)]
    /\ UNCHANGED <<now, center, notices, cycles, told, faults>>

(* Rows that are gone by now have no date: the pass's own is taken. *)
Stamp(w) ==
    LET date == AcceptedAt(pass[w].kind) IN
    /\ Exists /\ pass[w].phase = "STAMP"
    /\ pass' = [pass EXCEPT ![w].phase = "MARK",
                            ![w].stamp = IF date = Unset THEN pass[w].at ELSE date]
    /\ UNCHANGED <<now, center, notices, cycles, told, faults>>

Mark(w) ==
    LET kind == pass[w].kind IN
    /\ Exists /\ pass[w].phase = "MARK"
    /\ center' = IF center[kind] = Unset THEN [center EXCEPT ![kind] = pass[w].stamp] ELSE center
    /\ pass' = [pass EXCEPT ![w] = NextKind(@)]
    /\ UNCHANGED <<now, notices, cycles, told, faults>>

-----------------------------------------------------------------------------
(* run, after a delivery: the center is read again *)

(* A date that is NULL is never early (null < date), and stops the pass    *)
(* where it is reckoned with.                                              *)
AfterDelivery(w) ==
    LET p == pass[w] IN
    IF center.FIRST = Unset /\ ~p.final THEN "IDLE"
    ELSE IF center.FINAL # Unset THEN (IF p.at < center.on THEN "IDLE" ELSE "DELETE")
    ELSE IF p.final \/ center.on = Unset \/ p.at < center.on - LastLead THEN "IDLE"
    ELSE "LAST"

Fresh(w) ==
    /\ Exists /\ pass[w].phase = "FRESH"
    /\ pass' = [pass EXCEPT ![w] = IF AfterDelivery(w) = "IDLE" THEN Resting
                                   ELSE [@ EXCEPT !.phase = AfterDelivery(w)]]
    /\ UNCHANGED <<now, center, notices, cycles, told, faults>>

(* The last notice is queued, and delivered in the same pass. *)
Last(w) ==
    /\ Exists /\ pass[w].phase = "LAST"
    /\ notices' = Inserted("FINAL", pass[w].at)
    /\ pass' = [pass EXCEPT ![w].phase = "DUE", ![w].final = TRUE]
    /\ UNCHANGED <<now, center, cycles, told, faults>>

(* Mutant: the pass trusts what it read before the lock. *)
NotAskedAgain(at) == TRUE

StillDue(at) ==
    /\ center.status = "TRIAL" /\ ~center.paid
    /\ center.ends # Unset /\ center.basis = center.ends
    /\ center.on # Unset /\ center.on <= at
    /\ center.FIRST # Unset /\ center.FINAL # Unset
    /\ at - center.FINAL >= LastGap

DeleteIfStillDue(w) ==
    /\ Exists /\ pass[w].phase = "DELETE"
    /\ center' = IF StillDue(pass[w].at) THEN [center EXCEPT !.status = "DELETED"] ELSE center
    /\ pass' = [pass EXCEPT ![w] = Resting]
    /\ UNCHANGED <<now, notices, cycles, told, faults>>

-----------------------------------------------------------------------------
(* Everybody else *)

(* updateSubscription: another trial end, or none. *)
Extend(e) ==
    /\ Exists /\ cycles < MaxCycles
    /\ e # center.ends
    /\ center' = [center EXCEPT !.ends = e]
    /\ UNCHANGED <<now, notices, pass, cycles, told, faults>>

(* updateSubscription: another status. *)
SetStatus(status) ==
    /\ Exists
    /\ center' = [center EXCEPT !.status = status]
    /\ UNCHANGED <<now, notices, pass, cycles, told, faults>>

(* applyPayment *)
Pay ==
    /\ Exists
    /\ center' = [center EXCEPT !.status = "ACTIVE", !.paid = TRUE]
    /\ UNCHANGED <<now, notices, pass, cycles, told, faults>>

(* The process dies, or a statement fails and the pass with it. *)
PassFails(w) ==
    /\ Exists /\ faults < MaxFaults
    /\ pass[w].phase # "IDLE"
    /\ pass' = [pass EXCEPT ![w] = Resting]
    /\ faults' = faults + 1
    /\ UNCHANGED <<now, center, notices, cycles, told>>

(* Time goes on; over a pass that is under way only as one of the faults. *)
Tick ==
    /\ Exists /\ now < MaxTime
    /\ now' = now + 1
    /\ IF \A w \in Workers : pass[w].phase = "IDLE" THEN UNCHANGED faults
       ELSE faults < MaxFaults /\ faults' = faults + 1
    /\ UNCHANGED <<center, notices, pass, cycles, told>>

-----------------------------------------------------------------------------
Work(w) ==
    \/ Scan(w) \/ Reset(w) \/ Begin(w)
    \/ Due(w)
    \/ Claim(w) \/ Name(w)
    \/ \E ok, arrives \in BOOLEAN : Send(w, ok, arrives)
    \/ Record(w)
    \/ Look(w) \/ Stamp(w) \/ Mark(w)
    \/ Fresh(w) \/ Last(w) \/ DeleteIfStillDue(w)

Next ==
    \/ \E w \in Workers : Work(w) \/ PassFails(w)
    \/ \E e \in Ends \cup {Unset} : Extend(e)
    \/ \E status \in AdminStatuses : SetStatus(status)
    \/ Pay
    \/ Tick

Spec == Init /\ [][Next]_vars

-----------------------------------------------------------------------------
(* Properties *)

Deleted == Exists /\ center'.status = "DELETED"

(* The types of the variables. *)
TypeOK ==
    /\ now \in Nat
    /\ center \in Centers
    /\ notices \in [Kinds -> [Recipients -> Notices]]
    /\ \A w \in Workers :
         /\ pass[w].phase \in Phases
         /\ pass[w].at \in Nat
         /\ pass[w].mail \subseteq Mails
         /\ pass[w].stamp \in Dates
    /\ told \in [Kinds -> [Recipients -> Received]]

(* How long after the start of its pass a mail left. *)
Late(mail) == mail.at - mail.began

AsTold(mail) ==
    /\ mail.on # Unset /\ mail.on <= now
    /\ mail.at + LastLead <= mail.on + Late(mail)

(* Nobody loses the center before the date the last mail to him named -    *)
(* though every failed attempt, other worker and slow pass may move it     *)
(* (deliverDue moves it before the mail that names it; deleteIfStillDue    *)
(* waits for it) - and that date was a week off when the mail left, or     *)
(* less by no more than the mail was late in its pass: the code reckons    *)
(* the week from the start of the pass, so that a slow one falls short of  *)
(* the "7 days before the deletion date" of the class comment.             *)
DeletedAsTold ==
    [][Deleted => \A r \in Recipients : AsTold(told["FINAL"][r])]_vars

(* Every owner and admin has had both notices of the cycle the center is   *)
(* deleted in: "the waiting periods count from accepted notices only" (the *)
(* class comment), and an extension of the trial starts a new cycle.       *)
ToldInThisCycle ==
    [][Deleted => \A r \in Recipients, k \in Kinds :
         told[k][r].on # Unset /\ told[k][r].id = cycles]_vars

(* A center that paid, or that the admin took off its trial, is not        *)
(* deleted, whenever it was that a pass found it due: deleteIfStillDue     *)
(* asks again under the row lock.                                          *)
PaidIsKept == [][Deleted => ~center.paid /\ center.status = "TRIAL"]_vars

(* A purge date belongs to a cycle: resetCycle clears both, and a mail     *)
(* under way then sees that "the cycle was cancelled meanwhile".           *)
CancelledStaysCancelled == center.on # Unset => center.basis # Unset
=============================================================================
