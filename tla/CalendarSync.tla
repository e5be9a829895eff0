----------------------------- MODULE CalendarSync -----------------------------
(***************************************************************************)
(* A user's lessons are written into a Google calendar of theirs           *)
(* (backend/src/calendar): by workers (the pollers of several processes,   *)
(* and the clean-up a request does itself) that take the connection's      *)
(* lease, while the user disconnects, reconnects with the same or another  *)
(* account and chooses another calendar, lessons change, answers of Google *)
(* are lost, workers die, and a stalled one loses its lease.               *)
(*                                                                         *)
(* Each statement to the database and each call to Google is a step; reads *)
(* that follow each other are one.  Time is left out: a retry's waiting    *)
(* time may have passed, the six hours to the next full sync as well.      *)
(* Lessons are inside the window of dates, and nobody edits our events in  *)
(* Google.                                                                 *)
(***************************************************************************)
EXTENDS Integers, FiniteSets

CONSTANTS
    Syncers,       \* workers, each with the token of its lease
    Tabs,          \* requests of the user, each in a browser tab
    Accounts,      \* Google accounts; the primary calendar of each is "primary"
    WorkOf,        \* the account that has a calendar "work" too
    Lessons,
    NoAccount, NoSyncer,
    MaxContent,    \* bounds of the model: contents of a lesson,
    MaxConns,      \* rows the connection may have had,
    MaxClock,      \* the user's operations and changes,
    MaxSyncFaults  \* lost or failed calls, deaths and stalls

ASSUME SyncAssumption ==
    /\ NoAccount \notin Accounts /\ NoSyncer \notin Syncers
    /\ WorkOf \in Accounts
    /\ IsFiniteSet(Lessons)
    /\ {MaxContent, MaxConns, MaxClock, MaxSyncFaults} \subseteq Nat /\ MaxContent > 0

VARIABLES
    conn,       \* the calendar_connections row of the user
    links,      \* its calendar_event_links
    shown,      \* external: the content of our events in Google, 0 for none
    wanted,     \* the content of each lesson, 0 for one that is not to be shown
    unmarked,   \* a writer changed a lesson and has not called markTenantDirty yet
    job,        \* what each worker has read and is about to do
    tab,        \* the requests under way
    clock,      \* orders the requests to sync
    adrift,     \* events whose last write was not recorded - a lost answer, a death -
                \* or whose links outlived the switch to another account: a death there
    crowded,    \* a worker (the lease had run out, or a failed list had freed it), or
                \* another account's grant, came while one was between a check of the
                \* lease and the record of its write
    counted,    \* events the user is, or was, told they must remove by hand
    mishaps

syncVars == <<conn, links, shown, wanted, unmarked, job, tab, clock, adrift, crowded,
              counted, mishaps>>

-----------------------------------------------------------------------------
Names == {"primary", "work"}

Has(account, name) == name = "primary" \/ account = WorkOf

(* An event: the id Google knows it by is made of the row's id and the lesson. *)
Places == Accounts \X Names \X (1..MaxConns) \X Lessons

NoLink == [cal |-> "none", content |-> 0, by |-> NoAccount]

Unlinked == [l \in Lessons |-> NoLink]

Linked == {l \in Lessons : links[l] # NoLink}

Statuses == {"NONE", "ACTIVE", "NEEDS_RECONNECT", "DISCONNECTING", "CLEANUP_FAILED"}

(* key: the account on record, when Google named it; grant: whose tokens the row *)
(* has; next: the grant that waits; asked: syncRequestedAt.                      *)
Conns == [id : 0..MaxConns, status : Statuses, key : Accounts \cup {NoAccount},
          grant : Accounts \cup {NoAccount}, next : Accounts \cup {NoAccount}, cal : Names,
          epoch : Nat, asked : Nat, leftover : Nat, lease : Syncers \cup {NoSyncer},
          lapsed : BOOLEAN]

NoConn(id) == [id |-> id, status |-> "NONE", key |-> NoAccount, grant |-> NoAccount,
               next |-> NoAccount, cal |-> "primary", epoch |-> 0, asked |-> 0,
               leftover |-> 0, lease |-> NoSyncer, lapsed |-> FALSE]

Exists(id) == conn.status # "NONE" /\ conn.id = id

AnyLesson == CHOOSE l \in Lessons : TRUE

(* under: the status the worker claimed the row in; the row as it was then; *)
(* left: how many events a clean-up gives up; next: the grant it read last.  *)
Idle == [phase |-> "IDLE", under |-> "ACTIVE", id |-> 0, epoch |-> 0,
         grant |-> NoAccount, cal |-> "primary", asked |-> 0,
         plan |-> [l \in Lessons |-> 0], links |-> Unlinked, lesson |-> AnyLesson,
         auth |-> FALSE, left |-> 0, next |-> NoAccount]

(* What a request compares, or keeps, of the row it read. *)
Seen(c) == [id |-> c.id, status |-> c.status, epoch |-> c.epoch, key |-> c.key, next |-> c.next]

(* lease: the token of the row read, for a list of calendars. *)
NoTab == [kind |-> "NONE", account |-> NoAccount, named |-> FALSE, cal |-> "primary",
          seen |-> Seen(NoConn(0)), lease |-> NoSyncer, verdict |-> "NONE", tries |-> 0]

SyncInit ==
    /\ conn = NoConn(0)
    /\ links = Unlinked
    /\ shown = [p \in Places |-> 0]
    /\ wanted = [l \in Lessons |-> 1]
    /\ unmarked = FALSE
    /\ job = [w \in Syncers |-> Idle]
    /\ tab = [t \in Tabs |-> NoTab]
    /\ clock = 0
    /\ adrift = {}
    /\ crowded = FALSE
    /\ counted = 0
    /\ mishaps = 0

-----------------------------------------------------------------------------
(* The lease *)

(* Between its check of the lease and the record of what it wrote. *)
Mid(w) == job[w].phase \in {"DELETE", "UNLINK", "PUT", "LINK", "FORGET"}

(* Mutant: a lease that ran out keeps others away. *)
FreeOnly == conn.lease = NoSyncer

Free == conn.lease = NoSyncer \/ conn.lapsed

(* Each claim draws a new token: a list that saw an earlier one of this     *)
(* worker's matches nothing any more.                                      *)
Outdated(w) ==
    [t \in Tabs |-> IF tab[t].kind = "LIST" /\ tab[t].lease = w THEN NoTab ELSE tab[t]]

Claim(w, status) ==
    /\ job[w].phase = "IDLE"
    /\ conn.status = status
    /\ Free
    /\ conn' = [conn EXCEPT !.lease = w, !.lapsed = FALSE]
    /\ job' = [job EXCEPT ![w] = [Idle EXCEPT !.phase = "READ", !.under = status,
                    !.id = conn.id, !.epoch = conn.epoch, !.grant = conn.grant,
                    !.cal = conn.cal, !.asked = conn.asked]]
    /\ tab' = Outdated(w)
    /\ crowded' = (crowded \/ \E v \in Syncers \ {w} : Mid(v))
    /\ UNCHANGED <<links, shown, wanted, unmarked, clock, adrift, counted, mishaps>>

(* The row as the worker claimed it. *)
Held(w) ==
    /\ conn.status = job[w].under
    /\ conn.id = job[w].id
    /\ conn.lease = w
    /\ conn.epoch = job[w].epoch

Renewed == [conn EXCEPT !.lapsed = FALSE]

HandedBack(c) == [c EXCEPT !.lease = NoSyncer, !.lapsed = FALSE]

(* The worker's own lease, never another's. *)
Stop(w) ==
    /\ conn' = IF conn.id = job[w].id /\ conn.lease = w THEN HandedBack(conn) ELSE conn
    /\ job' = [job EXCEPT ![w] = Idle]

-----------------------------------------------------------------------------
(* Calls to Google: done and answered, done and the answer lost, refused *)

Answers == {"OK", "LOST", "FAIL", "AUTH"}

Call(answer) ==
    IF answer = "OK" THEN UNCHANGED mishaps
    ELSE mishaps < MaxSyncFaults /\ mishaps' = mishaps + 1

(* Without a token the call is not made: the grant counts as gone. *)
CallWith(grant, answer) ==
    IF grant = NoAccount THEN answer = "AUTH" /\ UNCHANGED mishaps ELSE Call(answer)

(* Where the worker's token finds the event of a lesson. *)
Place(w, name) == <<job[w].grant, name, job[w].id, job[w].lesson>>

(* Mutant: a refused call counts as made. *)
Swallowed(w, answer, phase) == [job[w] EXCEPT !.phase = phase]

After(w, answer, phase) ==
    IF answer = "OK" THEN [job[w] EXCEPT !.phase = phase]
    ELSE [job[w] EXCEPT !.phase = "FAILED", !.auth = (answer = "AUTH")]

(* The start of a sync or of a clean-up: the token, the lessons, the links. *)
Read(w, answer) ==
    /\ job[w].phase = "READ"
    /\ answer # "LOST" /\ CallWith(job[w].grant, answer)
    /\ job' = [job EXCEPT ![w] = [After(w, answer, "NEXT") EXCEPT
                    !.plan = IF job[w].under = "ACTIVE" THEN wanted ELSE @,
                    !.links = IF Exists(job[w].id) THEN links ELSE Unlinked]]
    /\ UNCHANGED <<conn, links, shown, wanted, unmarked, tab, clock, adrift, crowded, counted>>

(* A clean-up removes every event; a sync those of lessons gone, or moved to *)
(* another calendar.                                                         *)
Surplus(w) ==
    {l \in Lessons : /\ job[w].links[l] # NoLink
                     /\ \/ job[w].plan[l] = 0
                        \/ job[w].links[l].cal # job[w].cal}

Missing(w) ==
    {l \in Lessons : job[w].plan[l] # 0 /\ job[w].links[l].content # job[w].plan[l]}

(* Before each write the lease is renewed, or the worker stops. *)
Check(w) ==
    /\ job[w].phase = "NEXT"
    /\ Surplus(w) \cup Missing(w) # {}
    /\ IF Held(w)
       THEN /\ conn' = Renewed
            /\ \/ \E l \in Surplus(w) :
                    job' = [job EXCEPT ![w].phase = "DELETE", ![w].lesson = l]
               \/ /\ Surplus(w) = {}
                  /\ \E l \in Missing(w) :
                       job' = [job EXCEPT ![w].phase = "PUT", ![w].lesson = l]
       ELSE Stop(w)
    /\ UNCHANGED <<links, shown, wanted, unmarked, tab, clock, adrift, crowded, counted, mishaps>>

(* An event that is not there counts as removed. *)
Delete(w, answer) ==
    /\ job[w].phase = "DELETE"
    /\ Call(answer)
    /\ LET place == Place(w, job[w].links[job[w].lesson].cal) IN
         /\ shown' = IF answer \in {"OK", "LOST"} THEN [shown EXCEPT ![place] = 0] ELSE shown
         /\ adrift' = IF answer = "LOST" THEN adrift \cup {place} ELSE adrift
    /\ job' = [job EXCEPT ![w] = After(w, answer, "UNLINK")]
    /\ UNCHANGED <<conn, links, wanted, unmarked, tab, clock, crowded, counted>>

Unlink(w) ==
    /\ job[w].phase = "UNLINK"
    /\ links' = IF Exists(job[w].id) THEN [links EXCEPT ![job[w].lesson] = NoLink] ELSE links
    /\ job' = [job EXCEPT ![w].phase = "NEXT", ![w].links[job[w].lesson] = NoLink]
    /\ adrift' = adrift \ {Place(w, job[w].links[job[w].lesson].cal)}
    /\ UNCHANGED <<conn, shown, wanted, unmarked, tab, clock, crowded, counted, mishaps>>

(* Inserted, or patched when its id is there already (it may be: an answer was lost). *)
Put(w, answer) ==
    /\ job[w].phase = "PUT"
    /\ Call(answer)
    /\ ~Has(job[w].grant, job[w].cal) => answer = "FAIL"
    /\ shown' = IF answer \in {"OK", "LOST"}
                THEN [shown EXCEPT ![Place(w, job[w].cal)] = job[w].plan[job[w].lesson]] ELSE shown
    /\ adrift' = IF answer = "LOST" THEN adrift \cup {Place(w, job[w].cal)} ELSE adrift
    /\ job' = [job EXCEPT ![w] = After(w, answer, "LINK")]
    /\ UNCHANGED <<conn, links, wanted, unmarked, tab, clock, crowded, counted>>

(* The row may be gone: then the link's foreign key refuses it. *)
Link(w) ==
    /\ job[w].phase = "LINK"
    /\ IF Exists(job[w].id)
       THEN LET new == [cal |-> job[w].cal, content |-> job[w].plan[job[w].lesson],
                        by |-> job[w].grant] IN
            /\ links' = [links EXCEPT ![job[w].lesson] = new]
            /\ adrift' = adrift \ {Place(w, job[w].cal)}
            /\ job' = [job EXCEPT ![w].phase = "NEXT", ![w].links[job[w].lesson] = new]
       ELSE /\ job' = [job EXCEPT ![w] = After(w, "FAIL", "NEXT")]
            /\ adrift' = adrift \cup {Place(w, job[w].cal)}
            /\ UNCHANGED links
    /\ UNCHANGED <<conn, shown, wanted, unmarked, tab, clock, crowded, counted, mishaps>>

(* Mutant: whatever was asked is done. *)
NothingAsked(w) == 0

(* A change that arrived while syncing keeps the connection due. *)
StillAsked(w) == IF conn.asked > job[w].asked THEN conn.asked ELSE 0

Synced(w) ==
    /\ job[w].phase = "NEXT" /\ job[w].under = "ACTIVE"
    /\ Surplus(w) \cup Missing(w) = {}
    /\ IF Held(w)
       THEN /\ conn' = [HandedBack(conn) EXCEPT !.asked = StillAsked(w)]
            /\ job' = [job EXCEPT ![w] = Idle]
       ELSE Stop(w)
    /\ UNCHANGED <<links, shown, wanted, unmarked, tab, clock, adrift, crowded, counted, mishaps>>

SyncFailed(w) ==
    /\ job[w].phase = "FAILED" /\ job[w].under = "ACTIVE"
    /\ IF Held(w)
       THEN /\ conn' = [HandedBack(conn) EXCEPT
                          !.status = IF job[w].auth THEN "NEEDS_RECONNECT" ELSE @]
            /\ job' = [job EXCEPT ![w] = Idle]
       ELSE Stop(w)
    /\ UNCHANGED <<links, shown, wanted, unmarked, tab, clock, adrift, crowded, counted, mishaps>>

-----------------------------------------------------------------------------
(* cleanup *)

(* retryCleanup: what is still linked is tried again. *)
Retry(w) ==
    /\ conn' = IF Held(w) THEN HandedBack(conn) ELSE conn
    /\ job' = [job EXCEPT ![w] = Idle]

(* All are removed.  A sync that was in the middle of a write may have added one. *)
Emptied(w) ==
    /\ job[w].phase = "NEXT" /\ job[w].under = "DISCONNECTING"
    /\ Surplus(w) = {}
    /\ IF ~Held(w) THEN Stop(w)
       ELSE IF Linked # {} THEN Retry(w)
       ELSE conn' = Renewed /\ job' = [job EXCEPT ![w].phase = "LAST"]
    /\ UNCHANGED <<links, shown, wanted, unmarked, tab, clock, adrift, crowded, counted, mishaps>>

(* Mutant: what was left is not counted. *)
NothingLeft(w) == 0

GivenUp(w) == Cardinality(Surplus(w))

(* The grant is gone: what is left is left.  Any other failure: later again. *)
CleanupFailed(w) ==
    /\ job[w].phase = "FAILED" /\ job[w].under = "DISCONNECTING"
    /\ IF job[w].auth
       THEN /\ job' = [job EXCEPT ![w].phase = "LAST", ![w].left = GivenUp(w)]
            /\ UNCHANGED conn
       ELSE Retry(w)
    /\ UNCHANGED <<links, shown, wanted, unmarked, tab, clock, adrift, crowded, counted, mishaps>>

(* finish: the row as it is now; a grant for another account may have arrived. *)
Last(w) ==
    /\ job[w].phase = "LAST"
    /\ IF Held(w)
       THEN job' = [job EXCEPT ![w].phase = "FINISH", ![w].next = conn.next] /\ UNCHANGED conn
       ELSE Stop(w)
    /\ UNCHANGED <<links, shown, wanted, unmarked, tab, clock, adrift, crowded, counted, mishaps>>

(* The grant that waited becomes the connection; *)
Switch(w) ==
    /\ job[w].phase = "FINISH" /\ job[w].next # NoAccount
    /\ IF Held(w) /\ conn.next # NoAccount
       THEN /\ conn' = [HandedBack(conn) EXCEPT !.status = "ACTIVE", !.key = job[w].next,
                          !.grant = job[w].next, !.next = NoAccount, !.cal = "primary",
                          !.epoch = conn.epoch + 1, !.leftover = @ + job[w].left,
                          !.asked = clock + 1]
            /\ clock' = clock + 1
            /\ counted' = counted + job[w].left
            /\ job' = [job EXCEPT ![w].phase = "FORGET"]
       ELSE Stop(w) /\ UNCHANGED <<clock, counted>>
    /\ UNCHANGED <<links, shown, wanted, unmarked, tab, adrift, crowded, mishaps>>

(* whatever is still linked belongs to the account that was left. *)
Forget(w) ==
    /\ job[w].phase = "FORGET"
    /\ links' = IF Exists(job[w].id) THEN Unlinked ELSE links
    /\ job' = [job EXCEPT ![w] = Idle]
    /\ UNCHANGED <<conn, shown, wanted, unmarked, tab, clock, adrift, crowded, counted, mishaps>>

Leave(w) ==
    /\ job[w].phase = "FINISH" /\ job[w].next = NoAccount
    /\ IF ~Held(w) THEN Stop(w) /\ UNCHANGED links
       ELSE /\ job' = [job EXCEPT ![w] = Idle]
            /\ IF job[w].left = 0
               THEN conn' = NoConn(conn.id) /\ links' = Unlinked
               ELSE /\ conn' = [HandedBack(conn) EXCEPT !.status = "CLEANUP_FAILED",
                                  !.grant = NoAccount]
                    /\ UNCHANGED links
    /\ UNCHANGED <<shown, wanted, unmarked, tab, clock, adrift, crowded, counted, mishaps>>

-----------------------------------------------------------------------------
(* The user: callback *)

Ask(t, request) ==
    /\ tab[t].kind = "NONE"
    /\ clock < MaxClock /\ clock' = clock + 1
    /\ tab' = [tab EXCEPT ![t] = request]

(* The code is exchanged; Google names the account (its primary calendar) or not. *)
Arrive(t, a, named) ==
    /\ Ask(t, [NoTab EXCEPT !.kind = "LOOK", !.account = a, !.named = named])
    /\ IF named THEN UNCHANGED mishaps ELSE Call("FAIL")
    /\ UNCHANGED <<conn, links, shown, wanted, unmarked, job, adrift, crowded, counted>>

(* compareAccounts: by the accounts on record, or by a calendar only one has, *)
Known(a) ==
    \/ conn.key = a
    \/ conn.key = NoAccount /\ conn.cal = "work" /\ Has(a, "work")

(* or by what the old grant, asked now, says of itself. *)
AsksGoogle(a, named) ==
    /\ conn.status \notin {"NONE", "CLEANUP_FAILED"}
    /\ named /\ conn.key = NoAccount /\ ~Known(a)

Verdict(a, named, answer) ==
    IF conn.status = "NONE" THEN "NEW"
    ELSE IF ~named THEN "UNKNOWN"
    ELSE IF Known(a) THEN "SAME"
    ELSE IF conn.status = "CLEANUP_FAILED" THEN "UNREACHABLE"
    ELSE IF conn.key # NoAccount THEN "OTHER"
    ELSE IF answer = "FAIL" THEN "UNKNOWN"
    ELSE IF answer = "AUTH" THEN "ASSUMED"
    ELSE IF conn.grant = a THEN "SAME" ELSE "OTHER"

Look(t, answer) ==
    /\ tab[t].kind = "LOOK"
    /\ answer # "LOST"
    /\ IF AsksGoogle(tab[t].account, tab[t].named) THEN CallWith(conn.grant, answer)
       ELSE answer = "OK" /\ UNCHANGED mishaps
    /\ tab' = [tab EXCEPT ![t].kind = "DECIDE", ![t].seen = Seen(conn),
                    ![t].verdict = Verdict(tab[t].account, tab[t].named, answer)]
    /\ UNCHANGED <<conn, links, shown, wanted, unmarked, job, clock, adrift, crowded, counted>>

Row(c) == IF c.status = "NONE" THEN 0 ELSE c.id

SameAs(old) ==
    /\ Row(conn) = Row(old)
    /\ conn.status # "NONE" =>
         /\ conn.epoch = old.epoch /\ conn.status = old.status
         /\ conn.key = old.key /\ conn.next = old.next

LookAgain(t) ==
    /\ tab[t].kind = "DECIDE" /\ ~SameAs(tab[t].seen)
    /\ LET r == tab[t] IN
         tab' = [tab EXCEPT ![t] = IF r.tries = 2 THEN NoTab
                                   ELSE [r EXCEPT !.kind = "LOOK", !.tries = r.tries + 1]]
    /\ UNCHANGED <<conn, links, shown, wanted, unmarked, job, clock, adrift, crowded, counted,
                   mishaps>>

Decides(t, verdicts) ==
    /\ tab[t].kind = "DECIDE" /\ SameAs(tab[t].seen)
    /\ tab[t].verdict \in verdicts
    /\ tab' = [tab EXCEPT ![t] = NoTab]

(* What the row becomes with the grant that arrived. *)
Fresh(c, a, named) ==
    [HandedBack(c) EXCEPT !.status = "ACTIVE", !.grant = a, !.next = NoAccount,
        !.key = IF named THEN a ELSE NoAccount, !.asked = clock + 1]

Connect(t) ==
    /\ Decides(t, {"NEW"})
    /\ conn.id < MaxConns
    /\ conn' = Fresh(NoConn(conn.id + 1), tab[t].account, tab[t].named)
    /\ clock' = clock + 1
    /\ UNCHANGED <<links, shown, wanted, unmarked, job, adrift, crowded, counted, mishaps>>

(* Nothing is changed: the account is not known. *)
Unverified(t) ==
    /\ Decides(t, {"UNKNOWN"})
    /\ UNCHANGED <<conn, links, shown, wanted, unmarked, job, clock, adrift, crowded, counted,
                   mishaps>>

NextEpoch(c) == IF c.status = "DISCONNECTING" THEN c.epoch ELSE c.epoch + 1

(* The new grant waits until the old account is cleaned. *)
Wait(t) ==
    /\ Decides(t, {"OTHER"})
    /\ conn' = [conn EXCEPT !.status = "DISCONNECTING", !.epoch = NextEpoch(conn),
                    !.next = tab[t].account, !.asked = 0]
    /\ UNCHANGED <<links, shown, wanted, unmarked, job, clock, adrift, crowded, counted, mishaps>>

KeepsChoice(t) ==
    tab[t].verdict # "UNREACHABLE" /\ Has(tab[t].account, conn.cal)

Events == {<<links[l].by, links[l].cal, conn.id, l>> : l \in Linked}

Reconnect(t) ==
    /\ Decides(t, {"SAME", "ASSUMED", "UNREACHABLE"})
    /\ conn' = [Fresh(conn, tab[t].account, tab[t].named) EXCEPT
                    !.epoch = @ + 1,
                    !.leftover = IF tab[t].verdict = "UNREACHABLE" THEN @ + Cardinality(Linked) ELSE @,
                    !.cal = IF KeepsChoice(t) THEN @ ELSE "primary"]
    /\ clock' = clock + 1
    /\ IF tab[t].verdict = "UNREACHABLE"
       THEN links' = Unlinked /\ counted' = counted + Cardinality(Linked)
       ELSE UNCHANGED <<links, counted>>
    /\ adrift' = IF tab[t].verdict = "ASSUMED" /\ conn.grant # tab[t].account
                 THEN adrift \cup Events ELSE adrift
    /\ crowded' = (crowded \/ (conn.grant # tab[t].account /\ \E w \in Syncers : Mid(w)))
    /\ UNCHANGED <<shown, wanted, unmarked, job, mishaps>>

-----------------------------------------------------------------------------
(* The user: disconnect, dismissLeftovers, setCalendar, requestSync *)

AskDisconnect(t) ==
    /\ conn.status # "NONE"
    /\ Ask(t, [NoTab EXCEPT !.seen = Seen(conn),
                !.kind = IF conn.status = "CLEANUP_FAILED" THEN "DISMISS" ELSE "DISCONNECT"])
    /\ UNCHANGED <<conn, links, shown, wanted, unmarked, job, adrift, crowded, counted, mishaps>>

Disconnect(t) ==
    /\ tab[t].kind = "DISCONNECT"
    /\ tab' = [tab EXCEPT ![t] = NoTab]
    /\ conn' = IF Exists(tab[t].seen.id)
               THEN [conn EXCEPT !.status = "DISCONNECTING", !.epoch = NextEpoch(tab[t].seen),
                        !.asked = 0, !.next = NoAccount]
               ELSE conn
    /\ UNCHANGED <<links, shown, wanted, unmarked, job, clock, adrift, crowded, counted, mishaps>>

AskDismiss(t) ==
    /\ conn.status # "NONE" /\ conn.leftover > 0
    /\ Ask(t, [NoTab EXCEPT !.seen = Seen(conn), !.kind = "DISMISS"])
    /\ UNCHANGED <<conn, links, shown, wanted, unmarked, job, adrift, crowded, counted, mishaps>>

(* A row whose grant is gone goes with its links; another forgets the number. *)
Dismiss(t) ==
    /\ tab[t].kind = "DISMISS"
    /\ tab' = [tab EXCEPT ![t] = NoTab]
    /\ LET old == tab[t].seen IN
       IF old.status = "CLEANUP_FAILED"
       THEN IF Exists(old.id) /\ conn.status = old.status /\ conn.epoch = old.epoch
            THEN /\ conn' = NoConn(conn.id) /\ links' = Unlinked
                 /\ counted' = counted + Cardinality(Linked)
            ELSE UNCHANGED <<conn, links, counted>>
       ELSE /\ conn' = IF Exists(old.id) THEN [conn EXCEPT !.leftover = 0] ELSE conn
            /\ UNCHANGED <<links, counted>>
    /\ UNCHANGED <<shown, wanted, unmarked, job, clock, adrift, crowded, mishaps>>

AskCalendar(t, name) ==
    /\ conn.status = "ACTIVE" /\ Has(conn.grant, name)
    /\ Ask(t, [NoTab EXCEPT !.seen = Seen(conn), !.kind = "CALENDAR", !.cal = name])
    /\ UNCHANGED <<conn, links, shown, wanted, unmarked, job, adrift, crowded, counted, mishaps>>

SetCalendar(t) ==
    /\ tab[t].kind = "CALENDAR"
    /\ tab' = [tab EXCEPT ![t] = NoTab]
    /\ clock' = clock + 1
    /\ conn' = IF Exists(tab[t].seen.id)
               THEN [conn EXCEPT !.cal = tab[t].cal, !.asked = clock + 1, !.epoch = @ + 1]
               ELSE conn
    /\ UNCHANGED <<links, shown, wanted, unmarked, job, adrift, crowded, counted, mishaps>>

(* calendars: a list that fails (another changes nothing).  It writes to the *)
(* row as it was read, of whatever status.                                   *)
AskList(t) ==
    /\ tab[t].kind = "NONE" /\ conn.status \notin {"NONE", "CLEANUP_FAILED"}
    /\ Call("FAIL")
    /\ tab' = [tab EXCEPT ![t] = [NoTab EXCEPT !.kind = "LIST", !.seen = Seen(conn),
                                               !.lease = conn.lease]]
    /\ UNCHANGED <<conn, links, shown, wanted, unmarked, job, clock, adrift, crowded, counted>>

(* failed: the same epoch, and the same lease; without one, an ACTIVE row. *)
SameRow(old) ==
    /\ Exists(old.seen.id) /\ conn.epoch = old.seen.epoch
    /\ IF old.lease = NoSyncer THEN conn.status = "ACTIVE" ELSE conn.lease = old.lease

(* The lease is freed, though it is a worker's who may be in the middle of a *)
(* write; and refused, a row that is being cleaned up waits for the user.    *)
ListFailed(t, auth) ==
    /\ tab[t].kind = "LIST"
    /\ conn' = IF SameRow(tab[t])
               THEN [(IF tab[t].lease = NoSyncer THEN conn ELSE HandedBack(conn)) EXCEPT
                       !.status = IF auth THEN "NEEDS_RECONNECT" ELSE @]
               ELSE conn
    /\ tab' = [tab EXCEPT ![t] = NoTab]
    /\ UNCHANGED <<links, shown, wanted, unmarked, job, clock, adrift, crowded, counted, mishaps>>

Requested == [conn EXCEPT !.asked = clock + 1]

RequestSync ==
    /\ conn.status = "ACTIVE"
    /\ clock < MaxClock /\ clock' = clock + 1
    /\ conn' = Requested
    /\ UNCHANGED <<links, shown, wanted, unmarked, job, tab, adrift, crowded, counted, mishaps>>

-----------------------------------------------------------------------------
(* Lessons change, and the writer marks the center's connections. *)

Change(l, content) ==
    /\ clock < MaxClock /\ clock' = clock + 1
    /\ content # wanted[l]
    /\ wanted' = [wanted EXCEPT ![l] = content]
    /\ unmarked' = TRUE
    /\ UNCHANGED <<conn, links, shown, job, tab, adrift, crowded, counted, mishaps>>

MarkDirty ==
    /\ unmarked
    /\ unmarked' = FALSE
    /\ clock' = clock + 1
    /\ conn' = IF conn.status = "ACTIVE" THEN Requested ELSE conn
    /\ UNCHANGED <<links, shown, wanted, job, tab, adrift, crowded, counted, mishaps>>

-----------------------------------------------------------------------------
(* The lease runs out: five minutes after its worker died, or while it stalls. *)
Lapse ==
    /\ conn.lease # NoSyncer /\ ~conn.lapsed
    /\ IF job[conn.lease].phase = "IDLE" THEN UNCHANGED mishaps ELSE Call("FAIL")
    /\ conn' = [conn EXCEPT !.lapsed = TRUE]
    /\ UNCHANGED <<links, shown, wanted, unmarked, job, tab, clock, adrift, crowded, counted>>

(* A worker that dies in the middle of a write leaves it unrecorded; one that *)
(* dies between the switch and its delete of the links, the old account's     *)
(* links under the new grant.                                                 *)
Dies(w) ==
    /\ job[w].phase # "IDLE" /\ Call("FAIL")
    /\ adrift' = CASE job[w].phase = "LINK" -> adrift \cup {Place(w, job[w].cal)}
                   [] job[w].phase = "UNLINK" ->
                        adrift \cup {Place(w, job[w].links[job[w].lesson].cal)}
                   [] job[w].phase = "FORGET" /\ Exists(job[w].id) -> adrift \cup Events
                   [] OTHER -> adrift
    /\ job' = [job EXCEPT ![w] = Idle]
    /\ UNCHANGED <<conn, links, shown, wanted, unmarked, tab, clock, crowded, counted>>

Sync(w) ==
    \/ Claim(w, "ACTIVE") \/ Check(w) \/ Unlink(w) \/ Link(w) \/ Synced(w) \/ SyncFailed(w)
    \/ \E answer \in Answers : Read(w, answer) \/ Delete(w, answer) \/ Put(w, answer)

Clean(w) ==
    \/ Claim(w, "DISCONNECTING")
    \/ Emptied(w) \/ CleanupFailed(w) \/ Last(w) \/ Switch(w) \/ Forget(w) \/ Leave(w)

OfUser(t) ==
    \/ \E a \in Accounts, named \in BOOLEAN : Arrive(t, a, named)
    \/ \E answer \in Answers : Look(t, answer)
    \/ LookAgain(t) \/ Connect(t) \/ Unverified(t) \/ Wait(t) \/ Reconnect(t)
    \/ AskDisconnect(t) \/ Disconnect(t) \/ AskDismiss(t) \/ Dismiss(t)
    \/ SetCalendar(t) \/ \E name \in Names : AskCalendar(t, name)
    \/ AskList(t) \/ \E auth \in BOOLEAN : ListFailed(t, auth)

SyncNext ==
    \/ \E w \in Syncers : Sync(w) \/ Clean(w) \/ Dies(w)
    \/ \E t \in Tabs : OfUser(t)
    \/ \E l \in Lessons, content \in 0..MaxContent : Change(l, content)
    \/ MarkDirty \/ RequestSync \/ Lapse

SyncSpec == SyncInit /\ [][SyncNext]_syncVars

-----------------------------------------------------------------------------
SyncTypeOK ==
    /\ conn \in Conns
    /\ links \in [Lessons -> [cal : Names \cup {"none"}, content : 0..MaxContent,
                             by : Accounts \cup {NoAccount}]]
    /\ shown \in [Places -> 0..MaxContent] /\ wanted \in [Lessons -> 0..MaxContent]
    /\ adrift \subseteq Places
    /\ {clock, counted} \subseteq Nat /\ mishaps \in 0..MaxSyncFaults
    /\ \A w \in Syncers : Idle.phase # job[w].phase => job[w].id \in 1..MaxConns

Writing(l) ==
    \E w \in Syncers : job[w].phase \in {"UNLINK", "LINK"} /\ job[w].lesson = l

InHand == {Place(w, job[w].cal) : w \in {v \in Syncers : job[v].phase = "LINK"}}

(* Disconnects, other accounts, revoked grants and new rows: an event of     *)
(* ours in Google that no link leads to any more is one the user was told to *)
(* remove by hand (leftoverEvents, CLEANUP_FAILED).                          *)
ToldOfWhatIsLeft ==
    ~crowded =>
        Cardinality({p \in Places : shown[p] # 0} \ (Events \cup InHand \cup adrift)) <= counted

LinkedIsShown(l) ==
    LET place == <<links[l].by, links[l].cal, conn.id, l>> IN
    place \in adrift \/ shown[place] = links[l].content \/ Writing(l)

OfItsGrant(l) ==
    \/ conn.grant \in {NoAccount, links[l].by}
    \/ <<links[l].by, links[l].cal, conn.id, l>> \in adrift
    \/ \E w \in Syncers : job[w].phase = "FORGET"

(* The link table is what the next sync and the clean-up go by: while there  *)
(* was one actor, an event it names is in Google as it says and in the       *)
(* account whose grant the connection has - an account's events are never    *)
(* handled with another's.  Excused, event by event, is what is adrift: its  *)
(* last write was not recorded, or its link outlived the switch from its     *)
(* account, because the worker died there (or the account was assumed).      *)
LinksHold == ~crowded => \A l \in Linked : LinkedIsShown(l) /\ OfItsGrant(l)

(* A change that comes while a worker syncs keeps the connection due, across *)
(* failures, calendar switches and reconnects: what is not asked for is done,*)
(* by the link table (LinksHold says what that is worth).                    *)
NoLostChange ==
    ~crowded /\ ~unmarked /\ conn.status = "ACTIVE" /\ conn.asked = 0
    => \A l \in Lessons :
         links[l].content = wanted[l] /\ (wanted[l] # 0 => links[l].cal = conn.cal)

(* A disconnect ends, whatever failed on the way, when Google answers again: *)
(* the row is gone, or given up, or of the next grant - or waits for the     *)
(* user with its events still in Google, after a list that was refused.      *)
DisconnectEnds == conn.status = "DISCONNECTING" ~> conn.status # "DISCONNECTING"

(* Pollers run on and leases run out.                                        *)
SyncFairness ==
    /\ \A w \in Syncers : WF_syncVars(Sync(w) \/ Clean(w))
    /\ WF_syncVars(Lapse)

FairSyncSpec == SyncSpec /\ SyncFairness
=============================================================================
