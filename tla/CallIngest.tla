------------------------------ MODULE CallIngest ------------------------------
(***************************************************************************)
(* Phone calls of a center (backend/src/telephony): the provider posts     *)
(* each event of a call to a webhook; requests overlap, events come in any *)
(* order, twice, or not at all, and a process may die at any step.  The    *)
(* event and the call's row change in one transaction under the row's      *)
(* lock; matching the caller, opening a lead, linking it, giving it to who *)
(* answered and the note on its timeline are steps of their own after it.  *)
(* Recordings, durations and the live popup are left out; leads are not    *)
(* archived, converted or merged meanwhile, so one number has one lead.    *)
(***************************************************************************)
EXTENDS Integers, FiniteSets

CONSTANTS
    Calls, OutgoingCalls,
    Numbers, NumberOf,      \* the number at the other end of a call
    StudentNumbers,         \* numbers of students and parents
    Extensions, Users, UserOf,   \* telephony_extensions: whose extension it is, or NoUser
    Requests,               \* webhook requests under way
    NoUser, NoExtension, NoCall,
    MaxEvents, MaxCallFaults  \* bounds of the model: events received, failures

ASSUME CallAssumption ==
    /\ Calls # {} /\ OutgoingCalls \subseteq Calls /\ NumberOf \in [Calls -> Numbers]
    /\ StudentNumbers \subseteq Numbers
    /\ UserOf \in [Extensions -> Users \cup {NoUser}] /\ NoUser \notin Users
    /\ NoExtension \notin Extensions /\ NoCall \notin Calls
    /\ {MaxEvents, MaxCallFaults} \subseteq Nat

VARIABLES
    calls,      \* the calls rows
    stored,     \* call_events: what was received
    leads,      \* the active lead of a number; by: who opened it
    request,    \* what each request has read and is about to do
    notes,      \* notes on lead timelines: how many of each call
    kept,       \* calls with a request that came to its end, knowing the number
    failures

callVars == <<calls, stored, leads, request, notes, kept, failures>>

-----------------------------------------------------------------------------
(* External: the events a provider has for a call.  Those that open or end it   *)
(* carry the number; "LEG" ends a leg nobody took, "END" the one that was taken. *)
Kinds == {"START", "RING", "ANSWER", "LEG", "END", "RECORD"}

CallEvents == [kind : Kinds, ext : Extensions \cup {NoExtension}]

(* A recording, and the start of an incoming call, name no phone of the center. *)
NamesPhone(c, kind) == kind # "RECORD" /\ (kind = "START" => c \in OutgoingCalls)

EventsOf(c) ==
    {e \in CallEvents : /\ e.ext # NoExtension <=> NamesPhone(c, e.kind)
                        /\ (c \in OutgoingCalls => e.kind # "RING")}

NamesNumber(kind) == kind \notin {"ANSWER", "RECORD"}

Rows == [status : {"NONE", "RINGING", "ANSWERED", "MISSED"}, ended : BOOLEAN,
         direction : {"INBOUND", "OUTBOUND"}, number : BOOLEAN,
         ext : Extensions \cup {NoExtension},
         contact : {"UNKNOWN", "LEAD", "STUDENT"}, createdLead : BOOLEAN]

NoCallRow == [status |-> "NONE", ended |-> FALSE, direction |-> "INBOUND", number |-> FALSE,
              ext |-> NoExtension, contact |-> "UNKNOWN", createdLead |-> FALSE]

NoLeadRow == [exists |-> FALSE, manager |-> NoUser, by |-> NoCall]

AnyCall == CHOOSE c \in Calls : TRUE

Waiting == [phase |-> "IDLE", call |-> AnyCall, row |-> NoCallRow, finished |-> FALSE,
            contact |-> "UNKNOWN", created |-> FALSE]

CallInit ==
    /\ calls = [c \in Calls |-> NoCallRow]
    /\ stored = [c \in Calls |-> {}]
    /\ leads = [n \in Numbers |-> NoLeadRow]
    /\ request = [d \in Requests |-> Waiting]
    /\ notes = [c \in Calls |-> 0]
    /\ kept = {}
    /\ failures = 0

Manager(row) == IF row.ext = NoExtension THEN NoUser ELSE UserOf[row.ext]

-----------------------------------------------------------------------------
(* patchFor *)

(* Mutant: a phone that rings late becomes the call's. *)
RingsAlways(row, ext) == [row EXCEPT !.ext = ext]

Rings(row, ext) ==
    IF row.status = "ANSWERED" \/ row.ended \/ ext = NoExtension THEN row
    ELSE [row EXCEPT !.ext = ext]

PickedUp(row, ext) ==
    IF row.ended THEN row ELSE [row EXCEPT !.status = "ANSWERED", !.ext = ext]

(* Mutant: the end of another leg undoes a conversation. *)
LegUndoes(row, ext) ==
    [row EXCEPT !.ended = TRUE, !.status = "MISSED", !.ext = IF @ = NoExtension THEN ext ELSE @]

(* A second leg's end never undoes a conversation. *)
LegEnds(row, ext) ==
    IF row.status = "ANSWERED" THEN [row EXCEPT !.ended = TRUE]
    ELSE [row EXCEPT !.ended = TRUE, !.status = "MISSED",
                     !.ext = IF @ = NoExtension THEN ext ELSE @]

TalkEnds(row, ext) == [row EXCEPT !.ended = TRUE, !.status = "ANSWERED", !.ext = ext]

(* Mutant: the guess of the first event stays. *)
GuessStays(c, row, kind) == IF NamesNumber(kind) THEN [row EXCEPT !.number = TRUE] ELSE row

(* A row made by an event that does not name the direction is INBOUND. *)
Directed(c, row, kind) ==
    IF NamesNumber(kind)
    THEN [row EXCEPT !.number = TRUE,
                     !.direction = IF c \in OutgoingCalls THEN "OUTBOUND" ELSE "INBOUND"]
    ELSE row

Patched(c, event) ==
    LET row == Directed(c, [calls[c] EXCEPT !.status = IF @ = "NONE" THEN "RINGING" ELSE @],
                        event.kind) IN
    CASE event.kind \in {"START", "RING"} -> Rings(row, event.ext)
      [] event.kind = "ANSWER" -> PickedUp(row, event.ext)
      [] event.kind = "LEG" -> LegEnds(row, event.ext)
      [] event.kind = "END" -> TalkEnds(row, event.ext)
      [] event.kind = "RECORD" -> row

-----------------------------------------------------------------------------
(* ingest *)

ToAssign(row) ==
    row.createdLead /\ row.contact = "LEAD" /\ row.status = "ANSWERED" /\ Manager(row) # NoUser

(* Once the caller is known: the phases left, each only when there is something to do. *)
AfterLink(job) ==
    IF ToAssign(job.row) THEN "ASSIGN"
    ELSE IF job.finished /\ job.row.contact = "LEAD" THEN "NOTE" ELSE "DONE"

Received == {x \in Calls \X CallEvents : x[2] \in stored[x[1]]}

(* Mutant: the end of every leg finishes the call. *)
Over(old, new) == new.ended

(* Only the event that ended the call. *)
Finishes(old, new) == new.ended /\ ~old.ended

(* The transaction: a repeated event is dropped. *)
Receive(d, c, event) ==
    /\ request[d].phase = "IDLE"
    /\ event \in EventsOf(c) \ stored[c]
    /\ Cardinality(Received) < MaxEvents
    /\ stored' = [stored EXCEPT ![c] = @ \cup {event}]
    /\ calls' = [calls EXCEPT ![c] = Patched(c, event)]
    /\ LET row == Patched(c, event)
           job == [Waiting EXCEPT !.call = c, !.row = row,
                                  !.finished = Finishes(calls[c], row)] IN
       request' = [request EXCEPT ![d] = [job EXCEPT !.phase =
                      IF row.contact = "UNKNOWN" /\ row.number THEN "MATCH" ELSE AfterLink(job)]]
    /\ UNCHANGED <<leads, notes, kept, failures>>

(* linkContact: an open lead before a student or parent; *)
Match(d) ==
    LET job == request[d]
        n == NumberOf[job.call] IN
    /\ job.phase = "MATCH"
    /\ request' = [request EXCEPT ![d] =
         IF leads[n].exists THEN [@ EXCEPT !.phase = "LINK", !.contact = "LEAD"]
         ELSE IF n \in StudentNumbers THEN [@ EXCEPT !.phase = "LINK", !.contact = "STUDENT"]
         ELSE IF job.row.direction = "INBOUND" THEN [@ EXCEPT !.phase = "OPEN"]
         ELSE [@ EXCEPT !.phase = "DONE"]]
    /\ UNCHANGED <<calls, stored, leads, notes, kept, failures>>

(* Mutant: whoever finds the lead there takes it for its own. *)
AlwaysOpened(n) == TRUE

Opened(n) == ~leads[n].exists

(* createFromCall: the unique index lets one through, the others get that one. *)
Open(d) ==
    LET n == NumberOf[request[d].call] IN
    /\ request[d].phase = "OPEN"
    /\ leads' = IF leads[n].exists THEN leads
                ELSE [leads EXCEPT ![n] = [exists |-> TRUE, manager |-> NoUser, by |-> request[d].call]]
    /\ request' = [request EXCEPT ![d] = [@ EXCEPT !.phase = "LINK", !.contact = "LEAD",
                                                    !.created = Opened(n)]]
    /\ UNCHANGED <<calls, stored, notes, kept, failures>>

(* Only while it is unlinked; the request goes on with the row as it is now. *)
LinkCall(d) ==
    LET job == request[d]
        old == calls[job.call]
        row == IF old.contact = "UNKNOWN"
               THEN [old EXCEPT !.contact = job.contact, !.createdLead = job.created] ELSE old IN
    /\ job.phase = "LINK"
    /\ calls' = [calls EXCEPT ![job.call] = row]
    /\ request' = [request EXCEPT ![d] = [job EXCEPT !.row = row,
                                            !.phase = AfterLink([job EXCEPT !.row = row])]]
    /\ UNCHANGED <<stored, leads, notes, kept, failures>>

(* assignFromCall: only while nobody has it. *)
Assign(d) ==
    LET job == request[d]
        n == NumberOf[job.call] IN
    /\ job.phase = "ASSIGN"
    /\ leads' = [leads EXCEPT ![n].manager = IF @ = NoUser THEN Manager(job.row) ELSE @]
    /\ request' = [request EXCEPT ![d].phase = IF job.finished THEN "NOTE" ELSE "DONE"]
    /\ UNCHANGED <<calls, stored, notes, kept, failures>>

(* noteOnLead *)
Note(d) ==
    /\ request[d].phase = "NOTE"
    /\ notes' = [notes EXCEPT ![request[d].call] = @ + 1]
    /\ request' = [request EXCEPT ![d].phase = "DONE"]
    /\ UNCHANGED <<calls, stored, leads, kept, failures>>

Answered(d) ==
    /\ request[d].phase = "DONE"
    /\ kept' = IF request[d].row.number THEN kept \cup {request[d].call} ELSE kept
    /\ request' = [request EXCEPT ![d] = Waiting]
    /\ UNCHANGED <<calls, stored, leads, notes, failures>>

(* The process dies, or a statement fails: the event is stored, so it never comes back. *)
RequestFails(d) ==
    /\ request[d].phase \notin {"IDLE", "DONE"}
    /\ failures < MaxCallFaults /\ failures' = failures + 1
    /\ request' = [request EXCEPT ![d] = Waiting]
    /\ UNCHANGED <<calls, stored, leads, notes, kept>>

(* Staff type the number in by hand, and may give the lead to somebody. *)
StaffOpens(n, user) ==
    /\ ~leads[n].exists
    /\ leads' = [leads EXCEPT ![n] = [exists |-> TRUE, manager |-> user, by |-> NoCall]]
    /\ UNCHANGED <<calls, stored, request, notes, kept, failures>>

CallNext ==
    \/ \E d \in Requests :
         \/ \E c \in Calls : \E e \in EventsOf(c) : Receive(d, c, e)
         \/ Match(d) \/ Open(d) \/ LinkCall(d) \/ Assign(d) \/ Note(d) \/ Answered(d)
         \/ RequestFails(d)
    \/ \E n \in Numbers, u \in Users \cup {NoUser} : StaffOpens(n, u)

CallSpec == CallInit /\ [][CallNext]_callVars

-----------------------------------------------------------------------------
CallTypeOK ==
    /\ calls \in [Calls -> Rows]
    /\ \A c \in Calls : stored[c] \subseteq EventsOf(c)
    /\ \A n \in Numbers : leads[n].manager \in Users \cup {NoUser}
    /\ notes \in [Calls -> Nat]

Got(c, kind) == \E e \in stored[c] : e.kind = kind

(* Whatever the order of a call's legs, answers and ends (ring groups,       *)
(* transfers, late and missing events): a call somebody talked on is         *)
(* ANSWERED, one that is over and that nobody took is MISSED.                *)
StatusOfEvents ==
    \A c \in Calls :
        /\ Got(c, "END") => calls[c].status = "ANSWERED"
        /\ Got(c, "LEG") /\ ~Got(c, "END") /\ ~Got(c, "ANSWER") => calls[c].status = "MISSED"
        /\ calls[c].status = "ANSWERED" => Got(c, "END") \/ Got(c, "ANSWER")

(* "A lead this call opened goes to whoever answered it": not to a phone     *)
(* that rang late or a leg that was not taken.                               *)
LeadToWhoAnswered ==
    \A n \in Numbers : leads[n].by # NoCall /\ leads[n].manager # NoUser =>
        \E e \in stored[leads[n].by] :
            e.kind \in {"ANSWER", "END"} /\ UserOf[e.ext] = leads[n].manager

(* Calls, and events of one call, that find the number unknown at the same   *)
(* time open one lead, and only the call that did says so.                   *)
MarkedOpenedIt ==
    \A c \in Calls : calls[c].createdLead => leads[NumberOf[c]].by = c

AtRest(c) == \A d \in Requests : request[d].phase = "IDLE" \/ request[d].call # c

(* No caller is lost: an incoming call from a number nobody has, is on a     *)
(* lead once one event of it came through, though others of its events       *)
(* failed half-way ("a failure in the middle heals itself on the next        *)
(* event"); an outgoing call opens none.                                     *)
CallersAreKept ==
    /\ \A c \in kept \ OutgoingCalls : calls[c].contact # "UNKNOWN"
    /\ \A n \in Numbers : leads[n].by \notin OutgoingCalls

(* The finished call is on the lead's timeline once, whichever event ended   *)
(* it, and not at all only after a failure.                                  *)
NotedOnce ==
    \A c \in Calls :
        /\ notes[c] <= 1
        /\ AtRest(c) /\ calls[c].ended /\ calls[c].contact = "LEAD" /\ c \notin OutgoingCalls
           /\ failures = 0 => notes[c] = 1

(* createdLead: "True when this call opened the lead (an unknown number)".   *)
OpenedIsMarked ==
    \A c \in Calls :
        AtRest(c) /\ failures = 0 /\ leads[NumberOf[c]].by = c => calls[c].createdLead
=============================================================================
