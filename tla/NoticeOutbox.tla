----------------------------- MODULE NoticeOutbox -----------------------------
(***************************************************************************)
(* Payment messages through an outbox (backend/src/notice-outbox): rows    *)
(* written with the business change, worker processes that claim due rows, *)
(* send each and record the result, and the platform admin who queues a    *)
(* failed message again.                                                   *)
(*                                                                         *)
(* The clock is abstracted to what the code compares with it: a PENDING    *)
(* row becomes due, a SENDING row's lock runs out - at any time, for a     *)
(* worker may be slower than its lock.  A process is one event loop: the   *)
(* end of a pass and the test of "again" are one step, for nothing runs    *)
(* between them; each statement to the database and each send is a step.   *)
(***************************************************************************)
EXTENDS Integers, FiniteSets

CONSTANTS
    Notices,       \* dedupe keys
    Workers,       \* server processes
    MaxAttempts,   \* MAX_ATTEMPTS
    Limit,         \* rows one pass claims
    NoNotice, NoWorker,
    MaxFaults      \* bound of the model: crashes, failed passes, slow workers

ASSUME OutboxAssumption ==
    /\ MaxAttempts \in Nat \ {0}
    /\ Limit \in Nat \ {0}
    /\ MaxFaults \in Nat
    /\ NoNotice \notin Notices
    /\ NoWorker \notin Workers

VARIABLES
    outbox,     \* the rows of notice_outbox
    worker,     \* a process's kick loop and the pass it runs
    kicks,      \* processes that committed and are about to call kick()
    copies,     \* external: how often a recipient got the message (0, 1, 2 or more)
    excuse,     \* history: a hold ran out, or the answer of a delivery was lost
    holder,     \* history: the worker that claimed the row last
    faults      \* bound of the model

vars == <<outbox, worker, kicks, copies, excuse, holder, faults>>

-----------------------------------------------------------------------------
(* due: next_attempt_at has come; lapsed: locked_until has passed. *)
Messages == [status : {"NONE", "PENDING", "SENDING", "SENT", "FAILED"},
             attempts : Nat, due : BOOLEAN, lapsed : BOOLEAN]

Results == {"NONE", "OK", "ERROR", "PERMANENT"}

(* ids: rows the claim returned; read: the attempts the select then found. *)
Passes == [phase : {"IDLE", "CLAIM", "READ", "SEND", "RECORD"}, again : BOOLEAN,
           ids : SUBSET Notices, read : [Notices -> Nat],
           sending : Notices \cup {NoNotice}, result : Results]

NoRow == [status |-> "NONE", attempts |-> 0, due |-> FALSE, lapsed |-> FALSE]

Queued == [status |-> "PENDING", attempts |-> 0, due |-> TRUE, lapsed |-> FALSE]

Idle == [phase |-> "IDLE", again |-> FALSE, ids |-> {},
         read |-> [n \in Notices |-> 0], sending |-> NoNotice, result |-> "NONE"]

(* A pass begins: again is FALSE until the next kick. *)
Starting == [Idle EXCEPT !.phase = "CLAIM"]

Init ==
    /\ outbox = [n \in Notices |-> NoRow]
    /\ worker = [w \in Workers |-> Idle]
    /\ kicks = {}
    /\ copies = [n \in Notices |-> 0]
    /\ excuse = [n \in Notices |-> FALSE]
    /\ holder = [n \in Notices |-> NoWorker]
    /\ faults = 0

-----------------------------------------------------------------------------
(* enqueue: in the caller's transaction; the same key twice is one row. *)
Enqueue(w, n) ==
    /\ outbox' = IF outbox[n].status = "NONE" THEN [outbox EXCEPT ![n] = Queued] ELSE outbox
    /\ kicks' = kicks \cup {w}
    /\ UNCHANGED <<worker, copies, excuse, holder, faults>>

(* Mutant: a kick while a pass runs is taken for served by that pass. *)
ForgetsWhileRunning(w) == IF worker[w].phase = "IDLE" THEN Starting ELSE worker[w]

(* kick: starts a pass, or has the running loop make one more. *)
Kicked(w) ==
    IF worker[w].phase = "IDLE" THEN Starting ELSE [worker[w] EXCEPT !.again = TRUE]

KickAfterCommit(w) ==
    /\ w \in kicks
    /\ worker' = [worker EXCEPT ![w] = Kicked(w)]
    /\ kicks' = kicks \ {w}
    /\ UNCHANGED <<outbox, copies, excuse, holder, faults>>

KickByTimer(w) ==
    /\ worker' = [worker EXCEPT ![w] = Kicked(w)]
    /\ UNCHANGED <<outbox, kicks, copies, excuse, holder, faults>>

(* The end of a pass: one more, or the loop ends. *)
Ended(w) == IF worker[w].again THEN Starting ELSE Idle

(* Mutant: only rows nobody ever claimed are looked for. *)
ClaimsPendingOnly(n) == outbox[n].status = "PENDING" /\ outbox[n].due

(* Mutant: the lock is not looked at. *)
ClaimsWhileHeld(n) ==
    \/ outbox[n].status = "PENDING" /\ outbox[n].due
    \/ outbox[n].status = "SENDING"

Claimable(n) ==
    \/ outbox[n].status = "PENDING" /\ outbox[n].due
    \/ outbox[n].status = "SENDING" /\ outbox[n].lapsed

(* Up to limit rows; which of them, in the order of next_attempt_at, is left open. *)
Batches ==
    LET all == {n \in Notices : Claimable(n)} IN
    {ids \in SUBSET all : ids = all \/ Cardinality(ids) = Limit}

Claim(w, ids) ==
    /\ worker[w].phase = "CLAIM"
    /\ ids \in Batches /\ Cardinality(ids) <= Limit
    /\ outbox' = [n \in Notices |->
                    IF n \in ids
                    THEN [outbox[n] EXCEPT !.status = "SENDING", !.attempts = @ + 1,
                                           !.lapsed = FALSE]
                    ELSE outbox[n]]
    /\ holder' = [n \in Notices |-> IF n \in ids THEN w ELSE holder[n]]
    /\ worker' = [worker EXCEPT ![w] =
                    IF ids = {} THEN Ended(w) ELSE [@ EXCEPT !.phase = "READ", !.ids = ids]]
    /\ UNCHANGED <<kicks, copies, excuse, faults>>

(* The rows are read by a second statement, after the claim. *)
Read(w) ==
    /\ worker[w].phase = "READ"
    /\ worker' = [worker EXCEPT ![w].phase = "SEND", ![w].ids = {},
                    ![w].read = [n \in Notices |->
                        IF n \in worker[w].ids THEN outbox[n].attempts ELSE 0]]
    /\ UNCHANGED <<outbox, kicks, copies, excuse, holder, faults>>

(* The provider took it, failed or refused it for good.  A failure may be   *)
(* an answer that was lost (a timeout): the message is there all the same.  *)
Send(w, n, result, arrives) ==
    /\ worker[w].phase = "SEND"
    /\ worker[w].read[n] # 0
    /\ result = "OK" => arrives
    /\ result = "PERMANENT" => ~arrives
    /\ worker' = [worker EXCEPT ![w].phase = "RECORD", ![w].sending = n, ![w].result = result]
    /\ copies' = [copies EXCEPT ![n] = IF arrives /\ @ < 2 THEN @ + 1 ELSE @]
    /\ excuse' = [excuse EXCEPT ![n] = @ \/ (arrives /\ result = "ERROR")]
    /\ UNCHANGED <<outbox, kicks, holder, faults>>

(* Mutant: the result is written by id alone. *)
Unfenced(w, n) == TRUE

(* The row is still SENDING and at the attempt this worker read. *)
Fenced(w, n) ==
    outbox[n].status = "SENDING" /\ outbox[n].attempts = worker[w].read[n]

(* Mutant: one attempt too many. *)
OneMoreTry(w, n) ==
    worker[w].result = "PERMANENT" \/ worker[w].read[n] > MaxAttempts

LastTry(w, n) ==
    worker[w].result = "PERMANENT" \/ worker[w].read[n] >= MaxAttempts

RecordedStatus(w, n) ==
    IF worker[w].result = "OK" THEN "SENT" ELSE IF LastTry(w, n) THEN "FAILED" ELSE "PENDING"

Record(w) ==
    LET n == worker[w].sending
        left == [worker[w].read EXCEPT ![n] = 0] IN
    /\ worker[w].phase = "RECORD"
    /\ outbox' = IF Fenced(w, n)
                 THEN [outbox EXCEPT ![n] = [@ EXCEPT !.status = RecordedStatus(w, n),
                                                      !.due = FALSE, !.lapsed = FALSE]]
                 ELSE outbox
    /\ worker' = [worker EXCEPT ![w] =
                    IF \E m \in Notices : left[m] # 0
                    THEN [@ EXCEPT !.phase = "SEND", !.read = left, !.sending = NoNotice,
                                   !.result = "NONE"]
                    ELSE Ended(w)]
    /\ UNCHANGED <<kicks, copies, excuse, holder, faults>>

(* retry: the admin queues a FAILED message again, with fresh attempts. *)
Retry(w, n) ==
    /\ outbox[n].status = "FAILED"
    /\ outbox' = [outbox EXCEPT ![n] = Queued]
    /\ kicks' = kicks \cup {w}
    /\ UNCHANGED <<worker, copies, excuse, holder, faults>>

-----------------------------------------------------------------------------
(* Time, and what fails *)

BecomesDue(n) ==
    /\ outbox[n].status = "PENDING" /\ ~outbox[n].due
    /\ outbox' = [outbox EXCEPT ![n].due = TRUE]
    /\ UNCHANGED <<worker, kicks, copies, excuse, holder, faults>>

Busy(w, n) ==
    n \in worker[w].ids \/ worker[w].read[n] # 0

Fault == faults < MaxFaults /\ faults' = faults + 1

(* The lock runs out: of a worker that is gone, or of one that is slow. *)
LockRunsOut(n) ==
    /\ outbox[n].status = "SENDING" /\ ~outbox[n].lapsed
    /\ outbox' = [outbox EXCEPT ![n].lapsed = TRUE]
    /\ excuse' = [excuse EXCEPT ![n] = TRUE]
    /\ IF Busy(holder[n], n) THEN Fault ELSE UNCHANGED faults
    /\ UNCHANGED <<worker, kicks, copies, holder>>

(* A statement of the pass throws: the pass is given up, the loop goes on. *)
PassFails(w) ==
    /\ worker[w].phase \in {"CLAIM", "READ", "RECORD"}
    /\ Fault
    /\ worker' = [worker EXCEPT ![w] = Ended(w)]
    /\ UNCHANGED <<outbox, kicks, copies, excuse, holder>>

(* The process dies, and another starts in its place. *)
Crash(w) ==
    /\ Fault
    /\ worker' = [worker EXCEPT ![w] = Idle]
    /\ kicks' = kicks \ {w}
    /\ UNCHANGED <<outbox, copies, excuse, holder>>

-----------------------------------------------------------------------------
Pass(w) ==
    \/ \E ids \in SUBSET Notices : Claim(w, ids)
    \/ Read(w)
    \/ \E n \in Notices, result \in Results \ {"NONE"}, arrives \in BOOLEAN :
         Send(w, n, result, arrives)
    \/ Record(w)

Next ==
    \/ \E w \in Workers :
         \/ KickAfterCommit(w)
         \/ KickByTimer(w)
         \/ Pass(w)
         \/ PassFails(w)
         \/ Crash(w)
         \/ \E n \in Notices : Enqueue(w, n) \/ Retry(w, n)
    \/ \E n \in Notices : BecomesDue(n) \/ LockRunsOut(n)

Spec == Init /\ [][Next]_vars

(* What goes on by itself: the event loop, the database and the providers   *)
(* answer, and the clock goes on.                                           *)
Progress ==
    /\ \A w \in Workers : WF_vars(Pass(w)) /\ WF_vars(KickAfterCommit(w))
    /\ \A n \in Notices :
         /\ WF_vars(BecomesDue(n))
         /\ WF_vars(outbox[n].status = "SENDING" /\ ~Busy(holder[n], n) /\ LockRunsOut(n))

(* And setInterval calls kick() in every process. *)
TimerSpec == Spec /\ Progress /\ \A w \in Workers : WF_vars(KickByTimer(w))

-----------------------------------------------------------------------------
(* Properties *)

(* The types of the variables. *)
TypeOK ==
    /\ outbox \in [Notices -> Messages]
    /\ worker \in [Workers -> Passes]
    /\ kicks \subseteq Workers
    /\ copies \in [Notices -> 0 .. 2]
    /\ excuse \in [Notices -> BOOLEAN]
    /\ holder \in [Notices -> Workers \cup {NoWorker}]
    /\ faults \in Nat

(* A message recorded as sent reached its recipient, and is never queued or *)
(* sent again by a worker whose hold ran out and whose own try failed.      *)
SentStays ==
    [][\A n \in Notices : outbox[n].status = "SENT" =>
          outbox'[n].status = "SENT" /\ copies'[n] >= 1]_vars

(* A message arrives twice only for a reason: a hold that ran out (a worker *)
(* that died or was slow) or a delivery whose answer was lost.  Two workers *)
(* never both take a row that is held.                                      *)
CopiesHaveCause == \A n \in Notices : copies[n] > 1 => excuse[n]

(* MAX_ATTEMPTS in all: beyond them a message is claimed only as often as   *)
(* workers died or were slow.                                               *)
AttemptsBounded == \A n \in Notices : outbox[n].attempts <= MaxAttempts + faults

(* A committed message is sent or given up in the end, whatever crashed.    *)
Settles ==
    \A n \in Notices :
        outbox[n].status \in {"PENDING", "SENDING"} ~> outbox[n].status \in {"SENT", "FAILED"}

(* A new message does not wait for the timer: as long as nothing crashed,   *)
(* some process is about to claim, also when the kick after the commit came *)
(* while a pass ran whose claim had not seen the message.                   *)
KickIsOnItsWay ==
    faults = 0 =>
        \A n \in Notices : outbox[n] = Queued =>
            \E w \in Workers : w \in kicks \/ worker[w].phase = "CLAIM" \/ worker[w].again

(* notice-outbox.service.ts, in runOnce: "Fenced by the attempt: a worker   *)
(* whose hold ran out never overwrites the next one's result."              *)
LateResultsAreDropped ==
    [][\A w \in Workers, n \in Notices :
          (Record(w) /\ worker[w].sending = n /\ outbox'[n] # outbox[n]) => holder[n] = w]_vars
=============================================================================
