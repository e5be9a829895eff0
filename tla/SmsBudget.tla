------------------------------ MODULE SmsBudget ------------------------------
(***************************************************************************)
(* SMS of the centers (backend/src/notifications): a send takes a place in *)
(* the month's budget and the right to send its key, calls the provider,   *)
(* and records what came of it.  Sends overlap, processes die, answers     *)
(* are lost and the month turns.  The reservation is a transaction under   *)
(* a lock per month: reading, and writing what was read, are two steps, as *)
(* the transactions of two months may overlap.                             *)
(***************************************************************************)
EXTENDS Integers, FiniteSets

CONSTANTS
    Centers, MessageKeys,
    Senders,      \* sends under way
    PerCenter,    \* PLATFORM_SMS_PER_CENTER_MONTH
    TotalSms,     \* PLATFORM_SMS_PER_MONTH, 0 for no limit
    MaxTries,     \* 3 attempts in all
    MaxSmsMonth   \* bound of the model

ASSUME SmsAssumption ==
    /\ Centers # {} /\ MessageKeys # {} /\ IsFiniteSet(Centers \X MessageKeys)
    /\ {PerCenter, TotalSms, MaxSmsMonth} \subseteq Nat /\ MaxTries \in Nat \ {0}

VARIABLES
    sms,       \* the sms_sends rows
    send,      \* what each send has read and is about to do
    month,     \* the UTC month
    arrived,   \* external: how many copies of a message reached its reader
    torn       \* messages written over by a reservation that read them before

smsVars == <<sms, send, month, arrived, torn>>

-----------------------------------------------------------------------------
Messages == Centers \X MessageKeys

SmsRows == [status : {"NONE", "RESERVED", "SENT", "FAILED", "UNKNOWN"}, attempts : 0..MaxTries,
            month : 0..MaxSmsMonth, platform : BOOLEAN]

NoSms == [status |-> "NONE", attempts |-> 0, month |-> 0, platform |-> FALSE]

Unsent == [phase |-> "IDLE", message |-> CHOOSE m \in Messages : TRUE, month |-> 0,
           platform |-> FALSE, row |-> NoSms, result |-> "NONE"]

SmsInit ==
    /\ sms = [m \in Messages |-> NoSms]
    /\ send = [s \in Senders |-> Unsent]
    /\ month = 0
    /\ arrived = [m \in Messages |-> 0]
    /\ torn = {}

(* The route says whose account it goes out on; the month is read before the lock. *)
BeginSend(s, m, platform) ==
    /\ send[s].phase = "IDLE"
    /\ send' = [send EXCEPT ![s] = [Unsent EXCEPT !.phase = "LOCK", !.message = m,
                    !.month = month, !.platform = platform]]
    /\ UNCHANGED <<sms, month, arrived, torn>>

-----------------------------------------------------------------------------
(* reserveSms *)

SmsCounted == {"RESERVED", "SENT", "UNKNOWN"}

CountedIn(n) ==
    {m \in Messages : sms[m].month = n /\ sms[m].platform /\ sms[m].status \in SmsCounted}

(* Mutant: what timed out is tried again. *)
TimedOutAgain(row) ==
    row.status # "NONE" /\ (row.status \notin {"FAILED", "UNKNOWN"} \/ row.attempts >= MaxTries)

(* DUPLICATE: all but a refused message with tries left. *)
SentBefore(row) ==
    row.status # "NONE" /\ (row.status # "FAILED" \/ row.attempts >= MaxTries)

(* Mutant: the last place is given away once more. *)
QuotaPassed(center, n) ==
    \/ Cardinality({m \in CountedIn(n) : m[1] = center}) > PerCenter
    \/ TotalSms > 0 /\ Cardinality(CountedIn(n)) > TotalSms

QuotaUsed(center, n) ==
    \/ Cardinality({m \in CountedIn(n) : m[1] = center}) >= PerCenter
    \/ TotalSms > 0 /\ Cardinality(CountedIn(n)) >= TotalSms

MonthFree(n) == \A s \in Senders : ~(send[s].phase = "TAKE" /\ send[s].month = n)

LookSms(s) ==
    /\ send[s].phase = "LOCK"
    /\ MonthFree(send[s].month)
    /\ LET m == send[s].message IN
       send' = [send EXCEPT ![s] =
           IF SentBefore(sms[m]) \/ (send[s].platform /\ QuotaUsed(m[1], send[s].month))
           THEN Unsent ELSE [@ EXCEPT !.phase = "TAKE", !.row = sms[m]]]
    /\ UNCHANGED <<sms, month, arrived, torn>>

Taken(s) ==
    [status |-> "RESERVED", attempts |-> send[s].row.attempts + 1,
     month |-> send[s].month, platform |-> send[s].platform]

(* An insert of a key that is there by now is refused by the index. *)
TakeSms(s) ==
    /\ send[s].phase = "TAKE"
    /\ LET m == send[s].message IN
       IF send[s].row.status = "NONE" /\ sms[m].status # "NONE"
       THEN send' = [send EXCEPT ![s] = Unsent] /\ UNCHANGED <<sms, torn>>
       ELSE /\ sms' = [sms EXCEPT ![m] = Taken(s)]
            /\ torn' = IF sms[m] = send[s].row THEN torn ELSE torn \cup {m}
            /\ send' = [send EXCEPT ![s].phase = "CALL"]
    /\ UNCHANGED <<month, arrived>>

-----------------------------------------------------------------------------
(* The provider: accepts, clearly refuses, or gives no certain answer. *)
CallProvider(s, gone, result) ==
    /\ send[s].phase = "CALL"
    /\ result = "SENT" => gone
    /\ result = "FAILED" => ~gone
    /\ arrived' = IF gone THEN [arrived EXCEPT ![send[s].message] = @ + 1] ELSE arrived
    /\ send' = [send EXCEPT ![s].phase = "SETTLE", ![s].result = result]
    /\ UNCHANGED <<sms, month, torn>>

SettleSms(s) ==
    /\ send[s].phase = "SETTLE"
    /\ sms' = [sms EXCEPT ![send[s].message].status = send[s].result]
    /\ send' = [send EXCEPT ![s] = Unsent]
    /\ UNCHANGED <<month, arrived, torn>>

(* A process dies: its transaction is rolled back, a place it took stays taken. *)
SenderDies(s) ==
    /\ send[s].phase # "IDLE"
    /\ send' = [send EXCEPT ![s] = Unsent]
    /\ UNCHANGED <<sms, month, arrived, torn>>

MonthTurns ==
    /\ month < MaxSmsMonth
    /\ month' = month + 1
    /\ UNCHANGED <<sms, send, arrived, torn>>

SmsNext ==
    \/ \E s \in Senders :
         \/ \E m \in Messages, platform \in BOOLEAN : BeginSend(s, m, platform)
         \/ LookSms(s) \/ TakeSms(s) \/ SettleSms(s) \/ SenderDies(s)
         \/ \E gone \in BOOLEAN, result \in {"SENT", "FAILED", "UNKNOWN"} :
              CallProvider(s, gone, result)
    \/ MonthTurns

SmsSpec == SmsInit /\ [][SmsNext]_smsVars

-----------------------------------------------------------------------------
SmsTypeOK ==
    /\ sms \in [Messages -> SmsRows]
    /\ month \in 0..MaxSmsMonth
    /\ arrived \in [Messages -> Nat]
    /\ torn \subseteq Messages

(* Two sends at once cannot both take the last place: in no month more       *)
(* messages went, or may have gone, on the platform's account than a center  *)
(* and all of them have, though refused ones give their place back and later *)
(* months take them over (torn ones aside, see below).                       *)
SmsWithinBudget ==
    \A n \in 0..MaxSmsMonth :
        LET counted == CountedIn(n) \ torn IN
        /\ \A c \in Centers : Cardinality({m \in counted : m[1] = c}) <= PerCenter
        /\ TotalSms > 0 => Cardinality(counted) <= TotalSms

(* A message whose fate is unknown is never sent again, a refused one may be *)
(* a few times: its reader gets it once at most - but for two reservations   *)
(* of one refused message under the locks of two months.                     *)
SmsNeverTwice ==
    \A m \in Messages \ torn : arrived[m] <= 1
=============================================================================
