------------------------------ MODULE PhoneProofs ------------------------------
(***************************************************************************)
(* Theorems about the two services that work through telephones and share  *)
(* nothing: SmsBudget, for every number of centers, messages, sends at     *)
(* once, months, attempts, and for every budget; CallIngest, for every     *)
(* number of calls, numbers, phones, requests at once, events and          *)
(* failures, and every order of a call's events.                           *)
(***************************************************************************)
EXTENDS SmsBudget, CallIngest, FiniteSetTheorems, TLAPS

(***************************************************************************)
(*                               The SMS budget                            *)
(***************************************************************************)
SendJobs == [phase : {"IDLE", "LOCK", "TAKE", "CALL", "SETTLE"}, message : Messages,
         month : 0..MaxSmsMonth, platform : BOOLEAN, row : SmsRows,
         result : {"NONE", "SENT", "FAILED", "UNKNOWN"}]

(* What a send has read allows it to take one more try. *)
SendsOK ==
    /\ send \in [Senders -> SendJobs]
    /\ \A m \in Messages : sms[m].status = "NONE" => sms[m].attempts = 0
    /\ \A s \in Senders : send[s].phase = "TAKE" =>
          send[s].row.status \in {"NONE", "FAILED"} /\ send[s].row.attempts < MaxTries
    /\ \A s \in Senders : send[s].phase = "SETTLE" => send[s].result # "NONE"

SmsTypeInv == SmsTypeOK /\ SendsOK

Sending(s, m) == send[s].phase \in {"CALL", "SETTLE"} /\ send[s].message = m

(* One send at a time has the right to a message, and only while it is RESERVED. *)
OneSend(m) ==
    \A s \in Senders : Sending(s, m) =>
        /\ sms[m].status = "RESERVED"
        /\ \A r \in Senders : Sending(r, m) => r = s
        /\ send[s].phase = "CALL" \/ send[s].result = "FAILED" => arrived[m] = 0

NotYet(m) == sms[m].status \in {"NONE", "FAILED"} => arrived[m] = 0

FateInv == \A m \in Messages \ torn : arrived[m] <= 1 /\ NotYet(m) /\ OneSend(m)

Counting(n) == CountedIn(n) \ torn

CountingOf(n, c) == {m \in Counting(n) : m[1] = c}

FreePlace(n, c) ==
    /\ Cardinality(CountingOf(n, c)) < PerCenter
    /\ TotalSms > 0 => Cardinality(Counting(n)) < TotalSms

Within(n, c) ==
    /\ Cardinality(CountingOf(n, c)) <= PerCenter
    /\ TotalSms > 0 => Cardinality(Counting(n)) <= TotalSms

(* One send at a time holds a month's lock, and it has seen a free place. *)
PlaceInv ==
    /\ \A r, s \in Senders :
          send[r].phase = "TAKE" /\ send[s].phase = "TAKE" /\ send[r].month = send[s].month => r = s
    /\ \A s \in Senders, n \in 0..MaxSmsMonth, c \in Centers :
          /\ send[s].phase = "TAKE" /\ send[s].platform
          /\ send[s].month = n /\ send[s].message[1] = c
          => FreePlace(n, c)

SmsInv == SmsTypeInv /\ FateInv /\ PlaceInv /\ SmsWithinBudget

-----------------------------------------------------------------------------
(* There is a message, and a row and a send at rest are of their types. *)
LEMMA MessagesFacts ==
    /\ Messages # {} /\ IsFiniteSet(Messages)
    /\ NoSms \in SmsRows /\ Unsent \in SendJobs
<1>1. Messages # {} /\ IsFiniteSet(Messages)
    <2>1. PICK c \in Centers, h \in MessageKeys : TRUE
        BY SmsAssumption
    <2>2. <<c, h>> \in Messages
        BY <2>1 DEF Messages
    <2> QED BY <2>2, SmsAssumption DEF Messages
<1>2. NoSms \in SmsRows
    BY SmsAssumption, SMT DEF NoSms, SmsRows
<1>3. Unsent \in SendJobs
    BY <1>1, <1>2, SmsAssumption, SMT DEF Unsent, SendJobs
<1> QED BY <1>1, <1>2, <1>3

(* A send's fields may be changed to anything of their types. *)
LEMMA JobFields ==
    ASSUME NEW j \in SendJobs,
           NEW phase \in {"IDLE", "LOCK", "TAKE", "CALL", "SETTLE"}, NEW m \in Messages,
           NEW n \in 0..MaxSmsMonth, NEW platform \in BOOLEAN, NEW row \in SmsRows,
           NEW result \in {"NONE", "SENT", "FAILED", "UNKNOWN"}
    PROVE /\ [j EXCEPT !.phase = phase] \in SendJobs
          /\ [j EXCEPT !.message = m] \in SendJobs
          /\ [j EXCEPT !.month = n] \in SendJobs
          /\ [j EXCEPT !.platform = platform] \in SendJobs
          /\ [j EXCEPT !.row = row] \in SendJobs
          /\ [j EXCEPT !.result = result] \in SendJobs
<1>1. [j EXCEPT !.phase = phase] \in SendJobs BY SMT DEF SendJobs
<1>2. [j EXCEPT !.message = m] \in SendJobs BY SMT DEF SendJobs
<1>3. [j EXCEPT !.month = n] \in SendJobs BY SMT DEF SendJobs
<1>4. [j EXCEPT !.platform = platform] \in SendJobs BY SMT DEF SendJobs
<1>5. [j EXCEPT !.row = row] \in SendJobs BY SMT DEF SendJobs
<1>6. [j EXCEPT !.result = result] \in SendJobs BY SMT DEF SendJobs
<1> QED BY <1>1, <1>2, <1>3, <1>4, <1>5, <1>6

LEMMA InitSms == SmsInit => SmsInv
<1> SUFFICES ASSUME SmsInit PROVE SmsInv OBVIOUS
<1>1. SmsTypeInv
    <2>1. SmsTypeOK
        BY MessagesFacts, SmsAssumption, SMT DEF SmsInit, SmsTypeOK
    <2>2. send \in [Senders -> SendJobs]
        BY MessagesFacts, SMT DEF SmsInit
    <2>3. \A s \in Senders : send[s].phase = "IDLE"
        BY SMT DEF SmsInit, Unsent
    <2>4. \A m \in Messages : sms[m].attempts = 0
        BY SMT DEF SmsInit, NoSms
    <2> QED BY <2>1, <2>2, <2>3, <2>4, SMT DEF SmsTypeInv, SendsOK
<1>2. FateInv
    BY MessagesFacts, SMT DEF SmsInit, FateInv, NotYet, OneSend, Sending, NoSms, Unsent
<1>3. \A n : CountedIn(n) = {}
    BY SMT DEF SmsInit, CountedIn, NoSms, SmsCounted
<1>4. PlaceInv
    BY SMT DEF SmsInit, PlaceInv, Unsent
<1>5. SmsWithinBudget
    <2> SUFFICES ASSUME NEW n \in 0..MaxSmsMonth, NEW c \in Centers
                 PROVE Cardinality({m \in CountedIn(n) \ torn : m[1] = c}) <= PerCenter
                       /\ (TotalSms > 0 => Cardinality(CountedIn(n) \ torn) <= TotalSms)
        BY SmsAssumption DEF SmsWithinBudget
    <2>1. CountedIn(n) \ torn = {} BY <1>3
    <2>2. {m \in CountedIn(n) \ torn : m[1] = c} = {} BY <2>1
    <2>3. Cardinality({m \in CountedIn(n) \ torn : m[1] = c}) = 0
          /\ Cardinality(CountedIn(n) \ torn) = 0
        BY <2>1, <2>2, FS_EmptySet
    <2>4. 0 <= PerCenter /\ 0 <= TotalSms
        BY SmsAssumption, SMT
    <2> QED BY <2>3, <2>4
<1> QED BY <1>1, <1>2, <1>4, <1>5 DEF SmsInv

-----------------------------------------------------------------------------
(* The types: each action keeps them. *)
LEMMA SmsTypeStep == SmsTypeInv /\ [SmsNext]_smsVars => SmsTypeInv'
<1> SUFFICES ASSUME SmsTypeInv, [SmsNext]_smsVars PROVE SmsTypeInv'
    OBVIOUS
<1> USE DEF SmsTypeInv, SmsTypeOK, SendsOK
<1>1. ASSUME NEW s \in Senders, NEW m \in Messages, NEW platform \in BOOLEAN,
             BeginSend(s, m, platform)
      PROVE SmsTypeInv'
    <2>1. [Unsent EXCEPT !.phase = "LOCK", !.message = m, !.month = month,
                         !.platform = platform] \in SendJobs
        BY MessagesFacts, JobFields
    <2>2. send' = [send EXCEPT ![s] = [Unsent EXCEPT !.phase = "LOCK", !.message = m,
                                           !.month = month, !.platform = platform]]
        BY <1>1 DEF BeginSend
    <2>3. \A r \in Senders : send'[r].phase \in {"TAKE", "SETTLE"} => send'[r] = send[r]
        BY <2>2, SMT DEF Unsent
    <2>4. send' \in [Senders -> SendJobs]
        BY <2>1, <2>2, SMT
    <2> QED BY <1>1, <2>3, <2>4, SMT DEF BeginSend
<1>2. ASSUME NEW s \in Senders, LookSms(s) PROVE SmsTypeInv'
    <2>1. send[s].message \in Messages /\ sms[send[s].message] \in SmsRows
        BY SMT DEF SendJobs
    <2>2. [send[s] EXCEPT !.phase = "TAKE", !.row = sms[send[s].message]] \in SendJobs
        BY <2>1, JobFields
    <2>3. ~SentBefore(sms[send[s].message]) =>
              /\ sms[send[s].message].status \in {"NONE", "FAILED"}
              /\ sms[send[s].message].attempts < MaxTries
        BY <2>1, SmsAssumption, SMT DEF SentBefore, SmsRows
    <2>4. send' \in [Senders -> SendJobs]
        BY <1>2, <2>2, MessagesFacts, SMT DEF LookSms
    <2> QED BY <1>2, <2>1, <2>3, <2>4, SMT DEF LookSms, Unsent, SendJobs
<1>3. ASSUME NEW s \in Senders, TakeSms(s) PROVE SmsTypeInv'
    <2>1. send[s] \in SendJobs /\ send[s].row \in SmsRows /\ send[s].message \in Messages
        BY SMT DEF SendJobs
    <2>2. send[s].row.attempts < MaxTries
        BY <1>3, SMT DEF TakeSms
    <2>3. Taken(s) \in SmsRows
        BY <2>1, <2>2, SmsAssumption, SMT DEF Taken, SmsRows, SendJobs
    <2>4. [send[s] EXCEPT !.phase = "CALL"] \in SendJobs
        BY <2>1, SMT DEF SendJobs
    <2>5. send' \in [Senders -> SendJobs]
        BY <1>3, <2>4, MessagesFacts, SMT DEF TakeSms
    <2>6. sms' \in [Messages -> SmsRows] /\ torn' \subseteq Messages
        BY <1>3, <2>1, <2>3, SMT DEF TakeSms
    <2>7. \A m \in Messages : sms'[m].status = "NONE" => sms'[m].attempts = 0
        BY <1>3, <2>1, SMT DEF TakeSms, Taken
    <2>8. \A r \in Senders : send'[r].phase \in {"TAKE", "SETTLE"} => send'[r] = send[r]
        <3>1. CASE send' = [send EXCEPT ![s] = Unsent]
            BY <3>1, SMT DEF Unsent
        <3>2. CASE send' = [send EXCEPT ![s].phase = "CALL"]
            BY <3>2, SMT DEF SendJobs
        <3> QED BY <1>3, <3>1, <3>2 DEF TakeSms
    <2> QED BY <1>3, <2>5, <2>6, <2>7, <2>8, SMT DEF TakeSms
<1>4. ASSUME NEW s \in Senders, NEW gone \in BOOLEAN, NEW result \in {"SENT", "FAILED", "UNKNOWN"},
             CallProvider(s, gone, result)
      PROVE SmsTypeInv'
    <2>1. [send[s] EXCEPT !.phase = "SETTLE", !.result = result] \in SendJobs
        <3>1. [send[s] EXCEPT !.phase = "SETTLE"] \in SendJobs BY SMT DEF SendJobs
        <3>2. \A j \in SendJobs : [j EXCEPT !.result = result] \in SendJobs BY SMT DEF SendJobs
        <3> QED BY <3>1, <3>2
    <2>2. send' = [send EXCEPT ![s] = [send[s] EXCEPT !.phase = "SETTLE", !.result = result]]
        BY <1>4 DEF CallProvider
    <2>3. arrived' \in [Messages -> Nat]
        BY <1>4, SMT DEF CallProvider, SendJobs
    <2> QED BY <1>4, <2>1, <2>2, <2>3, SMT DEF CallProvider
<1>5. ASSUME NEW s \in Senders, SettleSms(s) PROVE SmsTypeInv'
    <2>1. send[s].message \in Messages /\ send[s].result \in {"SENT", "FAILED", "UNKNOWN"}
        BY <1>5, SMT DEF SettleSms, SendJobs
    <2>2. [sms[send[s].message] EXCEPT !.status = send[s].result] \in SmsRows
        BY <2>1, SMT DEF SmsRows
    <2>3. sms' \in [Messages -> SmsRows]
        BY <1>5, <2>1, <2>2, SMT DEF SettleSms
    <2>4. send' \in [Senders -> SendJobs]
        BY <1>5, MessagesFacts, SMT DEF SettleSms
    <2> QED BY <1>5, <2>1, <2>3, <2>4, SMT DEF SettleSms, Unsent
<1>6. ASSUME NEW s \in Senders, SenderDies(s) PROVE SmsTypeInv'
    BY <1>6, MessagesFacts, SMT DEF SenderDies, Unsent
<1>7. ASSUME MonthTurns PROVE SmsTypeInv'
    BY <1>7, SmsAssumption, SMT DEF MonthTurns
<1>8. ASSUME UNCHANGED smsVars PROVE SmsTypeInv'
    BY <1>8 DEF smsVars
<1> QED BY <1>1, <1>2, <1>3, <1>4, <1>5, <1>6, <1>7, <1>8 DEF SmsNext

-----------------------------------------------------------------------------
(* A message is in the hands of one send: its row says so until it is settled, *)
(* and only a row that says nobody has it is taken.                            *)
LEMMA FateStep == SmsTypeInv /\ FateInv /\ [SmsNext]_smsVars => FateInv'
<1> SUFFICES ASSUME SmsTypeInv, FateInv, [SmsNext]_smsVars PROVE FateInv'
    OBVIOUS
<1>0. send \in [Senders -> SendJobs] /\ sms \in [Messages -> SmsRows]
      /\ arrived \in [Messages -> Nat] /\ torn \subseteq Messages
    BY DEF SmsTypeInv, SmsTypeOK, SendsOK
<1> SUFFICES ASSUME NEW m \in Messages, m \notin torn'
             PROVE (arrived[m] <= 1 /\ NotYet(m) /\ OneSend(m))'
    BY DEF FateInv
<1> DEFINE Kept == /\ sms'[m].status = sms[m].status /\ arrived'[m] = arrived[m]
                   /\ \A r \in Senders : Sending(r, m)' => send'[r] = send[r]
<1>1. ASSUME m \notin torn, Kept PROVE (arrived[m] <= 1 /\ NotYet(m) /\ OneSend(m))'
    BY <1>1 DEF FateInv, NotYet, OneSend, Sending
<1>2. ASSUME NEW s \in Senders, NEW x \in Messages, NEW platform \in BOOLEAN,
             BeginSend(s, x, platform)
      PROVE m \notin torn /\ Kept
    <2>1. /\ sms' = sms /\ arrived' = arrived /\ torn' = torn
          /\ \A r \in Senders : r # s => send'[r] = send[r]
        BY <1>2, <1>0, SMT DEF BeginSend
    <2>2. send'[s] = [Unsent EXCEPT !.phase = "LOCK", !.message = x, !.month = month,
                                    !.platform = platform]
        BY <1>2, <1>0 DEF BeginSend
    <2>3. send'[s].phase = "LOCK"
        BY <2>2, SMT DEF Unsent
    <2> QED BY <2>1, <2>3 DEF Sending
<1>3. ASSUME NEW s \in Senders, LookSms(s) PROVE m \notin torn /\ Kept
    <2>1. CASE send' = [send EXCEPT ![s] = Unsent]
        BY <2>1, <1>3, <1>0, SMT DEF LookSms, Unsent, Sending
    <2>2. CASE send' = [send EXCEPT ![s] = [@ EXCEPT !.phase = "TAKE", !.row = sms[send[s].message]]]
        <3>1. send'[s].phase = "TAKE"
            BY <2>2, <1>0, SMT DEF SendJobs
        <3> QED BY <3>1, <2>2, <1>3, <1>0, SMT DEF LookSms, Sending
    <2> QED BY <1>3, <2>1, <2>2 DEF LookSms
<1>4. ASSUME NEW s \in Senders, TakeSms(s)
      PROVE (arrived[m] <= 1 /\ NotYet(m) /\ OneSend(m))'
    <2>1. CASE send[s].message # m \/ (send[s].row.status = "NONE" /\ sms[m].status # "NONE")
        <3>1. m \notin torn /\ sms'[m] = sms[m] /\ arrived' = arrived
            BY <2>1, <1>4, <1>0, SMT DEF TakeSms, SendJobs
        <3>2. \A r \in Senders : Sending(r, m)' => send'[r] = send[r]
            <4>1. CASE send' = [send EXCEPT ![s] = Unsent]
                BY <4>1, <1>0, SMT DEF Unsent, Sending
            <4>2. CASE send' = [send EXCEPT ![s].phase = "CALL"] /\ send[s].message # m
                BY <4>2, <1>0, SMT DEF SendJobs, Sending
            <4> QED BY <1>4, <2>1, <4>1, <4>2 DEF TakeSms
        <3> QED BY <1>1, <3>1, <3>2
    <2>2. CASE send[s].message = m /\ ~(send[s].row.status = "NONE" /\ sms[m].status # "NONE")
        <3>1. /\ sms[m] = send[s].row /\ m \notin torn
              /\ sms'[m] = Taken(s) /\ arrived' = arrived
              /\ send' = [send EXCEPT ![s].phase = "CALL"]
            BY <2>2, <1>4, <1>0, SMT DEF TakeSms
        <3>2. sms[m].status \in {"NONE", "FAILED"}
            BY <3>1, <1>4, SMT DEF SmsTypeInv, SendsOK, TakeSms
        <3>3. arrived[m] = 0 /\ \A r \in Senders : ~Sending(r, m)
            BY <3>1, <3>2, SMT DEF FateInv, NotYet, OneSend
        <3>4. sms'[m].status = "RESERVED"
            BY <3>1, SMT DEF Taken
        <3>5. \A r \in Senders : r # s => ~Sending(r, m)'
            BY <3>1, <3>3, <1>0, SMT DEF Sending
        <3> QED BY <3>1, <3>3, <3>4, <3>5, SMT DEF NotYet, OneSend
    <2> QED BY <2>1, <2>2
<1>5. ASSUME NEW s \in Senders, NEW gone \in BOOLEAN, NEW result \in {"SENT", "FAILED", "UNKNOWN"},
             CallProvider(s, gone, result)
      PROVE (arrived[m] <= 1 /\ NotYet(m) /\ OneSend(m))'
    <2>1. /\ m \notin torn /\ sms' = sms /\ send[s].phase = "CALL"
          /\ send'[s].phase = "SETTLE" /\ send'[s].result = result
          /\ send'[s].message = send[s].message
          /\ \A r \in Senders : r # s => send'[r] = send[r]
        BY <1>5, <1>0, SMT DEF CallProvider, SendJobs
    <2>2. CASE send[s].message # m
        <3>1. arrived'[m] = arrived[m]
            BY <1>5, <2>2, <1>0, SMT DEF CallProvider
        <3>2. \A r \in Senders : Sending(r, m)' => send'[r] = send[r]
            BY <2>1, <2>2 DEF Sending
        <3> QED BY <1>1, <2>1, <3>1, <3>2
    <2>3. CASE send[s].message = m
        <3>1. Sending(s, m)
            BY <2>1, <2>3 DEF Sending
        <3>2. /\ sms[m].status = "RESERVED" /\ arrived[m] = 0
              /\ \A r \in Senders : Sending(r, m) => r = s
            BY <3>1, <2>1 DEF FateInv, OneSend
        <3>3. arrived'[m] <= 1 /\ (result = "FAILED" => arrived'[m] = 0)
            BY <1>5, <2>3, <3>2, <1>0, SMT DEF CallProvider
        <3>4. \A r \in Senders : Sending(r, m)' => r = s
            BY <2>1, <3>2 DEF Sending
        <3> QED BY <2>1, <3>2, <3>3, <3>4, SMT DEF NotYet, OneSend
    <2> QED BY <2>2, <2>3
<1>6. ASSUME NEW s \in Senders, SettleSms(s)
      PROVE (arrived[m] <= 1 /\ NotYet(m) /\ OneSend(m))'
    <2>1. /\ m \notin torn /\ arrived' = arrived /\ send[s].phase = "SETTLE"
          /\ send'[s].phase = "IDLE"
          /\ \A r \in Senders : r # s => send'[r] = send[r]
        BY <1>6, <1>0, SMT DEF SettleSms, Unsent
    <2>2. CASE send[s].message # m
        <3>1. sms'[m] = sms[m]
            BY <1>6, <2>2, <1>0, SMT DEF SettleSms
        <3>2. \A r \in Senders : Sending(r, m)' => send'[r] = send[r]
            BY <2>1 DEF Sending
        <3> QED BY <1>1, <2>1, <3>1, <3>2
    <2>3. CASE send[s].message = m
        <3>1. Sending(s, m)
            BY <2>1, <2>3 DEF Sending
        <3>2. /\ send[s].result = "FAILED" => arrived[m] = 0
              /\ \A r \in Senders : Sending(r, m) => r = s
              /\ arrived[m] <= 1
            BY <3>1, <2>1 DEF FateInv, OneSend
        <3>3. sms'[m].status = send[s].result
            BY <1>6, <2>3, <1>0, SMT DEF SettleSms, SmsRows
        <3>4. send[s].result # "NONE"
            BY <2>1 DEF SmsTypeInv, SendsOK
        <3>5. \A r \in Senders : ~Sending(r, m)'
            BY <2>1, <3>2 DEF Sending
        <3> QED BY <2>1, <3>2, <3>3, <3>4, <3>5 DEF NotYet, OneSend
    <2> QED BY <2>2, <2>3
<1>7. ASSUME NEW s \in Senders, SenderDies(s) PROVE m \notin torn /\ Kept
    BY <1>7, <1>0, SMT DEF SenderDies, Unsent, Sending
<1>8. ASSUME MonthTurns PROVE m \notin torn /\ Kept
    BY <1>8, SMT DEF MonthTurns
<1>9. ASSUME UNCHANGED smsVars PROVE m \notin torn /\ Kept
    BY <1>9, SMT DEF smsVars
<1> QED BY <1>1, <1>2, <1>3, <1>4, <1>5, <1>6, <1>7, <1>8, <1>9 DEF SmsNext

-----------------------------------------------------------------------------
(* Sets of messages are finite; a set grows by one element at most by one.   *)
LEMMA OneMore ==
    ASSUME NEW S, NEW T, NEW x, IsFiniteSet(S), T \subseteq S \cup {x}
    PROVE Cardinality(T) <= Cardinality(S) + 1
<1>1. IsFiniteSet(S \cup {x}) /\ Cardinality(S \cup {x}) <= Cardinality(S) + 1
    <2>1. Cardinality(S) \in Nat
        BY FS_CardinalityType
    <2>2. /\ IsFiniteSet(S \cup {x})
          /\ Cardinality(S \cup {x}) = IF x \in S THEN Cardinality(S) ELSE Cardinality(S) + 1
        BY FS_AddElement
    <2> QED BY <2>1, <2>2, SMT
<1>2. Cardinality(T) <= Cardinality(S \cup {x})
    BY <1>1, FS_Subset
<1>3. Cardinality(S) \in Nat /\ Cardinality(S \cup {x}) \in Nat
    BY <1>1, FS_CardinalityType
<1>4. Cardinality(T) \in Nat
    BY <1>1, FS_Subset, FS_CardinalityType
<1> QED BY <1>1, <1>2, <1>3, <1>4, SMT

LEMMA FiniteCounts ==
    /\ \A n, c : IsFiniteSet(Counting(n)) /\ IsFiniteSet(CountingOf(n, c)) /\ IsFiniteSet(CountedIn(n))
    /\ \A n, c : IsFiniteSet(Counting(n)') /\ IsFiniteSet(CountingOf(n, c)')
<1>1. ASSUME NEW S, S \subseteq Messages PROVE IsFiniteSet(S)
    BY <1>1, MessagesFacts, FS_Subset
<1>2. \A n, c : Counting(n) \subseteq Messages /\ CountingOf(n, c) \subseteq Messages
                /\ CountedIn(n) \subseteq Messages
    BY DEF Counting, CountingOf, CountedIn
<1>3. \A n, c : Counting(n)' \subseteq Messages /\ CountingOf(n, c)' \subseteq Messages
    BY DEF Counting, CountingOf, CountedIn
<1> QED BY <1>1, <1>2, <1>3

(* A month's count that does not grow leaves its places as they were. *)
LEMMA NotMore ==
    ASSUME NEW n, NEW c, (Counting(n))' \subseteq Counting(n)
    PROVE (FreePlace(n, c) => FreePlace(n, c)') /\ (Within(n, c) => Within(n, c)')
<1>1. CountingOf(n, c)' \subseteq CountingOf(n, c)
    BY DEF CountingOf
<1>2. /\ Cardinality(Counting(n)') <= Cardinality(Counting(n))
      /\ Cardinality(CountingOf(n, c)') <= Cardinality(CountingOf(n, c))
    BY <1>1, FiniteCounts, FS_Subset
<1>3. /\ Cardinality(Counting(n)) \in Nat /\ Cardinality(Counting(n)') \in Nat
      /\ Cardinality(CountingOf(n, c)) \in Nat /\ Cardinality(CountingOf(n, c)') \in Nat
    BY FiniteCounts, FS_CardinalityType
<1> QED BY <1>2, <1>3, SmsAssumption, SMT DEF FreePlace, Within

(* Only a send that takes a place counts one more, in its own month. *)
LEMMA CountStep ==
    ASSUME SmsTypeInv, FateInv, [SmsNext]_smsVars, NEW n,
           \A s \in Senders : TakeSms(s) => send[s].month # n \/ ~send[s].platform
    PROVE Counting(n)' \subseteq Counting(n)
<1>0. send \in [Senders -> SendJobs] /\ sms \in [Messages -> SmsRows] /\ torn \subseteq Messages
    BY DEF SmsTypeInv, SmsTypeOK, SendsOK
<1> SUFFICES ASSUME NEW m \in Messages, m \in Counting(n)' PROVE m \in Counting(n)
    BY DEF Counting, CountedIn
<1>1. /\ m \notin torn' /\ sms'[m].month = n /\ sms'[m].platform
      /\ sms'[m].status \in SmsCounted
    BY DEF Counting, CountedIn
<1>2. ASSUME m \notin torn, sms'[m] = sms[m] PROVE m \in Counting(n)
    BY <1>1, <1>2 DEF Counting, CountedIn
<1>3. ASSUME UNCHANGED <<sms, torn>> PROVE m \in Counting(n)
    BY <1>1, <1>2, <1>3
<1>4. ASSUME NEW s \in Senders, TakeSms(s) PROVE m \in Counting(n)
    <2>1. CASE UNCHANGED <<sms, torn>>
        BY <2>1, <1>3
    <2>2. CASE sms' = [sms EXCEPT ![send[s].message] = Taken(s)] /\ torn \subseteq torn'
        <3>1. CASE send[s].message = m
            <4>1. sms'[m] = Taken(s)
                BY <2>2, <3>1, <1>0
            <4>2. send[s].month = n /\ send[s].platform
                BY <4>1, <1>1, SMT DEF Taken
            <4> QED BY <1>4, <4>2
        <3>2. CASE send[s].message # m
            BY <2>2, <3>2, <1>0, <1>1, <1>2, SMT
        <3> QED BY <3>1, <3>2
    <2>3. torn \subseteq torn'
        BY <1>4 DEF TakeSms
    <2> QED BY <1>4, <2>1, <2>2, <2>3 DEF TakeSms
<1>5. ASSUME NEW s \in Senders, SettleSms(s) PROVE m \in Counting(n)
    <2>1. CASE send[s].message # m
        BY <1>5, <2>1, <1>0, <1>1, <1>2, SMT DEF SettleSms
    <2>2. CASE send[s].message = m
        <3>1. m \notin torn
            BY <1>1, <1>5 DEF SettleSms
        <3>2. sms[m].status = "RESERVED"
            BY <3>1, <2>2, <1>5 DEF SettleSms, FateInv, OneSend, Sending
        <3>3. sms'[m].month = sms[m].month /\ sms'[m].platform = sms[m].platform
            BY <1>5, <2>2, <1>0, SMT DEF SettleSms, SmsRows
        <3> QED BY <1>1, <3>1, <3>2, <3>3 DEF Counting, CountedIn, SmsCounted
    <2> QED BY <2>1, <2>2
<1> QED BY <1>3, <1>4, <1>5
        DEF SmsNext, BeginSend, LookSms, CallProvider, SenderDies, MonthTurns, smsVars

(* The place it saw free is the one it takes. *)
LEMMA PlaceTaken ==
    ASSUME SmsTypeInv, PlaceInv, NEW s \in Senders, TakeSms(s), send[s].platform,
           NEW n \in 0..MaxSmsMonth, NEW c \in Centers, send[s].month = n,
           Within(n, c)
    PROVE Within(n, c)'
<1>0. send[s] \in SendJobs /\ sms \in [Messages -> SmsRows] /\ torn \subseteq torn'
    BY DEF SmsTypeInv, SmsTypeOK, SendsOK, TakeSms
<1> DEFINE x == send[s].message
<1>1. x \in Messages /\ x[1] \in Centers
    BY <1>0, SMT DEF SendJobs, Messages
<1>2. \A m \in Messages : m # x => sms'[m] = sms[m]
    BY <1>0, SMT DEF TakeSms
<1>3. Counting(n)' \subseteq Counting(n) \cup {x}
    BY <1>0, <1>2 DEF Counting, CountedIn
<1>4. CountingOf(n, c)' \subseteq CountingOf(n, c) \cup {x}
    BY <1>3 DEF CountingOf
<1>5. x[1] # c => CountingOf(n, c)' \subseteq CountingOf(n, c)
    BY <1>3 DEF CountingOf
<1>6. FreePlace(n, x[1])
    BY <1>1 DEF PlaceInv, TakeSms
<1> HIDE DEF x
<1>7. /\ Cardinality(Counting(n)') <= Cardinality(Counting(n)) + 1
      /\ Cardinality(CountingOf(n, c)') <= Cardinality(CountingOf(n, c)) + 1
    BY <1>3, <1>4, OneMore, FiniteCounts
<1>8. x[1] # c => Cardinality(CountingOf(n, c)') <= Cardinality(CountingOf(n, c))
    BY <1>5, FiniteCounts, FS_Subset
<1>9. /\ Cardinality(Counting(n)) \in Nat /\ Cardinality(Counting(n)') \in Nat
      /\ Cardinality(CountingOf(n, c)) \in Nat /\ Cardinality(CountingOf(n, c)') \in Nat
    BY FiniteCounts, FS_CardinalityType
<1>10. TotalSms > 0 => Cardinality(Counting(n)') <= TotalSms
    BY <1>6, <1>7, <1>9, SmsAssumption, SMT DEF FreePlace
<1>11. Cardinality(CountingOf(n, c)') <= PerCenter
    <2>1. CASE x[1] = c
        BY <2>1, <1>6, <1>7, <1>9, SmsAssumption, SMT DEF FreePlace
    <2>2. CASE x[1] # c
        BY <2>2, <1>8, <1>9, SmsAssumption, SMT DEF Within
    <2> QED BY <2>1, <2>2
<1> QED BY <1>10, <1>11 DEF Within

LEMMA PlaceStep == SmsTypeInv /\ FateInv /\ PlaceInv /\ [SmsNext]_smsVars => PlaceInv'
<1> SUFFICES ASSUME SmsTypeInv, FateInv, PlaceInv, [SmsNext]_smsVars PROVE PlaceInv'
    OBVIOUS
<1>0. send \in [Senders -> SendJobs] /\ send' \in [Senders -> SendJobs]
    BY SmsTypeStep DEF SmsTypeInv, SendsOK
<1>1. \A s \in Senders : send'[s].phase = "TAKE" =>
        \/ send'[s] = send[s]
        \/ /\ LookSms(s) /\ send'[s].month = send[s].month
           /\ send'[s].platform = send[s].platform /\ send'[s].message = send[s].message
           /\ ~(send[s].platform /\ QuotaUsed(send[s].message[1], send[s].month))
    <2> SUFFICES ASSUME NEW s \in Senders, send'[s].phase = "TAKE", send'[s] # send[s]
                 PROVE /\ LookSms(s) /\ send'[s].month = send[s].month
                       /\ send'[s].platform = send[s].platform /\ send'[s].message = send[s].message
                       /\ ~(send[s].platform /\ QuotaUsed(send[s].message[1], send[s].month))
        OBVIOUS
    <2>1. ASSUME NEW r \in Senders, NEW m \in Messages, NEW platform \in BOOLEAN,
                 BeginSend(r, m, platform)
          PROVE FALSE
        <3>1. r = s
            BY <2>1, <1>0, SMT DEF BeginSend
        <3>2. send'[s] = [Unsent EXCEPT !.phase = "LOCK", !.message = m, !.month = month,
                                        !.platform = platform]
            BY <2>1, <3>1, <1>0 DEF BeginSend
        <3> QED BY <3>2, SMT DEF Unsent
    <2>2. ASSUME NEW r \in Senders, TakeSms(r) \/ SettleSms(r) \/ SenderDies(r) PROVE FALSE
        <3>1. CASE send' = [send EXCEPT ![r] = Unsent]
            BY <3>1, <1>0, SMT DEF Unsent
        <3>2. CASE send' = [send EXCEPT ![r].phase = "CALL"]
            BY <3>2, <1>0, SMT DEF SendJobs
        <3> QED BY <2>2, <3>1, <3>2 DEF TakeSms, SettleSms, SenderDies
    <2>3. ASSUME NEW r \in Senders, NEW gone \in BOOLEAN,
                 NEW result \in {"SENT", "FAILED", "UNKNOWN"}, CallProvider(r, gone, result)
          PROVE FALSE
        BY <2>3, <1>0, SMT DEF CallProvider, SendJobs
    <2>4. ASSUME NEW r \in Senders, LookSms(r)
          PROVE /\ LookSms(s) /\ send'[s].month = send[s].month
                /\ send'[s].platform = send[s].platform /\ send'[s].message = send[s].message
                /\ ~(send[s].platform /\ QuotaUsed(send[s].message[1], send[s].month))
        <3>1. r = s
            BY <2>4, <1>0, SMT DEF LookSms
        <3>2. send'[s] # Unsent
            BY SMT DEF Unsent
        <3>3. /\ send'[s] = [send[s] EXCEPT !.phase = "TAKE", !.row = sms[send[s].message]]
              /\ ~(send[s].platform /\ QuotaUsed(send[s].message[1], send[s].month))
            BY <2>4, <3>1, <3>2, <1>0 DEF LookSms
        <3>4. send[s] \in SendJobs BY <1>0
        <3> QED BY <2>4, <3>1, <3>3, <3>4, SMT DEF SendJobs
    <2>5. ASSUME MonthTurns \/ UNCHANGED smsVars PROVE FALSE
        BY <2>5 DEF MonthTurns, smsVars
    <2> QED BY <2>1, <2>2, <2>3, <2>4, <2>5 DEF SmsNext
<1>2. ASSUME NEW r \in Senders, NEW s \in Senders, send'[r].phase = "TAKE",
             send'[s].phase = "TAKE", send'[r].month = send'[s].month
      PROVE r = s
    <2>1. send'[r] = send[r] /\ send'[s] = send[s] => r = s
        BY <1>2 DEF PlaceInv
    <2>2. ASSUME NEW q \in Senders, NEW p \in Senders, LookSms(q), send'[q].month = send[q].month,
                 send'[p] = send[p], send'[p].phase = "TAKE", send'[p].month = send'[q].month
          PROVE FALSE
        BY <2>2 DEF LookSms, MonthFree
    <2>3. ASSUME LookSms(r), LookSms(s) PROVE r = s
        BY <1>2, <2>3, <1>0, SMT DEF LookSms
    <2> QED BY <1>1, <1>2, <2>1, <2>2, <2>3
<1>3. ASSUME NEW s \in Senders, NEW n \in 0..MaxSmsMonth, NEW c \in Centers,
             send'[s].phase = "TAKE", send'[s].platform, send'[s].month = n, send'[s].message[1] = c
      PROVE FreePlace(n, c)'
    <2>1. CASE send'[s] = send[s]
        <3>1. FreePlace(n, c)
            BY <2>1, <1>3 DEF PlaceInv
        <3>2. \A r \in Senders : TakeSms(r) => send[r].month # n
            <4> SUFFICES ASSUME NEW r \in Senders, TakeSms(r), send[r].month = n PROVE FALSE
                OBVIOUS
            <4>1. send[r].phase = "TAKE"
                BY DEF TakeSms
            <4>2. r = s
                BY <4>1, <2>1, <1>3 DEF PlaceInv
            <4>3. CASE send' = [send EXCEPT ![r] = Unsent]
                BY <4>3, <4>2, <1>3, <1>0, SMT DEF Unsent
            <4>4. CASE send' = [send EXCEPT ![r].phase = "CALL"]
                BY <4>4, <4>2, <1>3, <1>0, SMT DEF SendJobs
            <4> QED BY <4>3, <4>4 DEF TakeSms
        <3>3. Counting(n)' \subseteq Counting(n)
            BY <3>2, CountStep
        <3> QED BY <3>1, <3>3, NotMore
    <2>2. CASE LookSms(s) /\ ~QuotaUsed(c, n)
        <3>1. Counting(n)' = Counting(n) /\ CountingOf(n, c)' = CountingOf(n, c)
            BY <2>2 DEF LookSms, Counting, CountingOf, CountedIn
        <3>2. /\ ~(Cardinality({m \in CountedIn(n) : m[1] = c}) >= PerCenter)
              /\ TotalSms > 0 => ~(Cardinality(CountedIn(n)) >= TotalSms)
            BY <2>2 DEF QuotaUsed
        <3>3. /\ CountingOf(n, c) \subseteq {m \in CountedIn(n) : m[1] = c}
              /\ Counting(n) \subseteq CountedIn(n)
              /\ {m \in CountedIn(n) : m[1] = c} \subseteq CountedIn(n)
            BY DEF CountingOf, Counting
        <3>4. /\ IsFiniteSet(CountedIn(n)) /\ IsFiniteSet({m \in CountedIn(n) : m[1] = c})
              /\ IsFiniteSet(CountingOf(n, c)) /\ IsFiniteSet(Counting(n))
            BY <3>3, FiniteCounts, FS_Subset
        <3>5. /\ Cardinality(CountingOf(n, c)) <= Cardinality({m \in CountedIn(n) : m[1] = c})
              /\ Cardinality(Counting(n)) <= Cardinality(CountedIn(n))
            BY <3>3, <3>4, FS_Subset
        <3>6. /\ Cardinality(CountingOf(n, c)) \in Nat /\ Cardinality(Counting(n)) \in Nat
              /\ Cardinality({m \in CountedIn(n) : m[1] = c}) \in Nat
              /\ Cardinality(CountedIn(n)) \in Nat
            BY <3>4, FS_CardinalityType
        <3>7. FreePlace(n, c)
            BY <3>2, <3>5, <3>6, SmsAssumption, SMT DEF FreePlace
        <3> QED BY <3>1, <3>7 DEF FreePlace
    <2> QED BY <1>1, <1>3, <2>1, <2>2
<1> QED BY <1>2, <1>3 DEF PlaceInv

LEMMA WithinStep ==
    SmsTypeInv /\ FateInv /\ PlaceInv /\ SmsWithinBudget /\ [SmsNext]_smsVars => SmsWithinBudget'
<1> SUFFICES ASSUME SmsTypeInv, FateInv, PlaceInv, SmsWithinBudget, [SmsNext]_smsVars,
                    NEW n \in 0..MaxSmsMonth, NEW c \in Centers
             PROVE Within(n, c)'
    BY SmsAssumption DEF SmsWithinBudget, Within, Counting, CountingOf
<1>1. Within(n, c)
    BY DEF SmsWithinBudget, Within, Counting, CountingOf
<1>2. CASE \E s \in Senders : TakeSms(s) /\ send[s].month = n /\ send[s].platform
    BY <1>1, <1>2, PlaceTaken
<1>3. CASE \A s \in Senders : TakeSms(s) => send[s].month # n \/ ~send[s].platform
    BY <1>1, <1>3, CountStep, NotMore
<1> QED BY <1>2, <1>3

-----------------------------------------------------------------------------
LEMMA SmsInvariant == SmsSpec => []SmsInv
<1>1. SmsInv /\ [SmsNext]_smsVars => SmsInv'
    BY SmsTypeStep, FateStep, PlaceStep, WithinStep DEF SmsInv
<1> QED BY <1>1, InitSms, PTL DEF SmsSpec

(* Rows, months and copies keep their types (sms_sends' columns).            *)
THEOREM SmsTypeCorrect == SmsSpec => []SmsTypeOK
<1>1. SmsInv => SmsTypeOK
    BY DEF SmsInv, SmsTypeInv
<1> QED BY <1>1, SmsInvariant, PTL

(* No month's budget is passed: reserveSms counts under the month's lock,    *)
(* and what a refused send gives back is taken again at most once.           *)
THEOREM BudgetHolds == SmsSpec => []SmsWithinBudget
<1>1. SmsInv => SmsWithinBudget
    BY DEF SmsInv
<1> QED BY <1>1, SmsInvariant, PTL

(* A message reaches its reader once at most, for any number of sends and    *)
(* tries: reserveSms gives the right to send to one, and takes it back only  *)
(* when the provider refused for certain.                                    *)
THEOREM SentOnce == SmsSpec => []SmsNeverTwice
<1>1. SmsInv => SmsNeverTwice
    BY DEF SmsInv, FateInv, SmsNeverTwice
<1> QED BY <1>1, SmsInvariant, PTL

(***************************************************************************)
(*                                Phone calls                              *)
(***************************************************************************)
CallJobs == [phase : {"IDLE", "MATCH", "OPEN", "LINK", "ASSIGN", "NOTE", "DONE"}, call : Calls,
         row : Rows, finished : BOOLEAN, contact : {"UNKNOWN", "LEAD", "STUDENT"},
         created : BOOLEAN]

Leads == [exists : BOOLEAN, manager : Users \cup {NoUser}, by : Calls \cup {NoCall}]

CallTypeInv ==
    /\ calls \in [Calls -> Rows] /\ request \in [Requests -> CallJobs]
    /\ leads \in [Numbers -> Leads] /\ notes \in [Calls -> Nat]
    /\ stored \in [Calls -> SUBSET CallEvents] /\ \A c \in Calls : stored[c] \subseteq EventsOf(c)
    /\ kept \subseteq Calls /\ failures \in Nat

(* A lead that a call opened is the one of its number; a request that says   *)
(* its call opened it, or works with a row that says so, is right.           *)
OpenerInv ==
    /\ \A n \in Numbers : leads[n].by # NoCall => leads[n].exists /\ NumberOf[leads[n].by] = n
    /\ MarkedOpenedIt
    /\ \A d \in Requests :
         LET job == request[d] IN
         job.created \/ job.row.createdLead => leads[NumberOf[job.call]].by = job.call

TalkedOn(c, row) ==
    row.status = "ANSWERED" => \E e \in stored[c] : e.kind \in {"ANSWER", "END"} /\ e.ext = row.ext

(* Whoever a row says answered is the phone of an event that was stored.     *)
AnswerInv ==
    /\ \A c \in Calls : TalkedOn(c, calls[c])
    /\ \A d \in Requests : TalkedOn(request[d].call, request[d].row)
    /\ \A d \in Requests : request[d].phase = "ASSIGN" => ToAssign(request[d].row)
    /\ LeadToWhoAnswered

(* The direction of a row that has its number is the provider's.             *)
DirectionOK(c, row) ==
    /\ row.direction = "OUTBOUND" => c \in OutgoingCalls
    /\ row.number /\ c \in OutgoingCalls => row.direction = "OUTBOUND"

CallerInv ==
    /\ \A c \in Calls : DirectionOK(c, calls[c])
    /\ \A d \in Requests :
         LET job == request[d] IN
         /\ DirectionOK(job.call, job.row)
         /\ job.phase \in {"MATCH", "OPEN", "LINK"} => job.row.number
         /\ job.phase = "OPEN" => job.call \notin OutgoingCalls
         /\ job.phase = "LINK" => job.contact # "UNKNOWN"
         /\ job.row.contact # "UNKNOWN" => calls[job.call].contact = job.row.contact
         /\ job.phase \in {"ASSIGN", "NOTE", "DONE"} /\ job.row.number =>
              job.row.contact # "UNKNOWN" \/ job.call \in OutgoingCalls
    /\ CallersAreKept

Finisher(d, c) == request[d].call = c /\ request[d].finished

(* A request that finished a call goes on to its note, unless it fails.      *)
NoteInv ==
    /\ \A c \in Calls : notes[c] <= 1 /\ (notes[c] = 1 => calls[c].ended)
    /\ \A c \in Calls, d \in Requests : Finisher(d, c) =>
         /\ calls[c].ended
         /\ request[d].phase # "DONE" => notes[c] = 0
         /\ \A b \in Requests : Finisher(b, c) => b = d
         /\ request[d].phase = "NOTE" => request[d].row.contact = "LEAD"
    /\ \A d \in Requests : request[d].phase \in {"IDLE", "NOTE"} => 
         (request[d].phase = "NOTE" <=> request[d].finished)
    /\ \A c \in Calls \ OutgoingCalls : calls[c].ended /\ failures = 0 =>
         \/ notes[c] = 1 \/ calls[c].contact = "STUDENT"
         \/ \E d \in Requests : Finisher(d, c) /\ request[d].phase # "DONE"

CallInv == CallTypeInv /\ StatusOfEvents /\ OpenerInv /\ AnswerInv /\ CallerInv /\ NoteInv

-----------------------------------------------------------------------------
(* A row with one column changed, and the other columns as they were. *)
SameBut(s, r, column) ==
    /\ s \in Rows
    /\ column # "status" => s.status = r.status
    /\ column # "ended" => s.ended = r.ended
    /\ column # "direction" => s.direction = r.direction
    /\ column # "number" => s.number = r.number
    /\ column # "ext" => s.ext = r.ext
    /\ column # "contact" => s.contact = r.contact
    /\ column # "createdLead" => s.createdLead = r.createdLead

LEMMA RowWith ==
    ASSUME NEW r \in Rows
    PROVE /\ \A v \in {"NONE", "RINGING", "ANSWERED", "MISSED"} : LET s == [r EXCEPT !.status = v] IN
             SameBut(s, r, "status") /\ s.status = v
          /\ \A v \in BOOLEAN : LET s == [r EXCEPT !.ended = v] IN
             SameBut(s, r, "ended") /\ s.ended = v
          /\ \A v \in {"INBOUND", "OUTBOUND"} : LET s == [r EXCEPT !.direction = v] IN
             SameBut(s, r, "direction") /\ s.direction = v
          /\ \A v \in BOOLEAN : LET s == [r EXCEPT !.number = v] IN
             SameBut(s, r, "number") /\ s.number = v
          /\ \A v \in Extensions \cup {NoExtension} : LET s == [r EXCEPT !.ext = v] IN
             SameBut(s, r, "ext") /\ s.ext = v
          /\ \A v \in {"UNKNOWN", "LEAD", "STUDENT"} : LET s == [r EXCEPT !.contact = v] IN
             SameBut(s, r, "contact") /\ s.contact = v
          /\ \A v \in BOOLEAN : LET s == [r EXCEPT !.createdLead = v] IN
             SameBut(s, r, "createdLead") /\ s.createdLead = v
BY SMT DEF Rows, SameBut

LEMMA Empty ==
    /\ NoCallRow \in Rows /\ Waiting \in CallJobs /\ NoLeadRow \in Leads
    /\ NoCallRow.status = "NONE" /\ ~NoCallRow.ended /\ NoCallRow.direction = "INBOUND"
    /\ ~NoCallRow.number /\ NoCallRow.contact = "UNKNOWN" /\ ~NoCallRow.createdLead
    /\ Waiting.phase = "IDLE" /\ Waiting.row = NoCallRow /\ ~Waiting.finished
    /\ Waiting.contact = "UNKNOWN" /\ ~Waiting.created
    /\ ~NoLeadRow.exists /\ NoLeadRow.manager = NoUser /\ NoLeadRow.by = NoCall
<1>1. NoCallRow \in Rows /\ NoLeadRow \in Leads
    BY SMT DEF NoCallRow, Rows, NoLeadRow, Leads
<1>2. AnyCall \in Calls
    BY CallAssumption DEF AnyCall
<1>3. Waiting \in CallJobs
    BY <1>1, <1>2, SMT DEF Waiting, CallJobs
<1> QED BY <1>1, <1>3, SMT DEF NoCallRow, Waiting, NoLeadRow

LEMMA NextPhase ==
    ASSUME NEW job
    PROVE /\ AfterLink(job) \in {"ASSIGN", "NOTE", "DONE"}
          /\ AfterLink(job) = "ASSIGN" => ToAssign(job.row)
          /\ AfterLink(job) = "NOTE" => job.finished /\ job.row.contact = "LEAD"
          /\ AfterLink(job) = "DONE" => ~(job.finished /\ job.row.contact = "LEAD")
BY DEF AfterLink

(* patchFor: what an event makes of a row's columns. *)
LEMMA DirectedRow ==
    ASSUME NEW c \in Calls, NEW row \in Rows, NEW kind \in Kinds
    PROVE LET s == Directed(c, row, kind) IN
          /\ s \in Rows /\ s.status = row.status /\ s.ended = row.ended /\ s.ext = row.ext
          /\ s.contact = row.contact /\ s.createdLead = row.createdLead
          /\ (s.number <=> row.number \/ NamesNumber(kind))
          /\ IF NamesNumber(kind)
             THEN s.direction = IF c \in OutgoingCalls THEN "OUTBOUND" ELSE "INBOUND"
             ELSE s.direction = row.direction
<1>1. CASE ~NamesNumber(kind)
    BY <1>1, SMT DEF Directed, Rows
<1>2. CASE NamesNumber(kind)
    <2> DEFINE d == IF c \in OutgoingCalls THEN "OUTBOUND" ELSE "INBOUND"
               r1 == [row EXCEPT !.number = TRUE]
               r2 == [r1 EXCEPT !.direction = d]
    <2>1. d \in {"INBOUND", "OUTBOUND"} OBVIOUS
    <2>2. /\ r1 \in Rows /\ r1.status = row.status /\ r1.ended = row.ended /\ r1.ext = row.ext
          /\ r1.contact = row.contact /\ r1.createdLead = row.createdLead /\ r1.number
        <3>1. SameBut(r1, row, "number") /\ r1.number = TRUE
            BY RowWith
        <3> QED BY <3>1, SMT DEF SameBut
    <2>3. Directed(c, row, kind) = r2
        BY <1>2 DEF Directed
    <2> HIDE DEF d, r1
    <2>4. /\ r2 \in Rows /\ r2.status = r1.status /\ r2.ended = r1.ended /\ r2.ext = r1.ext
          /\ r2.contact = r1.contact /\ r2.createdLead = r1.createdLead /\ r2.number = r1.number
          /\ r2.direction = d
        <3>1. SameBut(r2, r1, "direction") /\ r2.direction = d
            BY <2>1, <2>2, RowWith
        <3> QED BY <3>1, SMT DEF SameBut
    <2> HIDE DEF r2
    <2> QED BY <1>2, <2>2, <2>3, <2>4 DEF d
<1> QED BY <1>1, <1>2

LEMMA PatchedRow ==
    ASSUME NEW c \in Calls, calls[c] \in Rows, NEW e \in EventsOf(c)
    PROVE LET s == Patched(c, e)
              kind == e.kind IN
          /\ s \in Rows
          /\ s.contact = calls[c].contact /\ s.createdLead = calls[c].createdLead
          /\ (s.number <=> calls[c].number \/ NamesNumber(kind))
          /\ (s.ended <=> calls[c].ended \/ kind \in {"LEG", "END"})
          /\ IF NamesNumber(kind)
             THEN s.direction = IF c \in OutgoingCalls THEN "OUTBOUND" ELSE "INBOUND"
             ELSE s.direction = calls[c].direction
          /\ kind = "END" => s.status = "ANSWERED" /\ s.ext = e.ext
          /\ kind = "LEG" => IF calls[c].status = "ANSWERED"
                             THEN s.status = "ANSWERED" /\ s.ext = calls[c].ext
                             ELSE s.status = "MISSED"
          /\ kind = "ANSWER" => IF calls[c].ended
                                THEN /\ calls[c].status # "NONE" => s.status = calls[c].status
                                     /\ s.ext = calls[c].ext
                                     /\ s.status = "ANSWERED" => calls[c].status = "ANSWERED"
                                ELSE s.status = "ANSWERED" /\ s.ext = e.ext
          /\ kind \in {"START", "RING", "RECORD"} =>
                /\ calls[c].status # "NONE" => s.status = calls[c].status
                /\ calls[c].status = "NONE" => s.status = "RINGING"
                /\ calls[c].status = "ANSWERED" => s.ext = calls[c].ext
<1> DEFINE kind == e.kind
           old == calls[c]
           r0 == [old EXCEPT !.status = IF @ = "NONE" THEN "RINGING" ELSE @]
           row == Directed(c, r0, kind)
<1>0. kind \in Kinds /\ e.ext \in Extensions \cup {NoExtension}
    BY SMT DEF EventsOf, CallEvents
<1>1. /\ r0 \in Rows /\ r0.ended = old.ended /\ r0.direction = old.direction
      /\ r0.number = old.number /\ r0.ext = old.ext /\ r0.contact = old.contact
      /\ r0.createdLead = old.createdLead
      /\ r0.status = IF old.status = "NONE" THEN "RINGING" ELSE old.status
    BY SMT DEF Rows
<1>2. Patched(c, e) =
        CASE kind \in {"START", "RING"} -> Rings(row, e.ext)
          [] kind = "ANSWER" -> PickedUp(row, e.ext)
          [] kind = "LEG" -> LegEnds(row, e.ext)
          [] kind = "END" -> TalkEnds(row, e.ext)
          [] kind = "RECORD" -> row
    BY DEF Patched
<1> HIDE DEF r0
<1>3. /\ row \in Rows /\ row.status = r0.status /\ row.ended = old.ended /\ row.ext = old.ext
      /\ row.contact = old.contact /\ row.createdLead = old.createdLead
      /\ (row.number <=> old.number \/ NamesNumber(kind))
      /\ IF NamesNumber(kind)
         THEN row.direction = IF c \in OutgoingCalls THEN "OUTBOUND" ELSE "INBOUND"
         ELSE row.direction = old.direction
    BY <1>0, <1>1, DirectedRow
<1> HIDE DEF row, kind, old
<1>4. CASE kind \in {"START", "RING"}
    <2>1. Patched(c, e) = Rings(row, e.ext)
        BY <1>2, <1>4
    <2>2. CASE Rings(row, e.ext) = row
        BY <1>1, <1>3, <1>4, <2>1, <2>2 DEF kind, old
    <2>3. CASE row.status # "ANSWERED" /\ Rings(row, e.ext) = [row EXCEPT !.ext = e.ext]
        <3> DEFINE s == [row EXCEPT !.ext = e.ext]
        <3>1. /\ s \in Rows /\ s.status = row.status /\ s.ended = row.ended
              /\ s.direction = row.direction /\ s.number = row.number
              /\ s.contact = row.contact /\ s.createdLead = row.createdLead
            BY <1>0, <1>3, SMT DEF Rows
        <3> HIDE DEF s
        <3> QED BY <1>1, <1>3, <1>4, <2>1, <2>3, <3>1 DEF s, kind, old
    <2> QED BY <2>2, <2>3 DEF Rings
<1>5. CASE kind = "ANSWER"
    <2>1. Patched(c, e) = PickedUp(row, e.ext)
        BY <1>2, <1>5
    <2>2. CASE row.ended
        <3>1. Patched(c, e) = row
            BY <2>1, <2>2 DEF PickedUp
        <3> QED BY <1>1, <1>3, <1>5, <2>2, <3>1 DEF kind, old
    <2>3. CASE ~row.ended
        <3> DEFINE s0 == [row EXCEPT !.status = "ANSWERED"]
                   s == [s0 EXCEPT !.ext = e.ext]
        <3>1. /\ s0 \in Rows /\ s0.status = "ANSWERED" /\ s0.ended = row.ended
              /\ s0.direction = row.direction /\ s0.number = row.number
              /\ s0.contact = row.contact /\ s0.createdLead = row.createdLead
            BY <1>3, SMT DEF Rows
        <3>2. Patched(c, e) = s
            BY <2>1, <2>3 DEF PickedUp
        <3> HIDE DEF s0
        <3>3. /\ s \in Rows /\ s.status = s0.status /\ s.ended = s0.ended
              /\ s.direction = s0.direction /\ s.number = s0.number /\ s.ext = e.ext
              /\ s.contact = s0.contact /\ s.createdLead = s0.createdLead
            BY <1>0, <3>1, SMT DEF Rows
        <3> HIDE DEF s
        <3> QED BY <1>1, <1>3, <1>5, <2>3, <3>1, <3>2, <3>3 DEF kind, old
    <2> QED BY <2>2, <2>3
<1>6. CASE kind = "LEG"
    <2>1. Patched(c, e) = LegEnds(row, e.ext)
        BY <1>2, <1>6
    <2> DEFINE s0 == [row EXCEPT !.ended = TRUE]
    <2>2. /\ s0 \in Rows /\ s0.status = row.status /\ s0.ended
          /\ s0.direction = row.direction /\ s0.number = row.number /\ s0.ext = row.ext
          /\ s0.contact = row.contact /\ s0.createdLead = row.createdLead
        <3>1. SameBut(s0, row, "ended") /\ s0.ended = TRUE
            BY <1>3, RowWith
        <3> QED BY <3>1, SMT DEF SameBut
    <2>3. CASE row.status = "ANSWERED"
        <3>1. Patched(c, e) = s0
            BY <2>1, <2>3 DEF LegEnds
        <3> HIDE DEF s0
        <3> QED BY <1>1, <1>3, <1>6, <2>2, <2>3, <3>1 DEF kind, old
    <2>4. CASE row.status # "ANSWERED"
        <3> DEFINE ext == IF row.ext = NoExtension THEN e.ext ELSE row.ext
                   s1 == [s0 EXCEPT !.status = "MISSED"]
                   s == [s1 EXCEPT !.ext = ext]
        <3>1. Patched(c, e) = s
            BY <2>1, <2>4, <1>3, SMT DEF LegEnds, Rows
        <3>2. ext \in Extensions \cup {NoExtension}
            BY <1>0, <1>3, SMT DEF Rows
        <3> HIDE DEF s0, ext
        <3>3. /\ s1 \in Rows /\ s1.status = "MISSED" /\ s1.ended = s0.ended
              /\ s1.direction = s0.direction /\ s1.number = s0.number
              /\ s1.contact = s0.contact /\ s1.createdLead = s0.createdLead
            <4>1. SameBut(s1, s0, "status") /\ s1.status = "MISSED"
                BY <2>2, RowWith
            <4> QED BY <4>1, SMT DEF SameBut
        <3> HIDE DEF s1
        <3>4. /\ s \in Rows /\ s.status = s1.status /\ s.ended = s1.ended
              /\ s.direction = s1.direction /\ s.number = s1.number
              /\ s.contact = s1.contact /\ s.createdLead = s1.createdLead
            BY <3>2, <3>3, SMT DEF Rows
        <3> HIDE DEF s
        <3> QED BY <1>1, <1>3, <1>6, <2>2, <2>4, <3>1, <3>3, <3>4 DEF kind, old
    <2> QED BY <2>3, <2>4
<1>7. CASE kind = "END"
    <2> DEFINE s0 == [row EXCEPT !.ended = TRUE]
               s1 == [s0 EXCEPT !.status = "ANSWERED"]
               s == [s1 EXCEPT !.ext = e.ext]
    <2>1. Patched(c, e) = s
        BY <1>2, <1>7 DEF TalkEnds
    <2>2. /\ s0 \in Rows /\ s0.ended
          /\ s0.direction = row.direction /\ s0.number = row.number
          /\ s0.contact = row.contact /\ s0.createdLead = row.createdLead
        <3>1. SameBut(s0, row, "ended") /\ s0.ended = TRUE
            BY <1>3, RowWith
        <3> QED BY <3>1, SMT DEF SameBut
    <2> HIDE DEF s0
    <2>3. /\ s1 \in Rows /\ s1.status = "ANSWERED" /\ s1.ended = s0.ended
          /\ s1.direction = s0.direction /\ s1.number = s0.number
          /\ s1.contact = s0.contact /\ s1.createdLead = s0.createdLead
        <3>1. SameBut(s1, s0, "status") /\ s1.status = "ANSWERED"
            BY <2>2, RowWith
        <3> QED BY <3>1, SMT DEF SameBut
    <2> HIDE DEF s1
    <2>4. /\ s \in Rows /\ s.status = s1.status /\ s.ended = s1.ended
          /\ s.direction = s1.direction /\ s.number = s1.number /\ s.ext = e.ext
          /\ s.contact = s1.contact /\ s.createdLead = s1.createdLead
        BY <1>0, <2>3, SMT DEF Rows
    <2> HIDE DEF s
    <2> QED BY <1>1, <1>3, <1>7, <2>1, <2>2, <2>3, <2>4 DEF kind, old
<1>8. CASE kind = "RECORD"
    <2>1. Patched(c, e) = row
        BY <1>2, <1>8
    <2> QED BY <1>1, <1>3, <1>8, <2>1 DEF kind, old
<1> QED BY <1>0, <1>4, <1>5, <1>6, <1>7, <1>8 DEF Kinds

-----------------------------------------------------------------------------
(* What each action does, request by request. *)
Only(d) == \A b \in Requests : b # d => request'[b] = request[b]

(* Where a job goes that knows its caller. *)
Goes(k) ==
    /\ k.phase \in {"ASSIGN", "NOTE", "DONE"}
    /\ k.phase = "ASSIGN" => ToAssign(k.row)
    /\ k.phase = "NOTE" => k.finished /\ k.row.contact = "LEAD"
    /\ k.phase = "DONE" => ~(k.finished /\ k.row.contact = "LEAD")

CallPhases == {"IDLE", "MATCH", "OPEN", "LINK", "ASSIGN", "NOTE", "DONE"}

(* A job with one field changed, and the other fields as they were. *)
JobBut(k, j, field) ==
    /\ k \in CallJobs
    /\ field # "phase" => k.phase = j.phase
    /\ field # "call" => k.call = j.call
    /\ field # "row" => k.row = j.row
    /\ field # "finished" => k.finished = j.finished
    /\ field # "contact" => k.contact = j.contact
    /\ field # "created" => k.created = j.created

LEMMA JobField ==
    ASSUME NEW j \in CallJobs
    PROVE /\ \A v \in CallPhases : LET k == [j EXCEPT !.phase = v] IN
             JobBut(k, j, "phase") /\ k.phase = v
          /\ \A v \in Calls : LET k == [j EXCEPT !.call = v] IN
             JobBut(k, j, "call") /\ k.call = v
          /\ \A v \in Rows : LET k == [j EXCEPT !.row = v] IN
             JobBut(k, j, "row") /\ k.row = v
          /\ \A v \in BOOLEAN : LET k == [j EXCEPT !.finished = v] IN
             JobBut(k, j, "finished") /\ k.finished = v
          /\ \A v \in {"UNKNOWN", "LEAD", "STUDENT"} : LET k == [j EXCEPT !.contact = v] IN
             JobBut(k, j, "contact") /\ k.contact = v
          /\ \A v \in BOOLEAN : LET k == [j EXCEPT !.created = v] IN
             JobBut(k, j, "created") /\ k.created = v
BY SMT DEF CallJobs, JobBut, CallPhases

LEMMA ReceiveDoes ==
    ASSUME CallTypeInv, NEW d \in Requests, NEW c \in Calls, NEW e \in EventsOf(c), Receive(d, c, e)
    PROVE LET k == request'[d]
              row == Patched(c, e) IN
          /\ request[d].phase = "IDLE" /\ Only(d) /\ request' \in [Requests -> CallJobs]
          /\ k.call = c /\ k.row = row /\ (k.finished <=> Finishes(calls[c], row))
          /\ k.contact = "UNKNOWN" /\ ~k.created
          /\ IF row.contact = "UNKNOWN" /\ row.number THEN k.phase = "MATCH" ELSE Goes(k)
          /\ row \in Rows /\ calls' \in [Calls -> Rows] /\ calls'[c] = row
          /\ \A b \in Calls : b # c => calls'[b] = calls[b]
          /\ stored'[c] = stored[c] \cup {e}
          /\ \A b \in Calls : b # c => stored'[b] = stored[b]
          /\ UNCHANGED <<leads, notes, kept, failures>>
<1> DEFINE row == Patched(c, e)
           f == Finishes(calls[c], row)
           k1 == [Waiting EXCEPT !.call = c]
           k2 == [k1 EXCEPT !.row = row]
           k3 == [k2 EXCEPT !.finished = f]
           p == IF row.contact = "UNKNOWN" /\ row.number THEN "MATCH" ELSE AfterLink(k3)
           k == [k3 EXCEPT !.phase = p]
<1>1. row \in Rows
    BY PatchedRow DEF CallTypeInv
<1>2. f \in BOOLEAN
    BY DEF Finishes
<1>3. p \in CallPhases
    BY NextPhase DEF CallPhases
<1>4. request' = [request EXCEPT ![d] = k] /\ request[d].phase = "IDLE"
    BY DEF Receive
<1> HIDE DEF row, f, k, p
<1>5. JobBut(k1, Waiting, "call") /\ k1.call = c
    BY Empty, JobField
<1> HIDE DEF k1
<1>5a. k1 \in CallJobs BY <1>5 DEF JobBut
<1>6. JobBut(k2, k1, "row") /\ k2.row = row
    BY <1>1, <1>5a, JobField
<1> HIDE DEF k2
<1>6a. k2 \in CallJobs BY <1>6 DEF JobBut
<1>7. JobBut(k3, k2, "finished") /\ k3.finished = f
    BY <1>2, <1>6a, JobField
<1> HIDE DEF k3
<1>7a. k3 \in CallJobs BY <1>7 DEF JobBut
<1>8. JobBut(k, k3, "phase") /\ k.phase = p
    BY <1>3, <1>7a, JobField DEF k
<1>9. /\ k \in CallJobs /\ k.call = c /\ k.row = row /\ (k.finished <=> f)
      /\ k.contact = "UNKNOWN" /\ ~k.created
    BY <1>5, <1>6, <1>7, <1>8, Empty DEF JobBut
<1>10. ASSUME ~(row.contact = "UNKNOWN" /\ row.number) PROVE Goes(k)
    <2>2. p = AfterLink(k3)
        BY <1>10 DEF p
    <2>3. k.row = k3.row /\ k.finished = k3.finished
        BY <1>8 DEF JobBut
    <2> QED BY <1>8, <2>2, <2>3, NextPhase DEF Goes
<1>11. request' \in [Requests -> CallJobs] /\ request'[d] = k /\ Only(d)
    BY <1>4, <1>9 DEF CallTypeInv, Only
<1>12. /\ calls' \in [Calls -> Rows] /\ calls'[c] = row
       /\ \A b \in Calls : b # c => calls'[b] = calls[b]
       /\ stored'[c] = stored[c] \cup {e}
       /\ \A b \in Calls : b # c => stored'[b] = stored[b]
    BY <1>1, SMT DEF Receive, CallTypeInv, row
<1>13. UNCHANGED <<leads, notes, kept, failures>>
    BY DEF Receive
<1>14. IF row.contact = "UNKNOWN" /\ row.number THEN k.phase = "MATCH" ELSE Goes(k)
    <2>1. row.contact = "UNKNOWN" /\ row.number => p = "MATCH"
        BY DEF p
    <2> QED BY <1>8, <1>10, <2>1
<1> QED BY <1>1, <1>4, <1>9, <1>11, <1>12, <1>13, <1>14 DEF row, f

LEMMA MatchDoes ==
    ASSUME CallTypeInv, NEW d \in Requests, Match(d)
    PROVE LET j == request[d]
              k == request'[d]
              n == NumberOf[j.call] IN
          /\ j.phase = "MATCH" /\ Only(d) /\ request' \in [Requests -> CallJobs]
          /\ k.call = j.call /\ k.row = j.row /\ k.finished = j.finished /\ k.created = j.created
          /\ \/ k.phase = "LINK" /\ k.contact \in {"LEAD", "STUDENT"}
             \/ k.phase = "OPEN" /\ j.row.direction = "INBOUND" /\ k.contact = j.contact
             \/ k.phase = "DONE" /\ j.row.direction # "INBOUND" /\ k.contact = j.contact
          /\ UNCHANGED <<calls, stored, leads, notes, kept, failures>>
<1>0. request[d] \in CallJobs BY DEF CallTypeInv
<1> DEFINE j == request[d]
<1>1. ASSUME NEW p \in CallPhases, NEW v \in {"UNKNOWN", "LEAD", "STUDENT"}
      PROVE LET k == [[j EXCEPT !.phase = p] EXCEPT !.contact = v] IN
            /\ k \in CallJobs /\ k.phase = p /\ k.contact = v
            /\ k.call = j.call /\ k.row = j.row /\ k.finished = j.finished /\ k.created = j.created
    <2> DEFINE k1 == [j EXCEPT !.phase = p]
               k == [k1 EXCEPT !.contact = v]
    <2>1. JobBut(k1, j, "phase") /\ k1.phase = p
        BY <1>0, JobField
    <2> HIDE DEF k1
    <2>1a. k1 \in CallJobs BY <2>1 DEF JobBut
    <2>2. JobBut(k, k1, "contact") /\ k.contact = v
        BY <2>1a, JobField
    <2> QED BY <2>1, <2>2 DEF JobBut, k1
<1>2. ASSUME NEW p \in CallPhases
      PROVE LET k == [j EXCEPT !.phase = p] IN JobBut(k, j, "phase") /\ k.phase = p
    BY <1>0, JobField
<1>3. ASSUME NEW k \in CallJobs, request' = [request EXCEPT ![d] = k]
      PROVE request' \in [Requests -> CallJobs] /\ request'[d] = k /\ Only(d)
    BY <1>3 DEF CallTypeInv, Only
<1>4. j.phase = "MATCH" /\ UNCHANGED <<calls, stored, leads, notes, kept, failures>>
    BY DEF Match
<1>5. CASE request' = [request EXCEPT ![d] = [j EXCEPT !.phase = "LINK", !.contact = "LEAD"]]
    <2> DEFINE k == [j EXCEPT !.phase = "LINK", !.contact = "LEAD"]
    <2>1. /\ k \in CallJobs /\ k.phase = "LINK" /\ k.contact = "LEAD"
          /\ k.call = j.call /\ k.row = j.row /\ k.finished = j.finished /\ k.created = j.created
        BY <1>1 DEF CallPhases
    <2> HIDE DEF k
    <2>2. request' \in [Requests -> CallJobs] /\ request'[d] = k /\ Only(d)
        BY <1>3, <1>5, <2>1 DEF k
    <2> QED BY <1>4, <2>1, <2>2
<1>6. CASE request' = [request EXCEPT ![d] = [j EXCEPT !.phase = "LINK", !.contact = "STUDENT"]]
    <2> DEFINE k == [j EXCEPT !.phase = "LINK", !.contact = "STUDENT"]
    <2>1. /\ k \in CallJobs /\ k.phase = "LINK" /\ k.contact = "STUDENT"
          /\ k.call = j.call /\ k.row = j.row /\ k.finished = j.finished /\ k.created = j.created
        BY <1>1 DEF CallPhases
    <2> HIDE DEF k
    <2>2. request' \in [Requests -> CallJobs] /\ request'[d] = k /\ Only(d)
        BY <1>3, <1>6, <2>1 DEF k
    <2> QED BY <1>4, <2>1, <2>2
<1>7. CASE request' = [request EXCEPT ![d] = [j EXCEPT !.phase = "OPEN"]] /\ j.row.direction = "INBOUND"
    BY <1>2, <1>3, <1>4, <1>7 DEF CallPhases, JobBut
<1>8. CASE request' = [request EXCEPT ![d] = [j EXCEPT !.phase = "DONE"]] /\ j.row.direction # "INBOUND"
    BY <1>2, <1>3, <1>4, <1>8 DEF CallPhases, JobBut
<1> QED BY <1>5, <1>6, <1>7, <1>8 DEF Match

LEMMA LeadWith ==
    /\ \A c \in Calls : [exists |-> TRUE, manager |-> NoUser, by |-> c] \in Leads
    /\ \A u \in Users \cup {NoUser} : [exists |-> TRUE, manager |-> u, by |-> NoCall] \in Leads
    /\ \A m \in Leads, u \in Users \cup {NoUser} : LET k == [m EXCEPT !.manager = u] IN
         k \in Leads /\ k.exists = m.exists /\ k.by = m.by /\ k.manager = u
BY SMT DEF Leads

LEMMA OpenDoes ==
    ASSUME CallTypeInv, NEW d \in Requests, Open(d)
    PROVE LET j == request[d]
              k == request'[d]
              n == NumberOf[j.call] IN
          /\ j.phase = "OPEN" /\ Only(d) /\ request' \in [Requests -> CallJobs]
          /\ k.phase = "LINK" /\ k.call = j.call /\ k.row = j.row /\ k.finished = j.finished
          /\ k.contact = "LEAD" /\ (k.created <=> ~leads[n].exists)
          /\ leads' \in [Numbers -> Leads] /\ \A m \in Numbers : m # n => leads'[m] = leads[m]
          /\ IF leads[n].exists THEN leads'[n] = leads[n]
             ELSE leads'[n].exists /\ leads'[n].by = j.call /\ leads'[n].manager = NoUser
          /\ UNCHANGED <<calls, stored, notes, kept, failures>>
<1> DEFINE j == request[d]
           n == NumberOf[j.call]
           o == Opened(n)
           k1 == [j EXCEPT !.phase = "LINK"]
           k2 == [k1 EXCEPT !.contact = "LEAD"]
           k == [k2 EXCEPT !.created = o]
           lead == [exists |-> TRUE, manager |-> NoUser, by |-> j.call]
<1>1. j \in CallJobs /\ o \in BOOLEAN
    BY DEF CallTypeInv, Opened
<1>2. j.call \in Calls /\ n \in Numbers
    BY <1>1, CallAssumption, SMT DEF CallJobs
<1>3. request' = [request EXCEPT ![d] = k]
    BY DEF Open
<1>4. /\ lead \in Leads /\ lead.exists /\ lead.by = j.call /\ lead.manager = NoUser
    BY <1>2, LeadWith
<1>5. /\ IF leads[n].exists THEN leads' = leads ELSE leads' = [leads EXCEPT ![n] = lead]
      /\ j.phase = "OPEN"
      /\ UNCHANGED <<calls, stored, notes, kept, failures>>
    BY DEF Open
<1> HIDE DEF lead
<1>6. /\ leads' \in [Numbers -> Leads] /\ \A m \in Numbers : m # n => leads'[m] = leads[m]
      /\ IF leads[n].exists THEN leads'[n] = leads[n] ELSE leads'[n] = lead
    BY <1>2, <1>4, <1>5 DEF CallTypeInv
<1>o. o <=> ~leads[n].exists
    BY DEF Opened
<1> HIDE DEF j, n, o
<1>7. JobBut(k1, j, "phase") /\ k1.phase = "LINK"
    BY <1>1, JobField DEF CallPhases
<1> HIDE DEF k1
<1>7a. k1 \in CallJobs BY <1>7 DEF JobBut
<1>8. JobBut(k2, k1, "contact") /\ k2.contact = "LEAD"
    BY <1>7a, JobField
<1> HIDE DEF k2
<1>8a. k2 \in CallJobs BY <1>8 DEF JobBut
<1>9. JobBut(k, k2, "created") /\ k.created = o
    BY <1>1, <1>8a, JobField
<1> HIDE DEF k
<1>10. /\ k \in CallJobs /\ k.phase = "LINK" /\ k.call = j.call /\ k.row = j.row
       /\ k.finished = j.finished /\ k.contact = "LEAD" /\ k.created = o
    BY <1>7, <1>8, <1>9 DEF JobBut
<1>11. request' \in [Requests -> CallJobs] /\ request'[d] = k /\ Only(d)
    BY <1>3, <1>10 DEF CallTypeInv, Only
<1> QED BY <1>4, <1>5, <1>6, <1>o, <1>10, <1>11 DEF j, n

LEMMA LinkDoes ==
    ASSUME CallTypeInv, NEW d \in Requests, LinkCall(d)
    PROVE LET j == request[d]
              k == request'[d]
              old == calls[j.call]
              row == calls'[j.call] IN
          /\ j.phase = "LINK" /\ Only(d) /\ request' \in [Requests -> CallJobs]
          /\ k.call = j.call /\ k.row = row /\ k.finished = j.finished /\ k.created = j.created
          /\ Goes(k)
          /\ calls' \in [Calls -> Rows] /\ \A b \in Calls : b # j.call => calls'[b] = calls[b]
          /\ row.status = old.status /\ row.ended = old.ended /\ row.direction = old.direction
          /\ row.number = old.number /\ row.ext = old.ext
          /\ IF old.contact = "UNKNOWN"
             THEN row.contact = j.contact /\ row.createdLead = j.created ELSE row = old
          /\ UNCHANGED <<stored, leads, notes, kept, failures>>
<1> DEFINE j == request[d]
           old == calls[j.call]
           r1 == [old EXCEPT !.contact = j.contact]
           r2 == [r1 EXCEPT !.createdLead = j.created]
           row == IF old.contact = "UNKNOWN" THEN r2 ELSE old
           k1 == [j EXCEPT !.row = row]
           p == AfterLink(k1)
           k == [k1 EXCEPT !.phase = p]
<1>1. j \in CallJobs
    BY DEF CallTypeInv
<1>2. /\ j.call \in Calls /\ j.contact \in {"UNKNOWN", "LEAD", "STUDENT"} /\ j.created \in BOOLEAN
      /\ old \in Rows
    BY <1>1, SMT DEF CallJobs, CallTypeInv
<1>3. /\ request' = [request EXCEPT ![d] = [j EXCEPT !.row = row, !.phase = p]]
      /\ calls' = [calls EXCEPT ![j.call] = row] /\ j.phase = "LINK"
      /\ UNCHANGED <<stored, leads, notes, kept, failures>>
    BY DEF LinkCall
<1>4. p \in CallPhases
    BY NextPhase DEF CallPhases
<1> HIDE DEF p
<1>5. request' = [request EXCEPT ![d] = k]
    BY <1>3
<1>p. p = AfterLink(k1)
    BY DEF p
<1> HIDE DEF j, old
<1>6. SameBut(r1, old, "contact") /\ r1.contact = j.contact
    BY <1>2, RowWith
<1> HIDE DEF r1
<1>6a. r1 \in Rows BY <1>6 DEF SameBut
<1>7. SameBut(r2, r1, "createdLead") /\ r2.createdLead = j.created
    BY <1>2, <1>6a, RowWith
<1> HIDE DEF r2
<1>8. /\ row \in Rows /\ row.status = old.status /\ row.ended = old.ended
      /\ row.direction = old.direction /\ row.number = old.number /\ row.ext = old.ext
      /\ IF old.contact = "UNKNOWN"
         THEN row.contact = j.contact /\ row.createdLead = j.created ELSE row = old
    BY <1>2, <1>6, <1>7 DEF SameBut
<1> HIDE DEF row
<1>9. JobBut(k1, j, "row") /\ k1.row = row
    BY <1>1, <1>8, JobField
<1> HIDE DEF k1
<1>9a. k1 \in CallJobs BY <1>9 DEF JobBut
<1>10. JobBut(k, k1, "phase") /\ k.phase = p
    BY <1>4, <1>9a, JobField
<1> HIDE DEF k
<1>11. /\ k \in CallJobs /\ k.call = j.call /\ k.row = row /\ k.finished = j.finished
       /\ k.created = j.created /\ k.phase = AfterLink(k1) /\ k1.row = k.row /\ k1.finished = k.finished
    BY <1>p, <1>9, <1>10 DEF JobBut
<1>12. Goes(k)
    BY <1>11, NextPhase DEF Goes
<1>13. request' \in [Requests -> CallJobs] /\ request'[d] = k /\ Only(d)
    BY <1>5, <1>11 DEF CallTypeInv, Only
<1>14. /\ calls' \in [Calls -> Rows] /\ calls'[j.call] = row
       /\ \A b \in Calls : b # j.call => calls'[b] = calls[b]
    BY <1>2, <1>3, <1>8 DEF CallTypeInv
<1> QED BY <1>3, <1>8, <1>11, <1>12, <1>13, <1>14 DEF j, old

(* The steps that only move a job on: from ASSIGN, NOTE and DONE. *)
Moves(d, phases) ==
    LET j == request[d]
        k == request'[d] IN
    /\ Only(d) /\ request' \in [Requests -> CallJobs] /\ k.phase \in phases
    /\ k.call = j.call /\ k.row = j.row /\ k.finished = j.finished
    /\ k.contact = j.contact /\ k.created = j.created

LEMMA MovesOn ==
    ASSUME CallTypeInv, NEW d \in Requests, NEW p \in CallPhases,
           request' = [request EXCEPT ![d].phase = p]
    PROVE Moves(d, {p})
<1> DEFINE k == [request[d] EXCEPT !.phase = p]
<1>1. request[d] \in CallJobs
    BY DEF CallTypeInv
<1>2. JobBut(k, request[d], "phase") /\ k.phase = p
    BY <1>1, JobField
<1>3. request' = [request EXCEPT ![d] = k]
    OBVIOUS
<1> HIDE DEF k
<1>4. request' \in [Requests -> CallJobs] /\ request'[d] = k /\ Only(d)
    BY <1>2, <1>3 DEF CallTypeInv, Only, JobBut
<1> QED BY <1>2, <1>4 DEF Moves, JobBut

LEMMA Leaves ==
    ASSUME CallTypeInv, NEW d \in Requests, request' = [request EXCEPT ![d] = Waiting]
    PROVE Only(d) /\ request' \in [Requests -> CallJobs] /\ request'[d] = Waiting
BY Empty DEF CallTypeInv, Only

LEMMA AssignDoes ==
    ASSUME CallTypeInv, NEW d \in Requests, Assign(d)
    PROVE LET j == request[d]
              k == request'[d]
              n == NumberOf[j.call] IN
          /\ j.phase = "ASSIGN" /\ Moves(d, {"NOTE", "DONE"})
          /\ k.phase = "NOTE" <=> j.finished
          /\ leads' \in [Numbers -> Leads] /\ n \in Numbers
          /\ \A m \in Numbers : leads'[m].exists = leads[m].exists /\ leads'[m].by = leads[m].by
          /\ \A m \in Numbers : leads'[m].manager # leads[m].manager =>
               m = n /\ leads'[m].manager = Manager(j.row)
          /\ UNCHANGED <<calls, stored, notes, kept, failures>>
<1> DEFINE j == request[d]
           n == NumberOf[j.call]
           u == IF leads[n].manager = NoUser THEN Manager(j.row) ELSE leads[n].manager
           p == IF j.finished THEN "NOTE" ELSE "DONE"
           lead == [leads[n] EXCEPT !.manager = u]
<1>1. j \in CallJobs /\ p \in CallPhases
    BY DEF CallTypeInv, CallPhases
<1>2. j.call \in Calls /\ n \in Numbers /\ j.row \in Rows
    BY <1>1, CallAssumption, SMT DEF CallJobs
<1>3. Manager(j.row) \in Users \cup {NoUser}
    <2>1. j.row.ext \in Extensions \cup {NoExtension}
        BY <1>2, SMT DEF Rows
    <2> QED BY <2>1, CallAssumption, SMT DEF Manager
<1>4. leads[n] \in Leads
    BY <1>2 DEF CallTypeInv
<1>5. u \in Users \cup {NoUser}
    BY <1>3, <1>4, SMT DEF Leads
<1>6. request' = [request EXCEPT ![d].phase = p] /\ j.phase = "ASSIGN"
      /\ UNCHANGED <<calls, stored, notes, kept, failures>>
    BY DEF Assign
<1>7. leads' = [leads EXCEPT ![n] = lead]
    BY <1>2, <1>4, SMT DEF Assign, CallTypeInv, Leads
<1>8. lead \in Leads /\ lead.exists = leads[n].exists /\ lead.by = leads[n].by /\ lead.manager = u
    BY <1>4, <1>5, LeadWith
<1>u. u # leads[n].manager => u = Manager(j.row)
    OBVIOUS
<1> HIDE DEF lead, u
<1>9. Moves(d, {p})
    BY <1>1, <1>6, MovesOn
<1>10. leads' \in [Numbers -> Leads] /\ leads'[n] = lead
       /\ \A m \in Numbers : m # n => leads'[m] = leads[m]
    BY <1>2, <1>7, <1>8 DEF CallTypeInv
<1>11. \A m \in Numbers : leads'[m].exists = leads[m].exists /\ leads'[m].by = leads[m].by
    BY <1>8, <1>10
<1>12. \A m \in Numbers : leads'[m].manager # leads[m].manager =>
          m = n /\ leads'[m].manager = Manager(j.row)
    BY <1>8, <1>10, <1>u
<1>13. request'[d].phase = p
    BY <1>9 DEF Moves
<1>14. Moves(d, {"NOTE", "DONE"})
    BY <1>9 DEF Moves
<1> QED BY <1>2, <1>6, <1>10, <1>11, <1>12, <1>13, <1>14

LEMMA NoteDoes ==
    ASSUME CallTypeInv, NEW d \in Requests, Note(d)
    PROVE LET c == request[d].call IN
          /\ request[d].phase = "NOTE" /\ Moves(d, {"DONE"}) /\ c \in Calls
          /\ notes' \in [Calls -> Nat] /\ notes'[c] = notes[c] + 1
          /\ \A b \in Calls : b # c => notes'[b] = notes[b]
          /\ UNCHANGED <<calls, stored, leads, kept, failures>>
<1>1. request[d].call \in Calls
    BY SMT DEF CallTypeInv, CallJobs
<1>2. request' = [request EXCEPT ![d].phase = "DONE"] /\ request[d].phase = "NOTE"
      /\ notes' = [notes EXCEPT ![request[d].call] = @ + 1]
      /\ UNCHANGED <<calls, stored, leads, kept, failures>>
    BY DEF Note
<1>3. Moves(d, {"DONE"})
    BY <1>2, MovesOn DEF CallPhases
<1> QED BY <1>1, <1>2, <1>3, SMT DEF CallTypeInv

LEMMA StaffDoes ==
    ASSUME CallTypeInv, NEW n \in Numbers, NEW u \in Users \cup {NoUser}, StaffOpens(n, u)
    PROVE /\ ~leads[n].exists /\ leads'[n].exists /\ leads'[n].by = NoCall /\ leads'[n].manager = u
          /\ leads' \in [Numbers -> Leads] /\ \A m \in Numbers : m # n => leads'[m] = leads[m]
          /\ UNCHANGED <<calls, stored, request, notes, kept, failures>>
<1> DEFINE lead == [exists |-> TRUE, manager |-> u, by |-> NoCall]
<1>1. lead \in Leads /\ lead.exists /\ lead.by = NoCall /\ lead.manager = u
    BY LeadWith
<1>2. ~leads[n].exists /\ leads' = [leads EXCEPT ![n] = lead]
      /\ UNCHANGED <<calls, stored, request, notes, kept, failures>>
    BY DEF StaffOpens
<1> HIDE DEF lead
<1> QED BY <1>1, <1>2 DEF CallTypeInv

-----------------------------------------------------------------------------
LEMMA InitCalls == CallInit => CallInv
<1> SUFFICES ASSUME CallInit PROVE CallInv OBVIOUS
<1>1. /\ \A c \in Calls : calls[c] = NoCallRow /\ stored[c] = {} /\ notes[c] = 0
      /\ \A d \in Requests : request[d] = Waiting
      /\ \A n \in Numbers : leads[n] = NoLeadRow
      /\ kept = {} /\ failures = 0
    BY DEF CallInit
<1>2. CallTypeInv
    BY Empty, SMT DEF CallInit, CallTypeInv
<1>3. StatusOfEvents
    BY <1>1, Empty DEF StatusOfEvents, Got
<1>4. OpenerInv
    BY <1>1, Empty DEF OpenerInv, MarkedOpenedIt
<1>5. AnswerInv
    BY <1>1, Empty DEF AnswerInv, TalkedOn, LeadToWhoAnswered
<1>6. CallerInv
    <2>1. \A c : DirectionOK(c, NoCallRow)
        BY Empty DEF DirectionOK
    <2>2. CallersAreKept
        BY <1>1, Empty, CallAssumption DEF CallersAreKept
    <2> QED BY <1>1, <2>1, <2>2, Empty DEF CallerInv
<1>7. NoteInv
    <2>1. \A c \in Calls : notes[c] <= 1 /\ ~(notes[c] = 1)
        BY <1>1, SMT
    <2> QED BY <1>1, <2>1, Empty DEF NoteInv, Finisher
<1> QED BY <1>2, <1>3, <1>4, <1>5, <1>6, <1>7 DEF CallInv

LEMMA CallTypeStep == CallTypeInv /\ [CallNext]_callVars => CallTypeInv'
<1> SUFFICES ASSUME CallTypeInv, [CallNext]_callVars PROVE CallTypeInv' OBVIOUS
<1>1. ASSUME NEW d \in Requests, NEW c \in Calls, NEW e \in EventsOf(c), Receive(d, c, e)
      PROVE CallTypeInv'
    <2>1. e \in CallEvents
        BY SMT DEF EventsOf
    <2>2. stored' \in [Calls -> SUBSET CallEvents]
        BY <1>1, <2>1, SMT DEF Receive, CallTypeInv
    <2>3. \A b \in Calls : stored'[b] \subseteq EventsOf(b)
        BY <1>1, ReceiveDoes DEF CallTypeInv
    <2> QED BY <1>1, <2>2, <2>3, ReceiveDoes DEF CallTypeInv
<1>2. ASSUME NEW d \in Requests, Match(d) PROVE CallTypeInv'
    BY <1>2, MatchDoes DEF CallTypeInv
<1>3. ASSUME NEW d \in Requests, Open(d) PROVE CallTypeInv'
    BY <1>3, OpenDoes DEF CallTypeInv
<1>4. ASSUME NEW d \in Requests, LinkCall(d) PROVE CallTypeInv'
    BY <1>4, LinkDoes DEF CallTypeInv
<1>5. ASSUME NEW d \in Requests, Assign(d) PROVE CallTypeInv'
    BY <1>5, AssignDoes DEF CallTypeInv, Moves
<1>6. ASSUME NEW d \in Requests, Note(d) PROVE CallTypeInv'
    BY <1>6, NoteDoes DEF CallTypeInv, Moves
<1>7. ASSUME NEW d \in Requests, Answered(d) PROVE CallTypeInv'
    <2>1. request' \in [Requests -> CallJobs]
        BY <1>7, Leaves DEF Answered
    <2>2. request[d].call \in Calls
        BY SMT DEF CallTypeInv, CallJobs
    <2> QED BY <1>7, <2>1, <2>2 DEF Answered, CallTypeInv
<1>8. ASSUME NEW d \in Requests, RequestFails(d) PROVE CallTypeInv'
    <2>1. request' \in [Requests -> CallJobs]
        BY <1>8, Leaves DEF RequestFails
    <2>2. failures' \in Nat
        BY <1>8, SMT DEF RequestFails, CallTypeInv
    <2> QED BY <1>8, <2>1, <2>2 DEF RequestFails, CallTypeInv
<1>9. ASSUME NEW n \in Numbers, NEW u \in Users \cup {NoUser}, StaffOpens(n, u) PROVE CallTypeInv'
    BY <1>9, StaffDoes DEF CallTypeInv
<1>10. ASSUME UNCHANGED callVars PROVE CallTypeInv'
    BY <1>10 DEF callVars, CallTypeInv
<1> QED BY <1>1, <1>2, <1>3, <1>4, <1>5, <1>6, <1>7, <1>8, <1>9, <1>10 DEF CallNext

-----------------------------------------------------------------------------
(* An event of any kind leaves the status that all of a call's events make. *)
LEMMA StatusStep == CallTypeInv /\ StatusOfEvents /\ [CallNext]_callVars => StatusOfEvents'
<1> SUFFICES ASSUME CallTypeInv, StatusOfEvents, [CallNext]_callVars PROVE StatusOfEvents' OBVIOUS
<1>1. ASSUME UNCHANGED <<calls, stored>> PROVE StatusOfEvents'
    BY <1>1 DEF StatusOfEvents, Got
<1>2. ASSUME NEW d \in Requests, NEW c \in Calls, NEW e \in EventsOf(c), Receive(d, c, e)
      PROVE StatusOfEvents'
    <2> SUFFICES ASSUME NEW b \in Calls
                 PROVE /\ Got(b, "END")' => calls'[b].status = "ANSWERED"
                       /\ Got(b, "LEG")' /\ ~Got(b, "END")' /\ ~Got(b, "ANSWER")'
                            => calls'[b].status = "MISSED"
                       /\ calls'[b].status = "ANSWERED" => Got(b, "END")' \/ Got(b, "ANSWER")'
        BY DEF StatusOfEvents
    <2>1. CASE b # c
        BY <1>2, <2>1, ReceiveDoes DEF StatusOfEvents, Got
    <2>2. CASE b = c
        <3>1. calls'[c] = Patched(c, e) /\ stored'[c] = stored[c] \cup {e}
            BY <1>2, ReceiveDoes
        <3>2. \A kind : Got(c, kind)' <=> Got(c, kind) \/ e.kind = kind
            BY <3>1 DEF Got
        <3>3. /\ Got(c, "END") => calls[c].status = "ANSWERED"
              /\ Got(c, "LEG") /\ ~Got(c, "END") /\ ~Got(c, "ANSWER") => calls[c].status = "MISSED"
              /\ calls[c].status = "ANSWERED" => Got(c, "END") \/ Got(c, "ANSWER")
            BY DEF StatusOfEvents
        <3>4. e.kind \in Kinds
            BY SMT DEF EventsOf, CallEvents
        <3>5. calls[c] \in Rows
            BY DEF CallTypeInv
        <3>6. CASE e.kind = "END"
            BY <2>2, <3>1, <3>2, <3>5, <3>6, PatchedRow
        <3>7. CASE e.kind = "LEG"
            BY <2>2, <3>1, <3>2, <3>3, <3>5, <3>7, PatchedRow
        <3>8. CASE e.kind = "ANSWER"
            <4>1. /\ calls[c].status = "ANSWERED" => Patched(c, e).status = "ANSWERED"
                BY <3>5, <3>8, PatchedRow
            <4> QED BY <2>2, <3>1, <3>2, <3>3, <3>8, <4>1
        <3>9. CASE e.kind \in {"START", "RING", "RECORD"}
            <4>1. /\ calls[c].status # "NONE" => Patched(c, e).status = calls[c].status
                  /\ calls[c].status = "NONE" => Patched(c, e).status = "RINGING"
                BY <3>5, <3>9, PatchedRow
            <4> QED BY <2>2, <3>1, <3>2, <3>3, <3>9, <4>1
        <3> QED BY <3>4, <3>6, <3>7, <3>8, <3>9 DEF Kinds
    <2> QED BY <2>1, <2>2
<1>3. ASSUME NEW d \in Requests, LinkCall(d) PROVE StatusOfEvents'
    <2>1. stored' = stored /\ \A b \in Calls : calls'[b].status = calls[b].status
        BY <1>3, LinkDoes
    <2> QED BY <2>1 DEF StatusOfEvents, Got
<1> QED BY <1>1, <1>2, <1>3
        DEF CallNext, Match, Open, Assign, Note, Answered, RequestFails, StaffOpens, callVars

(* One event opens a number's lead; what says that it did came from it. *)
LEMMA OpenerStep == CallTypeInv /\ OpenerInv /\ [CallNext]_callVars => OpenerInv'
<1> SUFFICES ASSUME CallTypeInv, OpenerInv, [CallNext]_callVars PROVE OpenerInv' OBVIOUS
<1> DEFINE LeadsStay == \A n \in Numbers : leads'[n].exists = leads[n].exists /\ leads'[n].by = leads[n].by
           OpenedBy(c) == leads[NumberOf[c]].by = c
<1>0. /\ \A c \in Calls : NumberOf[c] \in Numbers /\ c # NoCall
      /\ \A d \in Requests : request[d].call \in Calls
      /\ \A n \in Numbers : leads[n].exists \in BOOLEAN
    BY CallAssumption, SMT DEF CallTypeInv, CallJobs, Leads
<1>1. ASSUME NEW d \in Requests, NEW c \in Calls, NEW e \in EventsOf(c), Receive(d, c, e)
      PROVE OpenerInv'
    <2>1. /\ leads' = leads /\ Only(d) /\ request'[d].call = c /\ ~request'[d].created
          /\ request'[d].row = calls'[c] /\ \A b \in Calls : b # c => calls'[b] = calls[b]
          /\ calls'[c] = Patched(c, e)
        BY <1>1, ReceiveDoes
    <2>2. calls'[c].createdLead = calls[c].createdLead
        BY <2>1, PatchedRow DEF CallTypeInv
    <2> QED BY <2>1, <2>2 DEF OpenerInv, MarkedOpenedIt, Only
<1>2. ASSUME NEW d \in Requests, Match(d) PROVE OpenerInv'
    BY <1>2, MatchDoes DEF OpenerInv, MarkedOpenedIt, Only
<1>3. ASSUME NEW d \in Requests, Open(d) PROVE OpenerInv'
    <2> DEFINE n == NumberOf[request[d].call]
    <2>1. /\ calls' = calls /\ Only(d) /\ n \in Numbers
          /\ request'[d].call = request[d].call /\ request'[d].row = request[d].row
          /\ request'[d].created <=> ~leads[n].exists
          /\ \A m \in Numbers : m # n => leads'[m] = leads[m]
          /\ leads[n].exists => leads'[n] = leads[n]
          /\ ~leads[n].exists => leads'[n].exists /\ leads'[n].by = request[d].call
        BY <1>0, <1>3, OpenDoes
    <2>2. \A c \in Calls : OpenedBy(c) => leads'[NumberOf[c]].by = c
        BY <1>0, <2>1 DEF OpenerInv
    <2>3. \A m \in Numbers : leads'[m].by # NoCall => leads'[m].exists /\ NumberOf[leads'[m].by] = m
        BY <2>1 DEF OpenerInv
    <2>4. MarkedOpenedIt'
        BY <2>1, <2>2 DEF OpenerInv, MarkedOpenedIt
    <2>5. ASSUME NEW b \in Requests, request'[b].created \/ request'[b].row.createdLead
          PROVE leads'[NumberOf[request'[b].call]].by = request'[b].call
        <3>1. CASE b # d
            BY <1>0, <2>1, <2>2, <2>5, <3>1 DEF OpenerInv, Only
        <3>2. CASE b = d /\ request[d].row.createdLead
            BY <1>0, <2>1, <2>2, <3>2 DEF OpenerInv
        <3>3. CASE b = d /\ request'[d].created
            BY <2>1, <3>3
        <3> QED BY <2>1, <2>5, <3>1, <3>2, <3>3
    <2> QED BY <2>3, <2>4, <2>5 DEF OpenerInv
<1>4. ASSUME NEW d \in Requests, LinkCall(d) PROVE OpenerInv'
    <2> DEFINE c == request[d].call
    <2>1. /\ leads' = leads /\ Only(d) /\ c \in Calls
          /\ request'[d].call = c /\ request'[d].row = calls'[c]
          /\ request'[d].created = request[d].created
          /\ \A b \in Calls : b # c => calls'[b] = calls[b]
          /\ calls'[c].createdLead = calls[c].createdLead \/ calls'[c].createdLead = request[d].created
        BY <1>0, <1>4, LinkDoes
    <2>2. calls'[c].createdLead => leads[NumberOf[c]].by = c
        BY <2>1 DEF OpenerInv, MarkedOpenedIt
    <2>3. MarkedOpenedIt'
        BY <2>1, <2>2 DEF OpenerInv, MarkedOpenedIt
    <2> QED BY <2>1, <2>2, <2>3 DEF OpenerInv, Only
<1>5. ASSUME NEW d \in Requests, Assign(d) \/ Note(d) PROVE OpenerInv'
    <2>1. LeadsStay /\ calls' = calls /\ \A b \in Requests : /\ request'[b].call = request[b].call
             /\ request'[b].created = request[b].created /\ request'[b].row = request[b].row
        BY <1>5, AssignDoes, NoteDoes DEF Moves, Only
    <2> QED BY <1>0, <2>1 DEF OpenerInv, MarkedOpenedIt
<1>6. ASSUME NEW d \in Requests, Answered(d) \/ RequestFails(d) PROVE OpenerInv'
    <2>1. calls' = calls /\ leads' = leads /\ request' = [request EXCEPT ![d] = Waiting]
        BY <1>6 DEF Answered, RequestFails
    <2>2. Only(d) /\ request'[d] = Waiting
        BY <2>1, Leaves
    <2> QED BY <2>1, <2>2, Empty DEF OpenerInv, MarkedOpenedIt, Only
<1>7. ASSUME NEW n \in Numbers, NEW u \in Users \cup {NoUser}, StaffOpens(n, u) PROVE OpenerInv'
    <2>1. /\ calls' = calls /\ request' = request /\ leads[n].by = NoCall
          /\ leads'[n].exists /\ leads'[n].by = NoCall
          /\ \A m \in Numbers : m # n => leads'[m] = leads[m]
        BY <1>7, StaffDoes DEF OpenerInv
    <2>2. \A c \in Calls : OpenedBy(c) => leads'[NumberOf[c]].by = c
        BY <1>0, <2>1
    <2> QED BY <1>0, <2>1, <2>2 DEF OpenerInv, MarkedOpenedIt
<1>8. ASSUME UNCHANGED callVars PROVE OpenerInv'
    BY <1>8 DEF callVars, OpenerInv, MarkedOpenedIt
<1> QED BY <1>1, <1>2, <1>3, <1>4, <1>5, <1>6, <1>7, <1>8 DEF CallNext

(* A lead goes to whoever the row says answered, and the row says who did. *)
LEMMA AnswerStep == CallTypeInv /\ OpenerInv /\ AnswerInv /\ [CallNext]_callVars => AnswerInv'
<1> SUFFICES ASSUME CallTypeInv, OpenerInv, AnswerInv, [CallNext]_callVars PROVE AnswerInv' OBVIOUS
<1> DEFINE Heard(c, row) ==
             row.status = "ANSWERED" =>
               \E e \in stored'[c] : e.kind \in {"ANSWER", "END"} /\ e.ext = row.ext
<1>0. /\ \A c \in Calls : NumberOf[c] \in Numbers /\ c # NoCall
      /\ \A d \in Requests : request[d].call \in Calls
    BY CallAssumption, SMT DEF CallTypeInv, CallJobs
<1>a. ASSUME \A c \in Calls : stored[c] \subseteq stored'[c]
      PROVE /\ \A c \in Calls : TalkedOn(c, calls[c]) => Heard(c, calls[c])
            /\ \A d \in Requests : Heard(request[d].call, request[d].row)
            /\ \A c \in Calls : Heard(c, calls[c])
    BY <1>a, <1>0 DEF AnswerInv, TalkedOn
<1>b. ASSUME NEW d \in Requests, \A c \in Calls : stored[c] \subseteq stored'[c], UNCHANGED leads,
             Only(d), request'[d].call \in Calls,
             Heard(request'[d].call, request'[d].row),
             request'[d].phase = "ASSIGN" => ToAssign(request'[d].row),
             \A c \in Calls : Heard(c, calls'[c])
      PROVE AnswerInv'
    <2>1. \A c \in Calls : TalkedOn(c, calls[c])'
        BY <1>b DEF TalkedOn
    <2>2. \A b \in Requests : TalkedOn(request[b].call, request[b].row)'
        BY <1>a, <1>b DEF TalkedOn, Only
    <2>3. \A b \in Requests : request'[b].phase = "ASSIGN" => ToAssign(request'[b].row)
        BY <1>b DEF AnswerInv, Only
    <2>4. LeadToWhoAnswered'
        <3> SUFFICES ASSUME NEW n \in Numbers, leads[n].by # NoCall, leads[n].manager # NoUser
                     PROVE \E e \in stored'[leads[n].by] :
                             e.kind \in {"ANSWER", "END"} /\ UserOf[e.ext] = leads[n].manager
            BY <1>b DEF LeadToWhoAnswered
        <3>1. leads[n].by \in Calls
            BY SMT DEF CallTypeInv, Leads
        <3>2. PICK e \in stored[leads[n].by] :
                     e.kind \in {"ANSWER", "END"} /\ UserOf[e.ext] = leads[n].manager
            BY DEF AnswerInv, LeadToWhoAnswered
        <3> QED BY <1>b, <3>1, <3>2
    <2>5. (\A b \in Requests : request[b].phase = "ASSIGN" => ToAssign(request[b].row))'
        BY <2>3 DEF ToAssign, Manager
    <2> QED BY <2>1, <2>2, <2>4, <2>5 DEF AnswerInv
<1>1. ASSUME NEW d \in Requests, NEW c \in Calls, NEW e \in EventsOf(c), Receive(d, c, e)
      PROVE AnswerInv'
    <2> DEFINE row == Patched(c, e)
    <2>1. /\ leads' = leads /\ Only(d) /\ request'[d].call = c /\ request'[d].row = row
          /\ calls'[c] = row /\ stored'[c] = stored[c] \cup {e}
          /\ \A b \in Calls : b # c => calls'[b] = calls[b] /\ stored'[b] = stored[b]
          /\ request'[d].phase = "MATCH" \/ Goes(request'[d])
        BY <1>1, ReceiveDoes
    <2>2. \A b \in Calls : stored[b] \subseteq stored'[b]
        BY <2>1
    <2>3. Heard(c, row)
        <3> SUFFICES ASSUME row.status = "ANSWERED"
                     PROVE \E x \in stored'[c] : x.kind \in {"ANSWER", "END"} /\ x.ext = row.ext
            OBVIOUS
        <3>1. e.kind \in Kinds /\ calls[c] \in Rows
            BY SMT DEF EventsOf, CallEvents, CallTypeInv
        <3>2. e \in stored'[c]
            BY <2>1
        <3>3. \/ e.kind \in {"ANSWER", "END"} /\ row.ext = e.ext
              \/ calls[c].status = "ANSWERED" /\ row.ext = calls[c].ext
            <4>1. CASE e.kind = "END"
                BY <3>1, <4>1, PatchedRow
            <4>2. CASE e.kind = "LEG"
                BY <3>1, <4>2, PatchedRow
            <4>3. CASE e.kind = "ANSWER"
                <5>1. /\ calls[c].ended => row.ext = calls[c].ext
                      /\ calls[c].ended /\ row.status = "ANSWERED" => calls[c].status = "ANSWERED"
                      /\ ~calls[c].ended => row.ext = e.ext
                    BY <3>1, <4>3, PatchedRow
                <5> QED BY <4>3, <5>1
            <4>4. CASE e.kind \in {"START", "RING", "RECORD"}
                <5>1. /\ calls[c].status # "NONE" => row.status = calls[c].status
                      /\ calls[c].status = "NONE" => row.status = "RINGING"
                      /\ calls[c].status = "ANSWERED" => row.ext = calls[c].ext
                    BY <3>1, <4>4, PatchedRow
                <5> QED BY <5>1
            <4> QED BY <3>1, <4>1, <4>2, <4>3, <4>4 DEF Kinds
        <3>4. calls[c].status = "ANSWERED" =>
                \E x \in stored'[c] : x.kind \in {"ANSWER", "END"} /\ x.ext = calls[c].ext
            BY <1>a, <2>2
        <3> QED BY <3>2, <3>3, <3>4
    <2>4. \A b \in Calls : Heard(b, calls'[b])
        BY <1>a, <2>1, <2>2, <2>3
    <2>5. request'[d].phase = "ASSIGN" => ToAssign(request'[d].row)
        BY <2>1 DEF Goes
    <2> HIDE DEF Heard, row
    <2> QED BY <1>b, <2>1, <2>2, <2>3, <2>4, <2>5
<1>2. ASSUME NEW d \in Requests, Match(d) PROVE AnswerInv'
    <2>1. /\ UNCHANGED <<calls, stored, leads>> /\ Only(d)
          /\ request'[d].call = request[d].call /\ request'[d].row = request[d].row
          /\ request'[d].phase # "ASSIGN"
        BY <1>2, MatchDoes
    <2> HIDE DEF Heard
    <2> QED BY <1>0, <1>a, <1>b, <2>1
<1>3. ASSUME NEW d \in Requests, Open(d) PROVE AnswerInv'
    <2> DEFINE n == NumberOf[request[d].call]
    <2>1. /\ UNCHANGED <<calls, stored>> /\ Only(d)
          /\ request'[d].call = request[d].call /\ request'[d].row = request[d].row
          /\ request'[d].phase # "ASSIGN"
          /\ \A m \in Numbers : leads'[m] = leads[m] \/ leads'[m].manager = NoUser
        BY <1>3, OpenDoes
    <2>2. LeadToWhoAnswered'
        BY <2>1 DEF AnswerInv, LeadToWhoAnswered
    <2>3. (\A c \in Calls : TalkedOn(c, calls[c]))'
          /\ (\A b \in Requests : TalkedOn(request[b].call, request[b].row))'
        BY <2>1 DEF AnswerInv, TalkedOn, Only
    <2>4. (\A b \in Requests : request[b].phase = "ASSIGN" => ToAssign(request[b].row))'
        BY <2>1 DEF AnswerInv, Only, ToAssign, Manager
    <2> QED BY <2>2, <2>3, <2>4 DEF AnswerInv
<1>4. ASSUME NEW d \in Requests, LinkCall(d) PROVE AnswerInv'
    <2> DEFINE c == request[d].call
    <2>1. /\ UNCHANGED <<stored, leads>> /\ Only(d) /\ c \in Calls /\ Goes(request'[d])
          /\ request'[d].call = c /\ request'[d].row = calls'[c]
          /\ \A b \in Calls : b # c => calls'[b] = calls[b]
          /\ calls'[c].status = calls[c].status /\ calls'[c].ext = calls[c].ext
        BY <1>0, <1>4, LinkDoes
    <2>2. \A b \in Calls : Heard(b, calls[b])
        BY <1>a, <2>1
    <2>3. \A b \in Calls : Heard(b, calls'[b])
        BY <2>1, <2>2
    <2>4. request'[d].phase = "ASSIGN" => ToAssign(request'[d].row)
        BY <2>1 DEF Goes
    <2> HIDE DEF Heard
    <2> QED BY <1>b, <2>1, <2>3, <2>4
<1>5. ASSUME NEW d \in Requests, Assign(d) PROVE AnswerInv'
    <2> DEFINE j == request[d]
               n == NumberOf[j.call]
    <2>1. /\ UNCHANGED <<calls, stored>> /\ Only(d) /\ j.phase = "ASSIGN"
          /\ request'[d].call = j.call /\ request'[d].row = j.row /\ request'[d].phase # "ASSIGN"
          /\ \A m \in Numbers : leads'[m].by = leads[m].by
          /\ \A m \in Numbers : leads'[m].manager # leads[m].manager =>
               m = n /\ leads'[m].manager = Manager(j.row)
        BY <1>5, AssignDoes DEF Moves
    <2>2. ToAssign(j.row) /\ leads[n].by = j.call /\ n \in Numbers
        BY <1>0, <2>1 DEF AnswerInv, OpenerInv, ToAssign
    <2>3. PICK e \in stored[j.call] : e.kind \in {"ANSWER", "END"} /\ e.ext = j.row.ext
        BY <2>2 DEF AnswerInv, TalkedOn, ToAssign
    <2>4. UserOf[e.ext] = Manager(j.row)
        BY <2>2, <2>3 DEF ToAssign, Manager
    <2>5. LeadToWhoAnswered'
        BY <2>1, <2>2, <2>3, <2>4 DEF AnswerInv, LeadToWhoAnswered
    <2>6. (\A c \in Calls : TalkedOn(c, calls[c]))'
          /\ (\A b \in Requests : TalkedOn(request[b].call, request[b].row))'
        BY <2>1 DEF AnswerInv, TalkedOn, Only
    <2>7. (\A b \in Requests : request[b].phase = "ASSIGN" => ToAssign(request[b].row))'
        BY <2>1 DEF AnswerInv, Only, ToAssign, Manager
    <2> QED BY <2>5, <2>6, <2>7 DEF AnswerInv
<1>6. ASSUME NEW d \in Requests, Note(d) PROVE AnswerInv'
    <2>1. /\ UNCHANGED <<calls, stored, leads>> /\ Only(d)
          /\ request'[d].call = request[d].call /\ request'[d].row = request[d].row
          /\ request'[d].phase # "ASSIGN"
        BY <1>6, NoteDoes DEF Moves
    <2> HIDE DEF Heard
    <2> QED BY <1>0, <1>a, <1>b, <2>1
<1>7. ASSUME NEW d \in Requests, Answered(d) \/ RequestFails(d) PROVE AnswerInv'
    <2>1. /\ UNCHANGED <<calls, stored, leads>> /\ request' = [request EXCEPT ![d] = Waiting]
        BY <1>7 DEF Answered, RequestFails
    <2>w. Waiting.call \in Calls
        BY Empty, SMT DEF CallJobs
    <2>2. Only(d) /\ request'[d] = Waiting /\ request'[d].call \in Calls
        BY <2>1, <2>w, Leaves
    <2>3. Heard(request'[d].call, request'[d].row) /\ request'[d].phase # "ASSIGN"
        BY <2>2, Empty
    <2> HIDE DEF Heard
    <2> QED BY <1>a, <1>b, <2>1, <2>2, <2>3
<1>8. ASSUME NEW n \in Numbers, NEW u \in Users \cup {NoUser}, StaffOpens(n, u) PROVE AnswerInv'
    <2>1. /\ UNCHANGED <<calls, stored, request>> /\ leads'[n].by = NoCall
          /\ \A m \in Numbers : m # n => leads'[m] = leads[m]
        BY <1>8, StaffDoes
    <2>2. LeadToWhoAnswered'
        BY <2>1 DEF AnswerInv, LeadToWhoAnswered
    <2> QED BY <2>1, <2>2 DEF AnswerInv, TalkedOn, ToAssign, Manager
<1>9. ASSUME UNCHANGED callVars PROVE AnswerInv'
    BY <1>9 DEF callVars, AnswerInv, TalkedOn, LeadToWhoAnswered, ToAssign, Manager
<1> QED BY <1>1, <1>2, <1>3, <1>4, <1>5, <1>6, <1>7, <1>8, <1>9 DEF CallNext

(* A job that is past its caller knows it, or the call goes out. *)
JobOK(job) ==
    /\ DirectionOK(job.call, job.row)
    /\ job.phase \in {"MATCH", "OPEN", "LINK"} => job.row.number
    /\ job.phase = "OPEN" => job.call \notin OutgoingCalls
    /\ job.phase = "LINK" => job.contact # "UNKNOWN"
    /\ job.phase \in {"ASSIGN", "NOTE", "DONE"} /\ job.row.number =>
         job.row.contact # "UNKNOWN" \/ job.call \in OutgoingCalls

LinkedTo(c, contact) == contact # "UNKNOWN" => calls[c].contact = contact

LEMMA CallerIs ==
    CallerInv <=> /\ \A c \in Calls : DirectionOK(c, calls[c])
                  /\ \A d \in Requests :
                       JobOK(request[d]) /\ LinkedTo(request[d].call, request[d].row.contact)
                  /\ CallersAreKept
BY DEF CallerInv, JobOK, LinkedTo

LEMMA CallerStep == CallTypeInv /\ OpenerInv /\ CallerInv /\ [CallNext]_callVars => CallerInv'
<1> SUFFICES ASSUME CallTypeInv, OpenerInv, CallerInv, [CallNext]_callVars PROVE CallerInv' OBVIOUS
<1>0. /\ \A c \in Calls : NumberOf[c] \in Numbers /\ c # NoCall
      /\ \A d \in Requests : request[d].call \in Calls
      /\ NoCall \notin OutgoingCalls
    BY CallAssumption, SMT DEF CallTypeInv, CallJobs
<1>a. /\ \A c \in Calls : DirectionOK(c, calls[c])
      /\ \A d \in Requests : JobOK(request[d]) /\ LinkedTo(request[d].call, request[d].row.contact)
      /\ \A c \in kept \ OutgoingCalls : calls[c].contact # "UNKNOWN"
      /\ \A n \in Numbers : leads[n].by \notin OutgoingCalls
    BY CallerIs DEF CallersAreKept
<1> DEFINE LinkedNow(c, contact) == contact # "UNKNOWN" => calls'[c].contact = contact
<1>b. ASSUME NEW d \in Requests, Only(d), JobOK(request'[d]),
             LinkedNow(request'[d].call, request'[d].row.contact),
             \A c \in Calls : DirectionOK(c, calls'[c]),
             \A c \in Calls : calls[c].contact # "UNKNOWN" => calls'[c].contact = calls[c].contact,
             \A c \in kept' \ OutgoingCalls : calls'[c].contact # "UNKNOWN",
             \A n \in Numbers : leads'[n].by \notin OutgoingCalls
      PROVE CallerInv'
    <2>1. \A b \in Requests : b # d => LinkedNow(request[b].call, request[b].row.contact)
        BY <1>0, <1>a, <1>b DEF LinkedTo
    <2>2. \A b \in Requests : JobOK(request'[b]) /\ LinkedNow(request'[b].call, request'[b].row.contact)
        BY <1>a, <1>b, <2>1 DEF Only
    <2>3. (\A b \in Requests : JobOK(request[b]) /\ LinkedTo(request[b].call, request[b].row.contact))'
        BY <2>2 DEF JobOK, DirectionOK, LinkedTo
    <2>4. (\A c \in Calls : DirectionOK(c, calls[c]))'
        BY <1>b DEF DirectionOK
    <2>5. CallersAreKept'
        BY <1>b DEF CallersAreKept
    <2> QED BY <2>3, <2>4, <2>5, CallerIs DEF CallerInv, JobOK, LinkedTo
<1>1. ASSUME NEW d \in Requests, NEW c \in Calls, NEW e \in EventsOf(c), Receive(d, c, e)
      PROVE CallerInv'
    <2> DEFINE row == Patched(c, e)
               k == request'[d]
    <2>1. /\ UNCHANGED <<leads, kept>> /\ Only(d) /\ k.call = c /\ k.row = row
          /\ calls'[c] = row /\ \A b \in Calls : b # c => calls'[b] = calls[b]
          /\ IF row.contact = "UNKNOWN" /\ row.number THEN k.phase = "MATCH" ELSE Goes(k)
        BY <1>1, ReceiveDoes
    <2>2. /\ row.contact = calls[c].contact
          /\ row.number <=> calls[c].number \/ NamesNumber(e.kind)
          /\ IF NamesNumber(e.kind)
             THEN row.direction = IF c \in OutgoingCalls THEN "OUTBOUND" ELSE "INBOUND"
             ELSE row.direction = calls[c].direction
        BY PatchedRow DEF CallTypeInv
    <2>3. DirectionOK(c, row)
        BY <1>a, <2>2 DEF DirectionOK
    <2>4. JobOK(k)
        BY <2>1, <2>3 DEF JobOK, Goes
    <2>5. \A b \in Calls : DirectionOK(b, calls'[b])
        BY <1>a, <2>1, <2>3
    <2>6. \A b \in Calls : calls'[b].contact = calls[b].contact
        BY <2>1, <2>2
    <2>7. LinkedNow(k.call, k.row.contact)
        BY <2>1
    <2>8. \A b \in kept' \ OutgoingCalls : calls'[b].contact # "UNKNOWN"
        BY <1>a, <2>1, <2>6 DEF CallTypeInv
    <2> HIDE DEF row, k
    <2> QED BY <1>a, <1>b, <2>1, <2>4, <2>5, <2>6, <2>7, <2>8 DEF k
<1>2. ASSUME NEW d \in Requests, Match(d) PROVE CallerInv'
    <2> DEFINE j == request[d]
               k == request'[d]
    <2>1. /\ UNCHANGED <<calls, leads, kept>> /\ Only(d) /\ k.call = j.call /\ k.row = j.row
          /\ j.phase = "MATCH"
          /\ \/ k.phase = "LINK" /\ k.contact \in {"LEAD", "STUDENT"}
             \/ k.phase = "OPEN" /\ j.row.direction = "INBOUND"
             \/ k.phase = "DONE" /\ j.row.direction # "INBOUND"
        BY <1>2, MatchDoes
    <2>2. j.row.number /\ DirectionOK(j.call, j.row)
        BY <1>a, <2>1 DEF JobOK
    <2>3. j.row.direction \in {"INBOUND", "OUTBOUND"}
        BY SMT DEF CallTypeInv, CallJobs, Rows
    <2>4. j.row.direction = "INBOUND" => j.call \notin OutgoingCalls
        BY <2>2 DEF DirectionOK
    <2>5. j.row.direction # "INBOUND" => j.call \in OutgoingCalls
        BY <2>2, <2>3 DEF DirectionOK
    <2>6. JobOK(k)
        BY <2>1, <2>2, <2>4, <2>5 DEF JobOK
    <2>7. LinkedNow(k.call, k.row.contact)
        BY <1>a, <2>1 DEF LinkedTo
    <2> QED BY <1>a, <1>b, <2>1, <2>6, <2>7
<1>3. ASSUME NEW d \in Requests, Open(d) PROVE CallerInv'
    <2> DEFINE j == request[d]
               k == request'[d]
               n == NumberOf[j.call]
    <2>1. /\ UNCHANGED <<calls, kept>> /\ Only(d) /\ k.call = j.call /\ k.row = j.row
          /\ j.phase = "OPEN" /\ k.phase = "LINK" /\ k.contact = "LEAD"
          /\ \A m \in Numbers : leads'[m] = leads[m] \/ leads'[m].by = j.call
        BY <1>3, OpenDoes
    <2>2. j.row.number /\ DirectionOK(j.call, j.row) /\ j.call \notin OutgoingCalls
        BY <1>a, <2>1 DEF JobOK
    <2>3. JobOK(k)
        BY <2>1, <2>2 DEF JobOK
    <2>4. LinkedNow(k.call, k.row.contact)
        BY <1>a, <2>1 DEF LinkedTo
    <2>5. \A m \in Numbers : leads'[m].by \notin OutgoingCalls
        BY <1>a, <2>1, <2>2
    <2> QED BY <1>a, <1>b, <2>1, <2>3, <2>4, <2>5
<1>4. ASSUME NEW d \in Requests, LinkCall(d) PROVE CallerInv'
    <2> DEFINE j == request[d]
               k == request'[d]
               c == j.call
               row == calls'[c]
    <2>1. /\ UNCHANGED <<leads, kept>> /\ Only(d) /\ j.phase = "LINK" /\ c \in Calls
          /\ k.call = c /\ k.row = row /\ Goes(k)
          /\ \A b \in Calls : b # c => calls'[b] = calls[b]
          /\ row.direction = calls[c].direction /\ row.number = calls[c].number
          /\ IF calls[c].contact = "UNKNOWN" THEN row.contact = j.contact ELSE row = calls[c]
        BY <1>0, <1>4, LinkDoes
    <2>2. row.contact # "UNKNOWN"
        BY <1>a, <2>1 DEF JobOK
    <2>3. DirectionOK(c, row)
        BY <1>a, <2>1 DEF DirectionOK
    <2>4. \A b \in Calls : DirectionOK(b, calls'[b])
        BY <1>a, <2>1, <2>3
    <2>5. JobOK(k)
        BY <2>1, <2>2, <2>3 DEF JobOK, Goes
    <2>6. \A b \in Calls : calls[b].contact # "UNKNOWN" => calls'[b].contact = calls[b].contact
        BY <2>1
    <2>7. \A b \in kept' \ OutgoingCalls : calls'[b].contact # "UNKNOWN"
        BY <1>a, <2>1, <2>6 DEF CallTypeInv
    <2>8. LinkedNow(k.call, k.row.contact)
        BY <2>1
    <2> HIDE DEF row, k
    <2> QED BY <1>a, <1>b, <2>1, <2>4, <2>5, <2>6, <2>7, <2>8 DEF k
<1>5. ASSUME NEW d \in Requests, Assign(d) PROVE CallerInv'
    <2>1. /\ UNCHANGED <<calls, kept>> /\ Only(d) /\ request[d].phase = "ASSIGN"
          /\ request'[d].call = request[d].call /\ request'[d].row = request[d].row
          /\ request'[d].phase \in {"NOTE", "DONE"}
          /\ \A m \in Numbers : leads'[m].by = leads[m].by
        BY <1>5, AssignDoes DEF Moves
    <2>2. JobOK(request'[d])
        BY <1>a, <2>1 DEF JobOK
    <2>3. LinkedNow(request'[d].call, request'[d].row.contact)
        BY <1>a, <2>1 DEF LinkedTo
    <2> QED BY <1>a, <1>b, <2>1, <2>2, <2>3
<1>6. ASSUME NEW d \in Requests, Note(d) PROVE CallerInv'
    <2>1. /\ UNCHANGED <<calls, leads, kept>> /\ Only(d) /\ request[d].phase = "NOTE"
          /\ request'[d].call = request[d].call /\ request'[d].row = request[d].row
          /\ request'[d].phase = "DONE"
        BY <1>6, NoteDoes DEF Moves
    <2>2. JobOK(request'[d])
        BY <1>a, <2>1 DEF JobOK
    <2>3. LinkedNow(request'[d].call, request'[d].row.contact)
        BY <1>a, <2>1 DEF LinkedTo
    <2> QED BY <1>a, <1>b, <2>1, <2>2, <2>3
<1>7. ASSUME NEW d \in Requests, Answered(d) \/ RequestFails(d) PROVE CallerInv'
    <2>1. UNCHANGED <<calls, leads>> /\ request' = [request EXCEPT ![d] = Waiting]
        BY <1>7 DEF Answered, RequestFails
    <2>2. Only(d) /\ request'[d] = Waiting
        BY <2>1, Leaves
    <2>3. JobOK(Waiting)
        BY Empty DEF JobOK, DirectionOK
    <2>4. LinkedNow(Waiting.call, Waiting.row.contact)
        BY Empty
    <2>5. \A c \in kept' \ OutgoingCalls : calls[c].contact # "UNKNOWN"
        <3>1. CASE RequestFails(d)
            BY <1>a, <3>1 DEF RequestFails
        <3>2. CASE Answered(d)
            <4> DEFINE j == request[d]
            <4>1. j.phase = "DONE" /\ kept' = IF j.row.number THEN kept \cup {j.call} ELSE kept
                BY <3>2 DEF Answered
            <4>2. j.row.number => calls[j.call].contact # "UNKNOWN" \/ j.call \in OutgoingCalls
                BY <1>a, <4>1 DEF JobOK, LinkedTo
            <4> QED BY <1>a, <4>1, <4>2
        <3> QED BY <1>7, <3>1, <3>2
    <2> QED BY <1>a, <1>b, <2>1, <2>2, <2>3, <2>4, <2>5
<1>8. ASSUME NEW n \in Numbers, NEW u \in Users \cup {NoUser}, StaffOpens(n, u) PROVE CallerInv'
    <2>1. /\ UNCHANGED <<calls, request, kept>> /\ leads'[n].by = NoCall
          /\ \A m \in Numbers : m # n => leads'[m] = leads[m]
        BY <1>8, StaffDoes
    <2>2. \A m \in Numbers : leads'[m].by \notin OutgoingCalls
        BY <1>0, <1>a, <2>1
    <2>3. CallersAreKept'
        BY <1>a, <2>1, <2>2 DEF CallersAreKept
    <2> QED BY <2>1, <2>3 DEF CallerInv, DirectionOK
<1>9. ASSUME UNCHANGED callVars PROVE CallerInv'
    BY <1>9 DEF callVars, CallerInv, DirectionOK, CallersAreKept
<1> QED BY <1>1, <1>2, <1>3, <1>4, <1>5, <1>6, <1>7, <1>8, <1>9 DEF CallNext

(* The parts of NoteInv, for one call and one request. *)
NotesOf(c) == notes[c] <= 1 /\ (notes[c] = 1 => calls[c].ended)

FinisherOK(d, c) ==
    /\ calls[c].ended
    /\ request[d].phase # "DONE" => notes[c] = 0
    /\ \A b \in Requests : Finisher(b, c) => b = d
    /\ request[d].phase = "NOTE" => request[d].row.contact = "LEAD"

AtEnds(job) == job.phase \in {"IDLE", "NOTE"} => (job.phase = "NOTE" <=> job.finished)

Remembered(c) ==
    calls[c].ended /\ failures = 0 =>
        \/ notes[c] = 1 \/ calls[c].contact = "STUDENT"
        \/ \E d \in Requests : Finisher(d, c) /\ request[d].phase # "DONE"

LEMMA NoteIs ==
    NoteInv <=> /\ \A c \in Calls : NotesOf(c)
                /\ \A c \in Calls, d \in Requests : Finisher(d, c) => FinisherOK(d, c)
                /\ \A d \in Requests : AtEnds(request[d])
                /\ \A c \in Calls \ OutgoingCalls : Remembered(c)
BY DEF NoteInv, NotesOf, FinisherOK, AtEnds, Remembered

LEMMA NoteIsNext ==
    NoteInv' <=> /\ \A c \in Calls : NotesOf(c)'
                 /\ \A c \in Calls, d \in Requests : Finisher(d, c)' => FinisherOK(d, c)'
                 /\ \A d \in Requests : AtEnds(request'[d])
                 /\ \A c \in Calls \ OutgoingCalls : Remembered(c)'
BY DEF NoteInv, NotesOf, FinisherOK, AtEnds, Remembered

(* A finished call's request moves on; it is done only if there is no note to make. *)
LEMMA NoteKept ==
    ASSUME NoteInv, NEW d \in Requests, Only(d), request[d].phase \notin {"IDLE", "DONE"},
           request'[d].call = request[d].call, request'[d].finished = request[d].finished,
           AtEnds(request'[d]), request'[d].phase # "IDLE",
           request'[d].phase = "NOTE" => request'[d].row.contact = "LEAD",
           \A c \in Calls : calls'[c].ended = calls[c].ended,
           \A c \in Calls : calls[c].contact = "STUDENT" => calls'[c].contact = "STUDENT",
           request[d].call \in Calls, UNCHANGED <<notes, failures>>,
           request'[d].phase = "DONE" /\ request[d].finished
             => request[d].call \in OutgoingCalls \/ calls'[request[d].call].contact = "STUDENT"
    PROVE NoteInv'
<1>0. /\ \A c \in Calls : NotesOf(c)
      /\ \A c \in Calls, b \in Requests : Finisher(b, c) => FinisherOK(b, c)
      /\ \A b \in Requests : AtEnds(request[b])
      /\ \A c \in Calls \ OutgoingCalls : Remembered(c)
    BY NoteIs
<1>1. \A c \in Calls : NotesOf(c)'
    BY <1>0 DEF NotesOf
<1>2. \A c, b : b \in Requests => (Finisher(b, c)' <=> Finisher(b, c))
    BY DEF Finisher, Only
<1>3. ASSUME NEW c \in Calls, NEW b \in Requests, Finisher(b, c)' PROVE FinisherOK(b, c)'
    <2>1. FinisherOK(b, c)
        BY <1>0, <1>2, <1>3
    <2>2. \A a \in Requests : Finisher(a, c)' => a = b
        BY <1>2, <2>1 DEF FinisherOK
    <2> QED BY <2>1, <2>2 DEF FinisherOK, Only
<1>4. \A b \in Requests : AtEnds(request'[b])
    BY <1>0 DEF Only
<1>5. ASSUME NEW c \in Calls \ OutgoingCalls PROVE Remembered(c)'
    <2> SUFFICES ASSUME calls'[c].ended, failures' = 0, notes'[c] # 1, calls'[c].contact # "STUDENT"
                 PROVE \E b \in Requests : Finisher(b, c)' /\ request'[b].phase # "DONE"
        BY DEF Remembered
    <2>1. PICK b \in Requests : Finisher(b, c) /\ request[b].phase # "DONE"
        BY <1>0 DEF Remembered
    <2>2. Finisher(b, c)'
        BY <1>2, <2>1
    <2>3. request'[b].phase # "DONE"
        <3>1. CASE b # d
            BY <2>1, <3>1 DEF Only
        <3>2. CASE b = d
            BY <2>1, <3>2 DEF Finisher
        <3> QED BY <3>1, <3>2
    <2> QED BY <2>2, <2>3
<1> QED BY <1>1, <1>3, <1>4, <1>5, NoteIsNext

LEMMA NoteStep ==
    CallTypeInv /\ AnswerInv /\ CallerInv /\ NoteInv /\ [CallNext]_callVars => NoteInv'
<1> SUFFICES ASSUME CallTypeInv, AnswerInv, CallerInv, NoteInv, [CallNext]_callVars PROVE NoteInv'
    OBVIOUS
<1>0. /\ \A c \in Calls : NotesOf(c)
      /\ \A c \in Calls, b \in Requests : Finisher(b, c) => FinisherOK(b, c)
      /\ \A b \in Requests : AtEnds(request[b])
      /\ \A c \in Calls \ OutgoingCalls : Remembered(c)
    BY NoteIs
<1>a. /\ \A d \in Requests : request[d].call \in Calls /\ request[d].finished \in BOOLEAN
      /\ \A c \in Calls : calls[c].contact \in {"UNKNOWN", "LEAD", "STUDENT"} /\ notes[c] \in Nat
    BY SMT DEF CallTypeInv, CallJobs, Rows
<1>1. ASSUME NEW d \in Requests, NEW c \in Calls, NEW e \in EventsOf(c), Receive(d, c, e)
      PROVE NoteInv'
    <2> DEFINE row == Patched(c, e)
               k == request'[d]
    <2>1. /\ UNCHANGED <<notes, failures>> /\ Only(d) /\ k.call = c /\ k.row = row
          /\ request[d].phase = "IDLE" /\ (k.finished <=> row.ended /\ ~calls[c].ended)
          /\ calls'[c] = row /\ \A b \in Calls : b # c => calls'[b] = calls[b]
          /\ IF row.contact = "UNKNOWN" /\ row.number THEN k.phase = "MATCH" ELSE Goes(k)
        BY <1>1, ReceiveDoes DEF Finishes
    <2>2. /\ row.contact = calls[c].contact
          /\ row.number <=> calls[c].number \/ NamesNumber(e.kind)
          /\ row.ended <=> calls[c].ended \/ e.kind \in {"LEG", "END"}
        BY PatchedRow DEF CallTypeInv
    <2>3. k.finished => row.number
        BY <2>1, <2>2 DEF NamesNumber
    <2> HIDE DEF row, k
    <2>4. ~request[d].finished
        BY <1>0, <2>1 DEF AtEnds
    <2>5. \A b \in Calls : calls[b].ended => calls'[b].ended
        BY <2>1, <2>2
    <2>6. k.finished => notes[c] = 0 /\ \A b \in Requests : ~Finisher(b, c)
        BY <1>0, <1>a, <2>1, SMT DEF NotesOf, FinisherOK
    <2>7. \A b \in Calls : NotesOf(b)'
        BY <1>0, <2>1, <2>5 DEF NotesOf
    <2>8. \A a \in Requests, b \in Calls :
            Finisher(a, b)' <=> IF a = d THEN b = c /\ k.finished ELSE Finisher(a, b)
        BY <2>1 DEF Finisher, Only, k
    <2>9. ASSUME NEW b \in Calls, NEW a \in Requests, Finisher(a, b)' PROVE FinisherOK(a, b)'
        <3>1. CASE a = d
            <4>1. b = c /\ k.finished
                BY <2>8, <2>9, <3>1
            <4>2. \A x \in Requests : Finisher(x, b)' => x = a
                BY <2>6, <2>8, <3>1, <4>1
            <4>3. k.phase = "NOTE" => k.row.contact = "LEAD"
                BY <2>1 DEF Goes
            <4> QED BY <2>1, <2>6, <3>1, <4>1, <4>2, <4>3 DEF FinisherOK, k
        <3>2. CASE a # d
            <4>1. FinisherOK(a, b) /\ Finisher(a, b)
                BY <1>0, <2>8, <2>9, <3>2
            <4>2. \A x \in Requests : Finisher(x, b)' => x = a
                BY <2>6, <2>8, <3>2, <4>1 DEF FinisherOK
            <4> QED BY <2>1, <2>5, <3>2, <4>1, <4>2 DEF FinisherOK, Only
        <3> QED BY <3>1, <3>2
    <2>10. \A b \in Requests : AtEnds(request'[b])
        <3>1. AtEnds(k)
            BY <2>1 DEF AtEnds, Goes
        <3> QED BY <1>0, <2>1, <3>1 DEF Only, k
    <2>11. ASSUME NEW b \in Calls \ OutgoingCalls PROVE Remembered(b)'
        <3> SUFFICES ASSUME calls'[b].ended, failures' = 0, notes'[b] # 1,
                            calls'[b].contact # "STUDENT"
                     PROVE \E a \in Requests : Finisher(a, b)' /\ request'[a].phase # "DONE"
            BY DEF Remembered
        <3>1. CASE calls[b].ended
            <4>1. PICK a \in Requests : Finisher(a, b) /\ request[a].phase # "DONE"
                BY <1>0, <2>1, <2>2, <3>1 DEF Remembered
            <4>2. a # d
                BY <2>4, <4>1 DEF Finisher
            <4> QED BY <2>1, <2>8, <4>1, <4>2 DEF Only
        <3>2. CASE ~calls[b].ended
            <4>1. b = c /\ k.finished /\ row.number
                BY <2>1, <2>3, <3>2
            <4>2. row.contact # "STUDENT"
                BY <2>1, <4>1
            <4>3. k.phase # "DONE"
                BY <1>a, <2>1, <2>2, <4>1, <4>2 DEF Goes
            <4> QED BY <2>8, <4>1, <4>3 DEF k
        <3> QED BY <3>1, <3>2
    <2> QED BY <2>7, <2>9, <2>10, <2>11, NoteIsNext
<1>2. ASSUME NEW d \in Requests, Match(d) PROVE NoteInv'
    <2> DEFINE j == request[d]
               k == request'[d]
    <2>1. /\ UNCHANGED <<calls, notes, failures>> /\ Only(d) /\ k.call = j.call /\ k.row = j.row
          /\ k.finished = j.finished /\ j.phase = "MATCH"
          /\ \/ k.phase = "LINK" \/ k.phase = "OPEN"
             \/ k.phase = "DONE" /\ j.row.direction # "INBOUND"
        BY <1>2, MatchDoes
    <2>2. k.phase = "DONE" => j.call \in OutgoingCalls
        <3>1. j.row.direction \in {"INBOUND", "OUTBOUND"}
            BY SMT DEF CallTypeInv, CallJobs, Rows
        <3> QED BY <2>1, <3>1 DEF CallerInv, DirectionOK
    <2>3. AtEnds(k)
        BY <2>1 DEF AtEnds
    <2> QED BY <1>a, <2>1, <2>2, <2>3, NoteKept
<1>3. ASSUME NEW d \in Requests, Open(d) PROVE NoteInv'
    <2> DEFINE j == request[d]
               k == request'[d]
    <2>1. /\ UNCHANGED <<calls, notes, failures>> /\ Only(d) /\ k.call = j.call
          /\ k.finished = j.finished /\ j.phase = "OPEN" /\ k.phase = "LINK"
        BY <1>3, OpenDoes
    <2>2. AtEnds(k)
        BY <2>1 DEF AtEnds
    <2> QED BY <1>a, <2>1, <2>2, NoteKept
<1>4. ASSUME NEW d \in Requests, LinkCall(d) PROVE NoteInv'
    <2> DEFINE j == request[d]
               k == request'[d]
               c == j.call
    <2>1. /\ UNCHANGED <<notes, failures>> /\ Only(d) /\ k.call = c /\ k.row = calls'[c]
          /\ k.finished = j.finished /\ j.phase = "LINK" /\ Goes(k)
          /\ \A b \in Calls : b # c => calls'[b] = calls[b]
          /\ calls'[c].ended = calls[c].ended /\ calls'[c] \in Rows
          /\ IF calls[c].contact = "UNKNOWN" THEN calls'[c].contact = j.contact
             ELSE calls'[c] = calls[c]
        BY <1>4, <1>a, LinkDoes
    <2>2. calls'[c].contact # "UNKNOWN"
        BY <2>1 DEF CallerInv
    <2>3. calls'[c].contact \in {"UNKNOWN", "LEAD", "STUDENT"}
        BY <2>1, SMT DEF Rows
    <2>4. k.phase = "DONE" /\ j.finished => calls'[c].contact = "STUDENT"
        BY <2>1, <2>2, <2>3 DEF Goes
    <2>5. AtEnds(k) /\ k.phase # "IDLE" /\ (k.phase = "NOTE" => k.row.contact = "LEAD")
        BY <2>1 DEF AtEnds, Goes
    <2>6. /\ \A b \in Calls : calls'[b].ended = calls[b].ended
          /\ \A b \in Calls : calls[b].contact = "STUDENT" => calls'[b].contact = "STUDENT"
        BY <2>1
    <2> QED BY <1>a, <2>1, <2>4, <2>5, <2>6, NoteKept
<1>5. ASSUME NEW d \in Requests, Assign(d) PROVE NoteInv'
    <2> DEFINE j == request[d]
               k == request'[d]
    <2>1. /\ UNCHANGED <<calls, notes, failures>> /\ Only(d) /\ k.call = j.call /\ k.row = j.row
          /\ k.finished = j.finished /\ j.phase = "ASSIGN" /\ k.phase \in {"NOTE", "DONE"}
          /\ k.phase = "NOTE" <=> j.finished
        BY <1>5, AssignDoes DEF Moves
    <2>2. j.row.contact = "LEAD"
        BY <2>1 DEF AnswerInv, ToAssign
    <2>3. AtEnds(k)
        BY <2>1 DEF AtEnds
    <2> QED BY <1>a, <2>1, <2>2, <2>3, NoteKept
<1>6. ASSUME NEW d \in Requests, Note(d) PROVE NoteInv'
    <2> DEFINE c == request[d].call
    <2>1. /\ UNCHANGED <<calls, failures>> /\ Only(d) /\ request[d].phase = "NOTE" /\ c \in Calls
          /\ request'[d].call = c /\ request'[d].finished = request[d].finished
          /\ request'[d].phase = "DONE" /\ notes'[c] = notes[c] + 1
          /\ \A b \in Calls : b # c => notes'[b] = notes[b]
        BY <1>6, NoteDoes DEF Moves
    <2>2. Finisher(d, c) /\ FinisherOK(d, c) /\ notes[c] = 0
        BY <1>0, <2>1 DEF AtEnds, Finisher, FinisherOK
    <2>3. notes'[c] = 1
        BY <2>1, <2>2, SMT
    <2>4. \A b \in Calls : NotesOf(b)'
        BY <1>0, <2>1, <2>2, <2>3, SMT DEF NotesOf, FinisherOK
    <2>5. \A a \in Requests, b \in Calls : Finisher(a, b)' <=> Finisher(a, b)
        BY <2>1 DEF Finisher, Only
    <2>6. ASSUME NEW b \in Calls, NEW a \in Requests, Finisher(a, b)' PROVE FinisherOK(a, b)'
        <3>1. FinisherOK(a, b) /\ Finisher(a, b)
            BY <1>0, <2>5, <2>6
        <3>2. \A x \in Requests : Finisher(x, b)' => x = a
            BY <2>5, <3>1 DEF FinisherOK
        <3>3. b = c => a = d
            BY <2>2, <3>1 DEF FinisherOK
        <3>4. b # c => a # d
            BY <2>2, <3>1 DEF Finisher
        <3> QED BY <2>1, <3>1, <3>2, <3>3, <3>4 DEF FinisherOK, Only
    <2>7. \A b \in Requests : AtEnds(request'[b])
        BY <1>0, <2>1 DEF AtEnds, Only
    <2>8. ASSUME NEW b \in Calls \ OutgoingCalls PROVE Remembered(b)'
        <3>1. CASE b = c
            BY <2>3, <3>1 DEF Remembered
        <3>2. CASE b # c
            <4>1. \A a \in Requests : Finisher(a, b) => a # d
                BY <2>2, <3>2 DEF Finisher
            <4>2. Remembered(b)
                BY <1>0
            <4> QED BY <2>1, <2>5, <3>2, <4>1, <4>2 DEF Remembered, Only
        <3> QED BY <3>1, <3>2
    <2> QED BY <2>4, <2>6, <2>7, <2>8, NoteIsNext
<1>7. ASSUME NEW d \in Requests, Answered(d) \/ RequestFails(d) PROVE NoteInv'
    <2>1. UNCHANGED <<calls, notes>> /\ request' = [request EXCEPT ![d] = Waiting]
        BY <1>7 DEF Answered, RequestFails
    <2>2. Only(d) /\ request'[d] = Waiting
        BY <2>1, Leaves
    <2>3. \A a \in Requests, b \in Calls : Finisher(a, b)' => a # d /\ Finisher(a, b)
        BY <2>2, Empty DEF Finisher, Only
    <2>4. \A b \in Calls : NotesOf(b)'
        BY <1>0, <2>1 DEF NotesOf
    <2>5. ASSUME NEW b \in Calls, NEW a \in Requests, Finisher(a, b)' PROVE FinisherOK(a, b)'
        <3>1. FinisherOK(a, b) /\ a # d
            BY <1>0, <2>3, <2>5
        <3>2. \A x \in Requests : Finisher(x, b)' => x = a
            BY <2>3, <3>1 DEF FinisherOK
        <3> QED BY <2>1, <2>2, <3>1, <3>2 DEF FinisherOK, Only
    <2>6. \A b \in Requests : AtEnds(request'[b])
        BY <1>0, <2>2, Empty DEF AtEnds, Only
    <2>7. ASSUME NEW b \in Calls \ OutgoingCalls PROVE Remembered(b)'
        <3>1. CASE RequestFails(d)
            <4>1. failures' # 0
                BY <3>1, SMT DEF RequestFails, CallTypeInv
            <4> QED BY <4>1 DEF Remembered
        <3>2. CASE Answered(d)
            <4>1. request[d].phase = "DONE" /\ failures' = failures
                BY <3>2 DEF Answered
            <4>2. Remembered(b)
                BY <1>0
            <4>3. \A a \in Requests : Finisher(a, b) /\ a # d => Finisher(a, b)'
                BY <2>2 DEF Finisher, Only
            <4> QED BY <2>1, <2>2, <4>1, <4>2, <4>3 DEF Remembered, Only
        <3> QED BY <1>7, <3>1, <3>2
    <2> QED BY <2>4, <2>5, <2>6, <2>7, NoteIsNext
<1>8. ASSUME UNCHANGED <<calls, request, notes, failures>> PROVE NoteInv'
    BY <1>8 DEF NoteInv, Finisher
<1>9. ASSUME NEW n \in Numbers, NEW u \in Users \cup {NoUser}, StaffOpens(n, u) PROVE NoteInv'
    BY <1>8, <1>9, StaffDoes
<1>10. ASSUME UNCHANGED callVars PROVE NoteInv'
    BY <1>8, <1>10 DEF callVars
<1> QED BY <1>1, <1>2, <1>3, <1>4, <1>5, <1>6, <1>7, <1>9, <1>10 DEF CallNext

-----------------------------------------------------------------------------
LEMMA CallInvariant == CallSpec => []CallInv
<1>1. CallInv /\ [CallNext]_callVars => CallInv'
    BY CallTypeStep, StatusStep, OpenerStep, AnswerStep, CallerStep, NoteStep DEF CallInv
<1> QED BY <1>1, InitCalls, PTL DEF CallSpec

(* Calls, events, leads and notes keep their types (the columns of calls).   *)
THEOREM CallTypeCorrect == CallSpec => []CallTypeOK
<1>1. CallTypeInv => CallTypeOK
    <2> SUFFICES ASSUME CallTypeInv PROVE CallTypeOK OBVIOUS
    <2>1. \A n \in Numbers : leads[n].manager \in Users \cup {NoUser}
        BY SMT DEF CallTypeInv, Leads
    <2> QED BY <2>1 DEF CallTypeInv, CallTypeOK
<1>2. CallInv => CallTypeOK
    BY <1>1 DEF CallInv
<1> QED BY <1>2, CallInvariant, PTL

(* patchFor makes the same of a call's answers and ends in every order.      *)
THEOREM StatusIsOfEvents == CallSpec => []StatusOfEvents
<1>1. CallInv => StatusOfEvents
    BY DEF CallInv
<1> QED BY <1>1, CallInvariant, PTL

(* assignFromCall gives a lead to a phone that an event says answered.       *)
THEOREM LeadGoesToWhoAnswered == CallSpec => []LeadToWhoAnswered
<1>1. CallInv => LeadToWhoAnswered
    BY DEF CallInv, AnswerInv
<1> QED BY <1>1, CallInvariant, PTL

(* createFromCall opens one lead of a number, and linkContact marks no other *)
(* call as its opener.                                                       *)
THEOREM OpenerIsMarked == CallSpec => []MarkedOpenedIt
<1>1. CallInv => MarkedOpenedIt
    BY DEF CallInv, OpenerInv
<1> QED BY <1>1, CallInvariant, PTL

(* A request that comes to its end leaves an incoming caller on a lead or a  *)
(* student, whatever others of the call's requests failed before.            *)
THEOREM CallersKept == CallSpec => []CallersAreKept
<1>1. CallInv => CallersAreKept
    BY DEF CallInv, CallerInv
<1> QED BY <1>1, CallInvariant, PTL

(* noteOnLead runs once for a call that ended, and without failures it runs. *)
THEOREM NoteIsMadeOnce == CallSpec => []NotedOnce
<1>1. CallInv => NotedOnce
    <2> SUFFICES ASSUME CallInv PROVE NotedOnce OBVIOUS
    <2>1. /\ \A c \in Calls : NotesOf(c) /\ \A d \in Requests : AtEnds(request[d])
          /\ \A c \in Calls \ OutgoingCalls : Remembered(c)
        BY NoteIs DEF CallInv
    <2>2. ASSUME NEW c \in Calls \ OutgoingCalls, AtRest(c), calls[c].ended,
                 calls[c].contact = "LEAD", failures = 0
          PROVE notes[c] = 1
        <3>1. \A d \in Requests : request[d].phase = "IDLE" => ~request[d].finished
            BY <2>1 DEF AtEnds
        <3> QED BY <2>1, <2>2, <3>1 DEF Remembered, AtRest, Finisher
    <2> QED BY <2>1, <2>2 DEF NotedOnce, NotesOf
<1> QED BY <1>1, CallInvariant, PTL
=============================================================================
