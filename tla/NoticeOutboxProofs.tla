-------------------------- MODULE NoticeOutboxProofs --------------------------
(***************************************************************************)
(* Theorems about NoticeOutbox, for every number of messages, processes,   *)
(* attempts, rows a pass claims, and faults.                               *)
(***************************************************************************)
EXTENDS NoticeOutbox, FiniteSetTheorems, TLAPS

LEMMA IdleType == Idle \in Passes /\ Starting \in Passes /\ Starting.phase = "CLAIM"
    BY OutboxAssumption DEF Idle, Starting, Passes, Results

LEMMA LoopTypes ==
    ASSUME TypeOK, NEW w \in Workers
    PROVE  /\ Ended(w) \in {Idle, Starting} /\ Ended(w) \in Passes
           /\ Kicked(w) \in Passes
<1>1. worker[w] \in Passes
    BY DEF TypeOK
<1>. QED  BY <1>1, IdleType DEF Ended, Kicked, Passes

(* What one process's step leaves of the variables. *)
LEMMA PassTypes ==
    ASSUME TypeOK, NEW w \in Workers, Pass(w)
    PROVE  TypeOK'
<1>. worker[w] \in Passes
    BY DEF TypeOK
<1>1. ASSUME NEW ids \in SUBSET Notices, Claim(w, ids)
      PROVE  TypeOK'
    <2>1. outbox' \in [Notices -> Messages]
        <3>1. ASSUME NEW n \in Notices
              PROVE  outbox'[n] \in Messages
            <4>1. outbox[n] \in Messages
                BY DEF TypeOK
            <4>2. outbox'[n] = IF n \in ids
                               THEN [outbox[n] EXCEPT !.status = "SENDING", !.attempts = @ + 1,
                                                      !.lapsed = FALSE]
                               ELSE outbox[n]
                BY <1>1 DEF Claim
            <4>3. CASE n \in ids
                <5>1. outbox[n].attempts + 1 \in Nat
                    BY <4>1 DEF Messages
                <5>. QED  BY <4>1, <4>2, <4>3, <5>1 DEF Messages
            <4>. QED  BY <4>1, <4>2, <4>3
        <3>. QED  BY <1>1, <3>1 DEF Claim
    <2>2. worker' \in [Workers -> Passes]
        <3>1. [worker[w] EXCEPT !.phase = "READ", !.ids = ids] \in Passes
            BY DEF Passes
        <3>. QED  BY <1>1, <3>1, LoopTypes DEF Claim, TypeOK
    <2>. QED  BY <1>1, <2>1, <2>2 DEF Claim, TypeOK
<1>2. CASE Read(w)
    <2>1. [n \in Notices |-> IF n \in worker[w].ids THEN outbox[n].attempts ELSE 0]
             \in [Notices -> Nat]
        BY DEF TypeOK, Messages
    <2>2. worker' \in [Workers -> Passes]
        BY <1>2, <2>1 DEF Read, TypeOK, Passes
    <2>. QED  BY <1>2, <2>2 DEF Read, TypeOK
<1>3. ASSUME NEW n \in Notices, NEW result \in Results \ {"NONE"}, NEW arrives \in BOOLEAN,
             Send(w, n, result, arrives)
      PROVE  TypeOK'
    <2>1. worker' \in [Workers -> Passes]
        BY <1>3 DEF Send, TypeOK, Passes
    <2>2. copies' \in [Notices -> 0 .. 2]
        BY <1>3 DEF Send, TypeOK
    <2>3. excuse' \in [Notices -> BOOLEAN]
        <3>1. (excuse[n] \/ (arrives /\ result = "ERROR")) \in BOOLEAN
            OBVIOUS
        <3>. QED  BY <1>3, <3>1, Zenon DEF Send, TypeOK
    <2>. QED  BY <1>3, <2>1, <2>2, <2>3 DEF Send, TypeOK
<1>4. CASE Record(w)
    <2>. DEFINE n == worker[w].sending
                left == [worker[w].read EXCEPT ![n] = 0]
    <2>1. outbox' \in [Notices -> Messages]
        <3>1. RecordedStatus(w, n) \in {"SENT", "FAILED", "PENDING"}
            BY DEF RecordedStatus
        <3>2. ASSUME n \in Notices
              PROVE  [outbox[n] EXCEPT !.status = RecordedStatus(w, n), !.due = FALSE,
                                       !.lapsed = FALSE] \in Messages
            <4>1. outbox[n] \in Messages
                BY <3>2 DEF TypeOK
            <4>. QED  BY <3>1, <4>1 DEF Messages
        <3>. QED  BY <1>4, <3>2 DEF Record, TypeOK
    <2>2. left \in [Notices -> Nat]
        BY DEF Passes
    <2>3. [worker[w] EXCEPT !.phase = "SEND", !.read = left, !.sending = NoNotice,
                            !.result = "NONE"] \in Passes
        BY <2>2 DEF Passes, Results
    <2>4. worker' \in [Workers -> Passes]
        BY <1>4, <2>3, LoopTypes DEF Record, TypeOK
    <2>. QED  BY <1>4, <2>1, <2>4 DEF Record, TypeOK
<1>. QED  BY <1>1, <1>2, <1>3, <1>4 DEF Pass

LEMMA TypeStep ==
    ASSUME TypeOK, [Next]_vars
    PROVE  TypeOK'
<1>0. Queued \in Messages
    BY DEF Queued, Messages
<1>1. ASSUME NEW w \in Workers, KickAfterCommit(w) \/ KickByTimer(w)
      PROVE  TypeOK'
    BY <1>1, LoopTypes DEF KickAfterCommit, KickByTimer, TypeOK
<1>2. ASSUME NEW w \in Workers, PassFails(w) \/ Crash(w)
      PROVE  TypeOK'
    BY <1>2, LoopTypes, IdleType DEF PassFails, Crash, Fault, TypeOK
<1>3. ASSUME NEW w \in Workers, NEW n \in Notices, Enqueue(w, n) \/ Retry(w, n)
      PROVE  TypeOK'
    BY <1>0, <1>3 DEF Enqueue, Retry, TypeOK
<1>4. ASSUME NEW n \in Notices, BecomesDue(n)
      PROVE  TypeOK'
    <2>1. outbox' \in [Notices -> Messages]
        BY <1>4 DEF BecomesDue, TypeOK, Messages
    <2>. QED  BY <1>4, <2>1 DEF BecomesDue, TypeOK
<1>5. ASSUME NEW n \in Notices, LockRunsOut(n)
      PROVE  TypeOK'
    <2>1. outbox' \in [Notices -> Messages]
        BY <1>5 DEF LockRunsOut, TypeOK, Messages
    <2>2. excuse' \in [Notices -> BOOLEAN]
        BY <1>5 DEF LockRunsOut, TypeOK
    <2>3. faults' \in Nat
        BY <1>5 DEF LockRunsOut, Fault, TypeOK
    <2>. QED  BY <1>5, <2>1, <2>2, <2>3 DEF LockRunsOut, TypeOK
<1>6. CASE UNCHANGED vars
    BY <1>6 DEF vars, TypeOK
<1>. QED  BY <1>1, <1>2, <1>3, <1>4, <1>5, <1>6, PassTypes DEF Next

(* The variables keep their types. *)
THEOREM OutboxTypeCorrect == Spec => []TypeOK
<1>1. Init => TypeOK
    BY IdleType, OutboxAssumption DEF Init, TypeOK, NoRow, Messages
<1>. QED  BY <1>1, TypeStep, PTL DEF Spec
-----------------------------------------------------------------------------
(* A worker holds a result OK, and a row is SENT, only of what arrived. *)
Arrived ==
    /\ \A n \in Notices : outbox[n].status = "SENT" => copies[n] >= 1
    /\ \A w \in Workers :
          worker[w].phase = "RECORD" =>
             /\ worker[w].sending \in Notices
             /\ worker[w].result = "OK" => copies[worker[w].sending] >= 1

(* A message recorded as sent did arrive and its record is final: a worker   *)
(* that lost its hold neither queues it again nor gives it up.               *)
THEOREM SentMessagesStay == Spec => SentStays
<1>1. Init => Arrived
    BY DEF Init, Arrived, NoRow, Idle
<1>2. TypeOK /\ Arrived /\ [Next]_vars =>
        /\ Arrived'
        /\ \A n \in Notices : outbox[n].status = "SENT" =>
              outbox'[n].status = "SENT" /\ copies'[n] >= 1
    <2>. SUFFICES ASSUME TypeOK, Arrived, [Next]_vars
                  PROVE  /\ Arrived'
                         /\ \A n \in Notices : outbox[n].status = "SENT" =>
                               outbox'[n].status = "SENT" /\ copies'[n] >= 1
        OBVIOUS
    <2>. DEFINE Goal == /\ Arrived'
                        /\ \A n \in Notices : outbox[n].status = "SENT" =>
                              outbox'[n].status = "SENT" /\ copies'[n] >= 1
    <2>0. \A w \in Workers : Ended(w).phase # "RECORD" /\ worker[w] \in Passes
        BY IdleType DEF Ended, Idle, TypeOK
    <2>1. ASSUME UNCHANGED copies,
                 \A n \in Notices : outbox'[n].status = "SENT" <=> outbox[n].status = "SENT",
                 \A w \in Workers : worker'[w].phase = "RECORD" =>
                    /\ worker[w].phase = "RECORD" /\ worker'[w].sending = worker[w].sending
                    /\ worker'[w].result = worker[w].result
          PROVE  Goal
        BY <2>1 DEF Arrived
    <2>. HIDE DEF Goal
    <2>2. ASSUME NEW w \in Workers, KickAfterCommit(w) \/ KickByTimer(w)
          PROVE  Goal
        <3>1. /\ Kicked(w).phase = "RECORD" => worker[w].phase = "RECORD"
              /\ worker[w].phase = "RECORD" =>
                    /\ Kicked(w).sending = worker[w].sending
                    /\ Kicked(w).result = worker[w].result
            BY <2>0, IdleType DEF Kicked, Passes
        <3>. QED  BY <2>1, <2>2, <3>1 DEF KickAfterCommit, KickByTimer, TypeOK
    <2>3. ASSUME NEW w \in Workers, PassFails(w) \/ Crash(w)
          PROVE  Goal
        BY <2>0, <2>1, <2>3 DEF PassFails, Crash, Idle, TypeOK
    <2>4. ASSUME NEW w \in Workers, NEW n \in Notices, Enqueue(w, n) \/ Retry(w, n)
          PROVE  Goal
        BY <2>1, <2>4 DEF Enqueue, Retry, Queued, TypeOK
    <2>5. ASSUME NEW n \in Notices, BecomesDue(n) \/ LockRunsOut(n)
          PROVE  Goal
        BY <2>1, <2>5 DEF BecomesDue, LockRunsOut, TypeOK, Messages
    <2>6. ASSUME NEW w \in Workers, NEW ids \in SUBSET Notices, Claim(w, ids)
          PROVE  Goal
        <3>1. \A n \in ids : outbox[n].status # "SENT"
            BY <2>6 DEF Claim, Batches, Claimable
        <3>2. ASSUME NEW n \in Notices
              PROVE  outbox'[n].status = "SENT" <=> outbox[n].status = "SENT"
            <4>1. outbox[n] \in Messages
                BY DEF TypeOK
            <4>. QED  BY <2>6, <3>1, <4>1 DEF Claim, Messages
        <3>3. \A v \in Workers : worker'[v].phase = "RECORD" => worker'[v] = worker[v]
            BY <2>0, <2>6 DEF Claim, TypeOK, Passes
        <3>. QED  BY <2>1, <2>6, <3>2, <3>3 DEF Claim
    <2>7. ASSUME NEW w \in Workers, Read(w)
          PROVE  Goal
        <3>1. \A v \in Workers : worker'[v].phase = "RECORD" => worker'[v] = worker[v]
            BY <2>0, <2>7 DEF Read, TypeOK, Passes
        <3>. QED  BY <2>1, <2>7, <3>1 DEF Read
    <2>8. ASSUME NEW w \in Workers, NEW n \in Notices, NEW result \in Results \ {"NONE"},
                 NEW arrives \in BOOLEAN, Send(w, n, result, arrives)
          PROVE  Goal
        <3>1. /\ \A m \in Notices : copies'[m] >= copies[m] /\ copies[m] \in 0 .. 2
              /\ result = "OK" => copies'[n] >= 1
            BY <2>8 DEF Send, TypeOK
        <3>2. /\ worker'[w].sending = n /\ worker'[w].result = result
              /\ \A v \in Workers \ {w} : worker'[v] = worker[v]
            BY <2>0, <2>8 DEF Send, TypeOK, Passes
        <3>3. copies' \in [Notices -> 0 .. 2]
            BY <2>8 DEF Send, TypeOK
        <3>4. \A m \in Notices : outbox[m].status = "SENT" =>
                 outbox'[m].status = "SENT" /\ copies'[m] >= 1
            BY <2>8, <3>1, <3>3 DEF Send, Arrived
        <3>5. ASSUME NEW v \in Workers, worker'[v].phase = "RECORD"
              PROVE  /\ worker'[v].sending \in Notices
                     /\ worker'[v].result = "OK" => copies'[worker'[v].sending] >= 1
            <4>1. CASE v = w
                BY <3>1, <3>2, <4>1
            <4>2. CASE v # w
                BY <3>1, <3>2, <3>3, <3>5, <4>2 DEF Arrived
            <4>. QED  BY <4>1, <4>2
        <3>6. UNCHANGED outbox
            BY <2>8 DEF Send
        <3>. QED  BY <3>4, <3>5, <3>6 DEF Arrived, Goal
    <2>9. ASSUME NEW w \in Workers, Record(w)
          PROVE  Goal
        <3>. DEFINE n == worker[w].sending
        <3>1. n \in Notices /\ (worker[w].result = "OK" => copies[n] >= 1) /\ UNCHANGED copies
            BY <2>9 DEF Record, Arrived
        <3>2. \A v \in Workers : worker'[v].phase = "RECORD" => worker'[v] = worker[v]
            BY <2>0, <2>9 DEF Record, TypeOK, Passes
        <3>3. /\ \A m \in Notices \ {n} : outbox'[m] = outbox[m]
              /\ outbox'[n] = outbox[n] \/ outbox[n].status # "SENT"
              /\ outbox'[n] = outbox[n] \/ outbox'[n].status = RecordedStatus(w, n)
            <4>1. outbox[n] \in Messages
                BY <3>1 DEF TypeOK
            <4>. QED  BY <2>9, <3>1, <4>1 DEF Record, Fenced, TypeOK, Messages
        <3>4. RecordedStatus(w, n) = "SENT" => copies[n] >= 1
            BY <3>1 DEF RecordedStatus
        <3>. HIDE DEF n
        <3>. QED  BY <3>1, <3>2, <3>3, <3>4 DEF Arrived, Goal
    <2>10. ASSUME UNCHANGED vars
           PROVE  Goal
        BY <2>1, <2>10 DEF vars
    <2>11. ASSUME NEW w \in Workers, Pass(w)
           PROVE  Goal
        BY <2>6, <2>7, <2>8, <2>9, <2>11 DEF Pass
    <2>12. Goal
        BY <2>2, <2>3, <2>4, <2>5, <2>10, <2>11, SMTT(30) DEF Next
    <2>. QED  BY <2>12 DEF Goal
<1>. QED  BY <1>1, <1>2, OutboxTypeCorrect, PTL DEF Spec, SentStays

-----------------------------------------------------------------------------
(* What each phase of a pass holds; what a row says of who holds it, of its  *)
(* attempts and of the copies that arrived.                                  *)

Fresh(p) == p.phase \in {"IDLE", "CLAIM"} /\ p.ids = {} /\ \A n \in Notices : p.read[n] = 0

Shape ==
    \A w \in Workers :
      /\ worker[w].phase \in {"IDLE", "CLAIM"} => Fresh(worker[w])
      /\ worker[w].phase = "READ" => \A n \in Notices : worker[w].read[n] = 0
      /\ worker[w].phase \in {"SEND", "RECORD"} => worker[w].ids = {}
      /\ worker[w].phase = "RECORD" =>
           worker[w].sending \in Notices /\ worker[w].read[worker[w].sending] # 0

(* The attempts a holder read are the row's, as long as it holds it.         *)
HeldOf(n) ==
    outbox[n].status = "SENDING" =>
      /\ holder[n] \in Workers
      /\ worker[holder[n]].read[n] # 0 => worker[holder[n]].read[n] = outbox[n].attempts

(* An attempt beyond the bound was paid for by a fault: of the holder that   *)
(* is gone, or when its lock ran out.                                        *)
TriesOf(n) ==
      /\ outbox[n].attempts <= MaxAttempts + faults
      /\ outbox[n].status = "PENDING" => outbox[n].attempts < MaxAttempts
      /\ outbox[n].status = "PENDING" /\ ~outbox[n].due => outbox[n].attempts # 0
      /\ outbox[n].status = "SENDING" /\ (outbox[n].lapsed \/ ~Busy(holder[n], n)) =>
           outbox[n].attempts < MaxAttempts + faults

OwnSend(w, n) == worker[w].phase = "RECORD" /\ worker[w].sending = n /\ worker[w].result = "OK"

(* Without an excuse a row that is sent has one worker at it, and a copy     *)
(* that arrived is recorded, or about to be by that worker.                  *)
OneAt(n) ==
    ~excuse[n] =>
      /\ outbox[n].status = "SENDING" => ~outbox[n].lapsed
      /\ \A w \in Workers : Busy(w, n) => outbox[n].status = "SENDING" /\ holder[n] = w
      /\ copies[n] <= 1
      /\ copies[n] = 1 => \/ outbox[n].status = "SENT"
                         \/ /\ outbox[n].status = "SENDING"
                            /\ \A w \in Workers : Busy(w, n) => OwnSend(w, n)

RowInv == \A n \in Notices : HeldOf(n) /\ TriesOf(n) /\ OneAt(n)

OutboxInv == TypeOK /\ Shape /\ RowInv

LEMMA FreshStates ==
    ASSUME TypeOK, NEW w \in Workers
    PROVE  Fresh(Idle) /\ Fresh(Starting) /\ Fresh(Ended(w))
<1>1. Fresh(Idle) /\ Fresh(Starting)
    BY DEF Fresh, Idle, Starting
<1> QED BY <1>1 DEF Ended

LEMMA FreshIsFree ==
    ASSUME NEW w \in Workers, Fresh(worker[w]) PROVE \A n \in Notices : ~Busy(w, n)
<1> QED BY DEF Fresh, Busy

LEMMA KickedWorks ==
    ASSUME TypeOK, Shape, NEW w \in Workers
    PROVE  LET p == Kicked(w) IN
           /\ \/ Fresh(p) /\ Fresh(worker[w])
              \/ /\ p.phase = worker[w].phase /\ p.ids = worker[w].ids /\ p.read = worker[w].read
                 /\ p.sending = worker[w].sending /\ p.result = worker[w].result
           /\ p.phase = "CLAIM" \/ p.again
<1>1. CASE worker[w].phase = "IDLE"
    BY <1>1, FreshStates, IdleType DEF Kicked, Shape
<1>2. CASE worker[w].phase # "IDLE"
    <2>1. worker[w] \in Passes
        BY DEF TypeOK
    <2> QED BY <1>2, <2>1 DEF Kicked, Passes
<1> QED BY <1>1, <1>2

(* What a step of a pass leaves: its own worker's new state, and the rows.   *)
LEMMA ClaimDoes ==
    ASSUME TypeOK, Shape, NEW w \in Workers, NEW ids \in SUBSET Notices, Claim(w, ids)
    PROVE  /\ Fresh(worker[w])
           /\ \A n \in ids : /\ Claimable(n)
                            /\ outbox'[n].status = "SENDING" /\ ~outbox'[n].lapsed
                            /\ outbox'[n].attempts = outbox[n].attempts + 1
                            /\ holder'[n] = w
           /\ \A n \in Notices \ ids : outbox'[n] = outbox[n] /\ holder'[n] = holder[n]
           /\ \A v \in Workers \ {w} : worker'[v] = worker[v]
           /\ worker'[w].ids = ids /\ \A n \in Notices : worker'[w].read[n] = 0
           /\ IF ids = {} THEN worker'[w].phase \in {"IDLE", "CLAIM"}
              ELSE worker'[w].phase = "READ"
           /\ UNCHANGED <<copies, excuse, faults>>
<1>1. Fresh(worker[w]) /\ worker[w] \in Passes
    BY DEF Claim, Shape, TypeOK
<1>2. ASSUME NEW n \in ids
      PROVE  /\ Claimable(n)
             /\ outbox'[n].status = "SENDING" /\ ~outbox'[n].lapsed
             /\ outbox'[n].attempts = outbox[n].attempts + 1
             /\ holder'[n] = w
    <2>1. outbox[n] \in Messages
        BY DEF TypeOK
    <2> QED BY <2>1 DEF Claim, Batches, Messages
<1>3. \A n \in Notices \ ids : outbox'[n] = outbox[n] /\ holder'[n] = holder[n]
    BY DEF Claim
<1>4. \A v \in Workers \ {w} : worker'[v] = worker[v]
    BY DEF Claim, TypeOK
<1>5. CASE ids = {}
    <2>1. worker'[w] = Ended(w)
        BY <1>5 DEF Claim, TypeOK
    <2> QED BY <1>1, <1>2, <1>3, <1>4, <1>5, <2>1, FreshStates DEF Claim, Fresh
<1>6. CASE ids # {}
    <2>1. worker'[w] = [worker[w] EXCEPT !.phase = "READ", !.ids = ids]
        BY <1>6 DEF Claim, TypeOK
    <2>2. worker'[w].phase = "READ" /\ worker'[w].ids = ids /\ worker'[w].read = worker[w].read
        BY <1>1, <2>1 DEF Passes
    <2> QED BY <1>1, <1>2, <1>3, <1>4, <1>6, <2>2 DEF Claim, Fresh
<1> QED BY <1>5, <1>6

LEMMA ReadDoes ==
    ASSUME TypeOK, Shape, NEW w \in Workers, Read(w)
    PROVE  /\ worker[w].phase = "READ" /\ \A n \in Notices : worker[w].read[n] = 0
           /\ worker'[w].phase = "SEND" /\ worker'[w].ids = {}
           /\ \A n \in Notices :
                worker'[w].read[n] = IF n \in worker[w].ids THEN outbox[n].attempts ELSE 0
           /\ \A v \in Workers \ {w} : worker'[v] = worker[v]
           /\ UNCHANGED <<outbox, copies, excuse, holder, faults>>
<1>1. worker[w] \in Passes
    BY DEF TypeOK
<1> QED BY <1>1 DEF Read, Shape, TypeOK, Passes

LEMMA SendDoes ==
    ASSUME TypeOK, Shape, NEW w \in Workers, NEW n \in Notices, NEW result \in Results \ {"NONE"},
           NEW arrives \in BOOLEAN, Send(w, n, result, arrives)
    PROVE  /\ worker[w].phase = "SEND" /\ worker[w].ids = {} /\ worker[w].read[n] # 0
           /\ worker'[w].phase = "RECORD" /\ worker'[w].ids = {}
           /\ worker'[w].read = worker[w].read
           /\ worker'[w].sending = n /\ worker'[w].result = result
           /\ \A v \in Workers \ {w} : worker'[v] = worker[v]
           /\ \A m \in Notices \ {n} : copies'[m] = copies[m] /\ excuse'[m] = excuse[m]
           /\ UNCHANGED <<outbox, holder, faults>>
<1>1. worker[w] \in Passes
    BY DEF TypeOK
<1>2. \A m \in Notices \ {n} : copies'[m] = copies[m] /\ excuse'[m] = excuse[m]
    BY DEF Send, TypeOK
<1>3. /\ worker[w].phase = "SEND" /\ worker[w].ids = {} /\ worker[w].read[n] # 0
      /\ worker'[w].phase = "RECORD" /\ worker'[w].ids = {}
      /\ worker'[w].read = worker[w].read
      /\ worker'[w].sending = n /\ worker'[w].result = result
      /\ \A v \in Workers \ {w} : worker'[v] = worker[v]
    BY <1>1 DEF Send, Shape, TypeOK, Passes
<1> QED BY <1>2, <1>3 DEF Send

LEMMA RecordDoes ==
    ASSUME TypeOK, Shape, NEW w \in Workers, Record(w)
    PROVE  LET n == worker[w].sending IN
           /\ n \in Notices /\ worker[w].phase = "RECORD" /\ worker[w].ids = {}
           /\ worker[w].read[n] # 0
           /\ \A v \in Workers \ {w} : worker'[v] = worker[v]
           /\ \/ Fresh(worker'[w]) /\ \A m \in Notices \ {n} : worker[w].read[m] = 0
              \/ worker'[w].phase = "SEND" /\ worker'[w].ids = {}
           /\ worker'[w].read[n] = 0
           /\ \A m \in Notices \ {n} : worker'[w].read[m] = worker[w].read[m]
           /\ \A m \in Notices \ {n} : outbox'[m] = outbox[m]
           /\ IF Fenced(w, n)
              THEN /\ outbox'[n].status = RecordedStatus(w, n) /\ ~outbox'[n].due
                   /\ outbox'[n].attempts = outbox[n].attempts
              ELSE outbox'[n] = outbox[n]
           /\ UNCHANGED <<copies, excuse, holder, faults>>
<1> DEFINE n == worker[w].sending
           left == [worker[w].read EXCEPT ![n] = 0]
<1>1. worker[w] \in Passes /\ n \in Notices /\ worker[w].phase = "RECORD"
      /\ worker[w].ids = {} /\ worker[w].read[n] # 0
    BY DEF Record, Shape, TypeOK
<1>2. left \in [Notices -> Nat] /\ left[n] = 0 /\ \A m \in Notices \ {n} : left[m] = worker[w].read[m]
    BY <1>1 DEF Passes
<1>3. \A v \in Workers \ {w} : worker'[v] = worker[v]
    BY DEF Record, TypeOK
<1>4. /\ \/ Fresh(worker'[w]) /\ \A m \in Notices \ {n} : worker[w].read[m] = 0
         \/ worker'[w].phase = "SEND" /\ worker'[w].ids = {}
      /\ \A m \in Notices : worker'[w].read[m] = left[m]
    <2>1. CASE \E m \in Notices : left[m] # 0
        <3>1. worker'[w] = [worker[w] EXCEPT !.phase = "SEND", !.read = left, !.sending = NoNotice,
                                             !.result = "NONE"]
            BY <2>1 DEF Record, TypeOK
        <3> HIDE DEF left
        <3> QED BY <1>1, <3>1 DEF Passes
    <2>2. CASE ~ \E m \in Notices : left[m] # 0
        <3>1. worker'[w] = Ended(w)
            BY <2>2 DEF Record, TypeOK
        <3> QED BY <1>2, <2>2, <3>1, FreshStates DEF Fresh
    <2> QED BY <2>1, <2>2
<1>5. /\ \A m \in Notices \ {n} : outbox'[m] = outbox[m]
      /\ IF Fenced(w, n)
         THEN /\ outbox'[n].status = RecordedStatus(w, n) /\ ~outbox'[n].due
              /\ outbox'[n].attempts = outbox[n].attempts
         ELSE outbox'[n] = outbox[n]
    <2>1. outbox[n] \in Messages
        BY <1>1 DEF TypeOK
    <2> QED BY <1>1, <2>1 DEF Record, TypeOK, Messages
<1> QED BY <1>1, <1>2, <1>3, <1>4, <1>5 DEF Record

LEMMA Numbers ==
    ASSUME TypeOK
    PROVE  /\ faults \in Nat /\ MaxAttempts \in Nat
           /\ \A n \in Notices : outbox[n].attempts \in Nat /\ copies[n] \in 0 .. 2
<1> QED BY OutboxAssumption DEF TypeOK, Messages

(* Steps that change one worker's loop and no row. *)
LEMMA LoopStep ==
    ASSUME OutboxInv, NEW w \in Workers, UNCHANGED <<outbox, holder, copies, excuse>>,
           \A v \in Workers \ {w} : worker'[v] = worker[v],
           \/ Fresh(worker'[w]) /\ (Fresh(worker[w]) \/ faults' = faults + 1)
           \/ /\ worker'[w].phase = worker[w].phase /\ worker'[w].ids = worker[w].ids
              /\ worker'[w].read = worker[w].read /\ worker'[w].sending = worker[w].sending
              /\ worker'[w].result = worker[w].result,
           faults' = faults \/ faults' = faults + 1
    PROVE  Shape' /\ RowInv'
<1> USE DEF OutboxInv
<1>1. Shape'
    BY DEF Shape, Fresh
<1> SUFFICES ASSUME NEW n \in Notices PROVE HeldOf(n)' /\ TriesOf(n)' /\ OneAt(n)'
    BY <1>1 DEF RowInv
<1>0. HeldOf(n) /\ TriesOf(n) /\ OneAt(n)
    BY DEF RowInv
<1>2. ASSUME NEW v \in Workers
      PROVE  /\ Busy(v, n)' => Busy(v, n) /\ (OwnSend(v, n) => OwnSend(v, n)')
             /\ worker'[v].read[n] # 0 => worker'[v].read[n] = worker[v].read[n]
             /\ Busy(v, n) /\ ~Busy(v, n)' => faults' = faults + 1
    BY DEF Busy, OwnSend, Fresh
<1>3. HeldOf(n)'
    BY <1>0, <1>2 DEF HeldOf
<1>4. TriesOf(n)'
    <2>1. CASE faults' = faults + 1
        BY <1>0, <2>1, Numbers DEF TriesOf
    <2>2. CASE faults' = faults
        <3>1. ASSUME outbox[n].status = "SENDING", Busy(holder[n], n) PROVE Busy(holder[n], n)'
            <4>1. PICK v \in Workers : v = holder[n]
                BY <1>0, <3>1 DEF HeldOf
            <4>2. Busy(v, n)'
                BY <1>2, <2>2, <3>1, <4>1, Numbers
            <4> QED BY <4>1, <4>2 DEF Busy
        <3> QED BY <1>0, <2>2, <3>1 DEF TriesOf
    <2> QED BY <2>1, <2>2
<1>5. OneAt(n)'
    BY <1>0, <1>2 DEF OneAt
<1> QED BY <1>3, <1>4, <1>5

LEMMA ClaimStep ==
    ASSUME OutboxInv, NEW w \in Workers, NEW ids \in SUBSET Notices, Claim(w, ids)
    PROVE  Shape' /\ RowInv'
<1> USE DEF OutboxInv
<1>1. /\ Fresh(worker[w])
      /\ \A n \in ids : /\ Claimable(n)
                       /\ outbox'[n].status = "SENDING" /\ ~outbox'[n].lapsed
                       /\ outbox'[n].attempts = outbox[n].attempts + 1
                       /\ holder'[n] = w
      /\ \A n \in Notices \ ids : outbox'[n] = outbox[n] /\ holder'[n] = holder[n]
      /\ \A v \in Workers \ {w} : worker'[v] = worker[v]
      /\ worker'[w].ids = ids /\ \A n \in Notices : worker'[w].read[n] = 0
      /\ IF ids = {} THEN worker'[w].phase \in {"IDLE", "CLAIM"}
         ELSE worker'[w].phase = "READ"
      /\ UNCHANGED <<copies, excuse, faults>>
    BY ClaimDoes
<1>2. Shape'
    BY <1>1 DEF Shape, Fresh
<1> SUFFICES ASSUME NEW n \in Notices PROVE HeldOf(n)' /\ TriesOf(n)' /\ OneAt(n)'
    BY <1>2 DEF RowInv
<1>0. HeldOf(n) /\ TriesOf(n) /\ OneAt(n)
    BY DEF RowInv
<1>3. ~Busy(w, n) /\ (Busy(w, n)' <=> n \in ids)
    BY <1>1, FreshIsFree DEF Busy
<1>4. \A v \in Workers \ {w} : (Busy(v, n)' <=> Busy(v, n)) /\ (OwnSend(v, n)' <=> OwnSend(v, n))
    BY <1>1 DEF Busy, OwnSend
<1>5. CASE n \in ids
    <2>1. /\ Claimable(n) /\ outbox'[n].status = "SENDING" /\ ~outbox'[n].lapsed
          /\ outbox'[n].attempts = outbox[n].attempts + 1 /\ holder'[n] = w
          /\ worker'[w].read[n] = 0 /\ Busy(w, n)' /\ UNCHANGED <<copies, excuse, faults>>
        BY <1>1, <1>3, <1>5
    <2>2. Busy(holder[n], n)'
        BY <2>1 DEF Busy
    <2>3. outbox[n].attempts < MaxAttempts + faults
        BY <1>0, <2>1, Numbers DEF Claimable, TriesOf
    <2>4. TriesOf(n)'
        BY <2>1, <2>2, <2>3, Numbers DEF TriesOf
    <2>5. ASSUME ~excuse[n]
          PROVE  outbox[n].status = "PENDING" /\ copies[n] = 0 /\ \A v \in Workers : ~Busy(v, n)
        <3>1. outbox[n].status = "PENDING"
            BY <1>0, <2>1, <2>5 DEF Claimable, OneAt
        <3> QED BY <1>0, <2>5, <3>1, Numbers DEF OneAt
    <2>6. OneAt(n)'
        BY <1>4, <2>1, <2>5 DEF OneAt
    <2> QED BY <2>1, <2>4, <2>6 DEF HeldOf
<1>6. CASE n \notin ids
    <2>1. /\ outbox'[n] = outbox[n] /\ holder'[n] = holder[n] /\ ~Busy(w, n)'
          /\ worker'[w].read[n] = 0 /\ UNCHANGED <<copies, excuse, faults>>
        BY <1>1, <1>3, <1>6
    <2>3. TriesOf(n)'
        <3>1. CASE outbox[n].status = "SENDING" /\ Busy(holder[n], n)
            <4>1. PICK v \in Workers : v = holder[n]
                BY <1>0, <3>1 DEF HeldOf
            <4>2. Busy(v, n)'
                BY <1>3, <1>4, <3>1, <4>1 DEF Busy
            <4>3. Busy(holder[n], n)'
                BY <2>1, <4>1, <4>2 DEF Busy
            <4> QED BY <1>0, <2>1, <4>3 DEF TriesOf
        <3>2. CASE ~(outbox[n].status = "SENDING" /\ Busy(holder[n], n))
            BY <1>0, <2>1, <3>2 DEF TriesOf
        <3> QED BY <3>1, <3>2
    <2>4. HeldOf(n)'
        BY <1>0, <1>1, <2>1 DEF HeldOf
    <2>5. OneAt(n)'
        BY <1>0, <1>3, <1>4, <2>1 DEF OneAt
    <2> QED BY <2>3, <2>4, <2>5
<1> QED BY <1>5, <1>6

LEMMA ReadStep ==
    ASSUME OutboxInv, NEW w \in Workers, Read(w)
    PROVE  Shape' /\ RowInv'
<1> USE DEF OutboxInv
<1>1. /\ worker[w].phase = "READ" /\ \A n \in Notices : worker[w].read[n] = 0
      /\ worker'[w].phase = "SEND" /\ worker'[w].ids = {}
      /\ \A n \in Notices :
           worker'[w].read[n] = IF n \in worker[w].ids THEN outbox[n].attempts ELSE 0
      /\ \A v \in Workers \ {w} : worker'[v] = worker[v]
      /\ UNCHANGED <<outbox, copies, excuse, holder, faults>>
    BY ReadDoes
<1>2. Shape'
    BY <1>1 DEF Shape, Fresh
<1> SUFFICES ASSUME NEW n \in Notices PROVE HeldOf(n)' /\ TriesOf(n)' /\ OneAt(n)'
    BY <1>2 DEF RowInv
<1>0. HeldOf(n) /\ TriesOf(n) /\ OneAt(n)
    BY DEF RowInv
<1>3. \A v \in Workers \ {w} : (Busy(v, n)' <=> Busy(v, n)) /\ (OwnSend(v, n)' <=> OwnSend(v, n))
    BY <1>1 DEF Busy, OwnSend
<1>4. /\ Busy(w, n)' => Busy(w, n) /\ ~OwnSend(w, n)
      /\ worker'[w].read[n] # 0 => worker'[w].read[n] = outbox[n].attempts
    BY <1>1 DEF Busy, OwnSend
<1>5. HeldOf(n)'
    BY <1>0, <1>1, <1>4 DEF HeldOf
<1>6. TriesOf(n)'
    <2>1. CASE outbox[n].status = "SENDING" /\ Busy(holder[n], n) /\ outbox[n].attempts # 0
        <3>1. PICK v \in Workers : v = holder[n]
            BY <1>0, <2>1 DEF HeldOf
        <3>2. Busy(v, n)'
            BY <1>1, <1>3, <2>1, <3>1 DEF Busy
        <3>3. Busy(holder[n], n)'
            BY <1>1, <3>1, <3>2 DEF Busy
        <3> QED BY <1>0, <1>1, <2>1, <3>3 DEF TriesOf
    <2>2. CASE outbox[n].attempts = 0
        BY <1>0, <1>1, <2>2, Numbers, OutboxAssumption DEF TriesOf
    <2>3. CASE ~(outbox[n].status = "SENDING" /\ Busy(holder[n], n))
        BY <1>0, <1>1, <2>3 DEF TriesOf
    <2> QED BY <2>1, <2>2, <2>3
<1>7. OneAt(n)'
    BY <1>0, <1>1, <1>3, <1>4 DEF OneAt
<1> QED BY <1>5, <1>6, <1>7

LEMMA SendStep ==
    ASSUME OutboxInv, NEW w \in Workers, NEW m \in Notices, NEW result \in Results \ {"NONE"},
           NEW arrives \in BOOLEAN, Send(w, m, result, arrives)
    PROVE  Shape' /\ RowInv'
<1> USE DEF OutboxInv
<1>1. /\ worker[w].phase = "SEND" /\ worker[w].ids = {} /\ worker[w].read[m] # 0
      /\ worker'[w].phase = "RECORD" /\ worker'[w].ids = {}
      /\ worker'[w].read = worker[w].read
      /\ worker'[w].sending = m /\ worker'[w].result = result
      /\ \A v \in Workers \ {w} : worker'[v] = worker[v]
      /\ \A n \in Notices \ {m} : copies'[n] = copies[n] /\ excuse'[n] = excuse[n]
      /\ UNCHANGED <<outbox, holder, faults>>
    BY SendDoes
<1>e. ~excuse'[m] => /\ ~excuse[m] /\ (arrives => result = "OK")
                     /\ copies'[m] = copies[m] \/ (arrives /\ copies'[m] = copies[m] + 1)
    <2>1. excuse'[m] = (excuse[m] \/ (arrives /\ result = "ERROR"))
        BY DEF Send, TypeOK
    <2>2. copies'[m] = copies[m] \/ (arrives /\ copies'[m] = copies[m] + 1)
        BY DEF Send, TypeOK
    <2> QED BY <2>1, <2>2 DEF Send, Results
<1>2. Shape'
    BY <1>1 DEF Shape, Fresh
<1> SUFFICES ASSUME NEW n \in Notices PROVE HeldOf(n)' /\ TriesOf(n)' /\ OneAt(n)'
    BY <1>2 DEF RowInv
<1>0. HeldOf(n) /\ TriesOf(n) /\ OneAt(n)
    BY DEF RowInv
<1>3. ASSUME NEW v \in Workers
      PROVE  (Busy(v, n)' <=> Busy(v, n)) /\ worker'[v].read = worker[v].read
    BY <1>1 DEF Busy
<1>4. \A v \in Workers \ {w} : OwnSend(v, n)' <=> OwnSend(v, n)
    BY <1>1 DEF OwnSend
<1>5. HeldOf(n)'
    BY <1>0, <1>1, <1>3 DEF HeldOf
<1>6. TriesOf(n)'
    <2>1. CASE outbox[n].status = "SENDING" /\ Busy(holder[n], n)
        <3>1. PICK v \in Workers : v = holder[n]
            BY <1>0, <2>1 DEF HeldOf
        <3>2. Busy(holder[n], n)'
            BY <1>1, <1>3, <2>1, <3>1 DEF Busy
        <3> QED BY <1>0, <1>1, <3>2 DEF TriesOf
    <2>2. CASE ~(outbox[n].status = "SENDING" /\ Busy(holder[n], n))
        BY <1>0, <1>1, <2>2 DEF TriesOf
    <2> QED BY <2>1, <2>2
<1>7. OneAt(n)'
    <2>0. SUFFICES ASSUME ~excuse'[n] PROVE OneAt(n)'
        BY DEF OneAt
    <2>1. CASE n = m
        <3>0. /\ ~excuse[n] /\ (arrives => result = "OK")
              /\ copies'[n] = copies[n] \/ (arrives /\ copies'[n] = copies[n] + 1)
            <4>1. ~excuse'[m]
                BY <2>0, <2>1
            <4>2. /\ ~excuse[m] /\ (arrives => result = "OK")
                  /\ copies'[m] = copies[m] \/ (arrives /\ copies'[m] = copies[m] + 1)
                BY <1>e, <4>1
            <4> QED BY <2>1, <4>2
        <3>1. Busy(w, n) /\ ~OwnSend(w, n) /\ ~excuse[n]
            BY <1>1, <2>1, <3>0 DEF Busy, OwnSend
        <3>2. copies[n] = 0 /\ outbox[n].status = "SENDING" /\ ~outbox[n].lapsed
              /\ \A v \in Workers : Busy(v, n) => v = w
            BY <1>0, <3>1, Numbers DEF OneAt
        <3>3. copies'[n] = 0 \/ (copies'[n] = 1 /\ OwnSend(w, n)')
            <4>1. arrives => OwnSend(w, n)'
                BY <1>1, <2>1, <3>0 DEF OwnSend
            <4> QED BY <3>0, <3>2, <4>1
        <3>4. holder[n] = w
            BY <1>0, <3>1 DEF OneAt
        <3> QED BY <1>1, <1>3, <3>2, <3>3, <3>4 DEF OneAt
    <2>2. CASE n # m
        <3>1. copies'[n] = copies[n] /\ ~excuse[n]
            BY <1>1, <2>0, <2>2
        <3>2. ~OwnSend(w, n)
            BY <1>1 DEF OwnSend
        <3> QED BY <1>0, <1>1, <1>3, <1>4, <3>1, <3>2 DEF OneAt
    <2> QED BY <2>1, <2>2
<1> QED BY <1>5, <1>6, <1>7

LEMMA RecordStep ==
    ASSUME OutboxInv, NEW w \in Workers, Record(w)
    PROVE  Shape' /\ RowInv'
<1> USE DEF OutboxInv
<1>1. PICK m : m = worker[w].sending
    OBVIOUS
<1>2. /\ m \in Notices /\ worker[w].phase = "RECORD" /\ worker[w].ids = {}
      /\ worker[w].read[m] # 0
      /\ \A v \in Workers \ {w} : worker'[v] = worker[v]
      /\ Fresh(worker'[w]) \/ (worker'[w].phase = "SEND" /\ worker'[w].ids = {})
      /\ worker'[w].read[m] = 0
      /\ \A n \in Notices \ {m} : worker'[w].read[n] = worker[w].read[n]
      /\ \A n \in Notices \ {m} : outbox'[n] = outbox[n]
      /\ IF Fenced(w, m)
         THEN /\ outbox'[m].status = RecordedStatus(w, m) /\ ~outbox'[m].due
              /\ outbox'[m].attempts = outbox[m].attempts
         ELSE outbox'[m] = outbox[m]
      /\ UNCHANGED <<copies, excuse, holder, faults>>
    BY <1>1, RecordDoes
<1>3. Shape'
    BY <1>2 DEF Shape, Fresh
<1> SUFFICES ASSUME NEW n \in Notices PROVE HeldOf(n)' /\ TriesOf(n)' /\ OneAt(n)'
    BY <1>3 DEF RowInv
<1>0. HeldOf(n) /\ TriesOf(n) /\ OneAt(n)
    BY DEF RowInv
<1>4. \A v \in Workers \ {w} : (Busy(v, n)' <=> Busy(v, n)) /\ (OwnSend(v, n)' <=> OwnSend(v, n))
    BY <1>2 DEF Busy, OwnSend
<1>i. worker'[w].ids = {}
    BY <1>2 DEF Fresh
<1>5. CASE n # m
    <2>1. outbox'[n] = outbox[n] /\ (Busy(w, n)' <=> Busy(w, n)) /\ ~OwnSend(w, n)
          /\ worker'[w].read[n] = worker[w].read[n]
        BY <1>1, <1>2, <1>5, <1>i DEF Busy, OwnSend
    <2>2. HeldOf(n)'
        BY <1>0, <1>2, <2>1 DEF HeldOf
    <2>3. TriesOf(n)'
        <3>1. CASE outbox[n].status = "SENDING" /\ Busy(holder[n], n)
            <4>1. PICK v \in Workers : v = holder[n]
                BY <1>0, <3>1 DEF HeldOf
            <4>2. Busy(v, n)'
                BY <1>4, <2>1, <3>1, <4>1 DEF Busy
            <4>3. Busy(holder[n], n)'
                BY <1>2, <4>1, <4>2 DEF Busy
            <4> QED BY <1>0, <1>2, <2>1, <4>3 DEF TriesOf
        <3>2. CASE ~(outbox[n].status = "SENDING" /\ Busy(holder[n], n))
            BY <1>0, <1>2, <2>1, <3>2 DEF TriesOf
        <3> QED BY <3>1, <3>2
    <2>4. OneAt(n)'
        BY <1>0, <1>2, <1>4, <2>1 DEF OneAt
    <2> QED BY <2>2, <2>3, <2>4
<1>6. CASE n = m /\ Fenced(w, m)
    <2>1. /\ outbox[n].status = "SENDING" /\ outbox[n].attempts = worker[w].read[n]
          /\ outbox'[n].status = RecordedStatus(w, n) /\ ~outbox'[n].due
          /\ outbox'[n].attempts = outbox[n].attempts /\ worker[w].read[n] # 0
        BY <1>2, <1>6 DEF Fenced
    <2>2. /\ outbox'[n].status \in {"SENT", "FAILED", "PENDING"}
          /\ outbox'[n].status = "SENT" <=> worker[w].result = "OK"
          /\ outbox'[n].status = "PENDING" => ~(worker[w].read[n] >= MaxAttempts)
        BY <2>1 DEF RecordedStatus, LastTry
    <2>3. HeldOf(n)'
        BY <2>2 DEF HeldOf
    <2>4. TriesOf(n)'
        BY <1>0, <1>2, <2>1, <2>2, Numbers DEF TriesOf
    <2>5. ~Busy(w, n)' /\ Busy(w, n)
        BY <1>2, <1>6, <1>i DEF Busy
    <2>6. OneAt(n)'
        <3> SUFFICES ASSUME ~excuse[n]
                     PROVE  /\ \A v \in Workers : ~Busy(v, n)'
                            /\ copies[n] <= 1 /\ (copies[n] = 1 => outbox'[n].status = "SENT")
            BY <1>2, <2>2 DEF OneAt
        <3>1. \A v \in Workers : Busy(v, n) => v = w
            BY <1>0, <2>5 DEF OneAt
        <3>2. copies[n] = 1 => OwnSend(w, n)
            BY <1>0, <2>1, <2>5 DEF OneAt
        <3> QED BY <1>0, <1>4, <2>2, <2>5, <3>1, <3>2 DEF OneAt, OwnSend
    <2> QED BY <2>3, <2>4, <2>6
<1>7. CASE n = m /\ ~Fenced(w, m)
    <2>1. outbox'[n] = outbox[n] /\ worker'[w].read[n] = 0 /\ ~Busy(w, n)' /\ Busy(w, n)
        BY <1>2, <1>7, <1>i DEF Busy
    <2>2. outbox[n].status = "SENDING" => holder[n] # w
        BY <1>0, <1>2, <1>7 DEF HeldOf, Fenced
    <2>3. HeldOf(n)'
        BY <1>0, <1>2, <2>1, <2>2 DEF HeldOf
    <2>4. TriesOf(n)'
        <3>1. CASE outbox[n].status = "SENDING" /\ Busy(holder[n], n)
            <4>1. PICK v \in Workers : v = holder[n]
                BY <1>0, <3>1 DEF HeldOf
            <4>2. Busy(v, n)'
                BY <1>4, <2>2, <3>1, <4>1 DEF Busy
            <4>3. Busy(holder[n], n)'
                BY <1>2, <4>1, <4>2 DEF Busy
            <4> QED BY <1>0, <1>2, <2>1, <4>3 DEF TriesOf
        <3>2. CASE ~(outbox[n].status = "SENDING" /\ Busy(holder[n], n))
            BY <1>0, <1>2, <2>1, <3>2 DEF TriesOf
        <3> QED BY <3>1, <3>2
    <2>5. excuse[n]
        BY <1>0, <2>1, <2>2 DEF OneAt
    <2>6. OneAt(n)'
        BY <1>2, <2>5 DEF OneAt
    <2> QED BY <2>3, <2>4, <2>6
<1> QED BY <1>5, <1>6, <1>7

LEMMA OtherSteps ==
    ASSUME OutboxInv,
           \/ \E w \in Workers : \/ KickAfterCommit(w) \/ KickByTimer(w) \/ PassFails(w) \/ Crash(w)
                               \/ \E n \in Notices : Enqueue(w, n) \/ Retry(w, n)
           \/ \E n \in Notices : BecomesDue(n) \/ LockRunsOut(n)
           \/ UNCHANGED vars
    PROVE  Shape' /\ RowInv'
<1> USE DEF OutboxInv
<1>1. ASSUME NEW w \in Workers, KickAfterCommit(w) \/ KickByTimer(w) PROVE Shape' /\ RowInv'
    <2>1. worker'[w] = Kicked(w) /\ \A v \in Workers \ {w} : worker'[v] = worker[v]
        BY <1>1 DEF KickAfterCommit, KickByTimer, TypeOK
    <2>2. UNCHANGED <<outbox, holder, copies, excuse, faults>>
        BY <1>1 DEF KickAfterCommit, KickByTimer
    <2>3. \/ Fresh(worker'[w]) /\ Fresh(worker[w])
          \/ /\ worker'[w].phase = worker[w].phase /\ worker'[w].ids = worker[w].ids
             /\ worker'[w].read = worker[w].read /\ worker'[w].sending = worker[w].sending
             /\ worker'[w].result = worker[w].result
        BY <2>1, KickedWorks
    <2> QED BY <2>1, <2>2, <2>3, LoopStep
<1>2. ASSUME NEW w \in Workers, PassFails(w) \/ Crash(w) PROVE Shape' /\ RowInv'
    <2>1. Fresh(worker'[w]) /\ \A v \in Workers \ {w} : worker'[v] = worker[v]
        BY <1>2, FreshStates DEF PassFails, Crash, TypeOK
    <2>2. faults' = faults + 1 /\ UNCHANGED <<outbox, holder, copies, excuse>>
        BY <1>2 DEF PassFails, Crash, Fault
    <2> QED BY <2>1, <2>2, LoopStep
<1>3. ASSUME UNCHANGED <<worker, holder, copies, faults>>,
             NEW m \in Notices, outbox[m].status # "SENDING",
             \A n \in Notices \ {m} : outbox'[n] = outbox[n] /\ excuse'[n] = excuse[n],
             excuse'[m] = excuse[m],
             \/ outbox'[m] = outbox[m]
             \/ outbox'[m] = Queued /\ outbox[m].status # "SENT"
             \/ /\ outbox[m].status = "PENDING" /\ outbox'[m].status = "PENDING"
                /\ outbox'[m].attempts = outbox[m].attempts /\ outbox'[m].due
      PROVE  Shape' /\ RowInv'
    <2>1. Shape'
        BY <1>3 DEF Shape, Fresh
    <2> SUFFICES ASSUME NEW n \in Notices PROVE HeldOf(n)' /\ TriesOf(n)' /\ OneAt(n)'
        BY <2>1 DEF RowInv
    <2>0. HeldOf(n) /\ TriesOf(n) /\ OneAt(n)
        BY DEF RowInv
    <2>2. \A v \in Workers : (Busy(v, n)' <=> Busy(v, n)) /\ (OwnSend(v, n)' <=> OwnSend(v, n))
        BY <1>3 DEF Busy, OwnSend
    <2>3. Busy(holder[n], n)' <=> Busy(holder[n], n)
        BY <1>3 DEF Busy
    <2>4. CASE outbox'[n] = outbox[n]
        <3>1. excuse'[n] <=> excuse[n]
            BY <1>3
        <3>2. OneAt(n)'
            BY <1>3, <2>0, <2>2, <2>4, <3>1 DEF OneAt
        <3>3. HeldOf(n)' /\ TriesOf(n)'
            BY <1>3, <2>0, <2>3, <2>4 DEF HeldOf, TriesOf
        <3> QED BY <3>2, <3>3
    <2>5. CASE outbox'[n] # outbox[n]
        <3>1. /\ n = m /\ outbox[n].status # "SENDING" /\ outbox'[n].status = "PENDING"
              /\ outbox'[n].due /\ outbox[n].status # "SENT"
              /\ \/ outbox'[n].attempts = 0
                 \/ outbox'[n].attempts = outbox[n].attempts /\ outbox[n].status = "PENDING"
            <4>1. n = m
                BY <1>3, <2>5
            <4>2. CASE outbox'[m] = Queued /\ outbox[m].status # "SENT"
                <5>1. Queued.status = "PENDING" /\ Queued.attempts = 0 /\ Queued.due
                    BY DEF Queued
                <5>2. outbox'[n].status = "PENDING" /\ outbox'[n].attempts = 0
                    BY <4>1, <4>2, <5>1
                <5>3. outbox'[n].due
                    BY <4>1, <4>2, <5>1, Zenon
                <5>4. outbox[n].status # "SENDING" /\ outbox[n].status # "SENT"
                    BY <1>3, <4>1, <4>2
                <5> QED BY <4>1, <5>2, <5>3, <5>4
            <4>3. CASE /\ outbox[m].status = "PENDING" /\ outbox'[m].status = "PENDING"
                       /\ outbox'[m].attempts = outbox[m].attempts /\ outbox'[m].due
                BY <1>3, <4>1, <4>3
            <4> QED BY <1>3, <2>5, <4>1, <4>2, <4>3
        <3>2. HeldOf(n)' /\ TriesOf(n)'
            BY <1>3, <2>0, <3>1, Numbers, OutboxAssumption DEF HeldOf, TriesOf
        <3>3. excuse'[n] <=> excuse[n]
            BY <1>3
        <3>4. OneAt(n)'
            BY <1>3, <2>0, <2>2, <3>1, <3>3, Numbers DEF OneAt
        <3> QED BY <3>2, <3>4
    <2> QED BY <2>4, <2>5
<1>4. ASSUME NEW w \in Workers, NEW n \in Notices, Enqueue(w, n) \/ Retry(w, n)
      PROVE  Shape' /\ RowInv'
    <2>1. CASE outbox' = outbox
        BY <1>4, <2>1, LoopStep DEF Enqueue, Retry
    <2>2. CASE outbox' # outbox
        BY <1>3, <1>4, <2>2 DEF Enqueue, Retry, TypeOK
    <2> QED BY <2>1, <2>2
<1>5. ASSUME NEW n \in Notices, BecomesDue(n) PROVE Shape' /\ RowInv'
    <2>1. outbox[n] \in Messages
        BY DEF TypeOK
    <2>2. /\ outbox[n].status = "PENDING" /\ outbox'[n].status = "PENDING"
          /\ outbox'[n].attempts = outbox[n].attempts /\ outbox'[n].due
          /\ \A m \in Notices \ {n} : outbox'[m] = outbox[m]
        BY <1>5, <2>1 DEF BecomesDue, TypeOK, Messages
    <2> QED BY <1>3, <1>5, <2>2 DEF BecomesDue
<1>6. ASSUME NEW m \in Notices, LockRunsOut(m) PROVE Shape' /\ RowInv'
    <2>1. outbox[m] \in Messages
        BY DEF TypeOK
    <2>2. /\ outbox[m].status = "SENDING" /\ outbox'[m].status = "SENDING"
          /\ outbox'[m].attempts = outbox[m].attempts
          /\ \A n \in Notices \ {m} : outbox'[n] = outbox[n]
          /\ UNCHANGED <<worker, copies, holder>>
          /\ IF Busy(holder[m], m) THEN faults' = faults + 1 ELSE faults' = faults
        BY <1>6, <2>1 DEF LockRunsOut, Fault, TypeOK, Messages
    <2>3. excuse'[m] = TRUE /\ \A n \in Notices \ {m} : excuse'[n] = excuse[n]
        BY <1>6 DEF LockRunsOut, TypeOK
    <2>4. Shape'
        BY <2>2 DEF Shape, Fresh
    <2> SUFFICES ASSUME NEW n \in Notices PROVE HeldOf(n)' /\ TriesOf(n)' /\ OneAt(n)'
        BY <2>4 DEF RowInv
    <2>0. HeldOf(n) /\ TriesOf(n) /\ OneAt(n)
        BY DEF RowInv
    <2>5. \A v \in Workers : (Busy(v, n)' <=> Busy(v, n)) /\ (OwnSend(v, n)' <=> OwnSend(v, n))
        BY <2>2 DEF Busy, OwnSend
    <2>6. Busy(holder[n], n)' <=> Busy(holder[n], n)
        BY <2>2 DEF Busy
    <2>7. HeldOf(n)'
        BY <2>0, <2>2 DEF HeldOf
    <2>8. TriesOf(n)'
        <3>1. CASE n = m
            BY <2>0, <2>2, <3>1, Numbers DEF TriesOf
        <3>2. CASE n # m
            BY <2>0, <2>2, <2>6, <3>2, Numbers DEF TriesOf
        <3> QED BY <3>1, <3>2
    <2>9. OneAt(n)'
        <3>1. CASE n = m
            BY <2>3, <3>1, Zenon DEF OneAt
        <3>2. CASE n # m
            <4>1. excuse'[n] <=> excuse[n]
                BY <2>3, <3>2
            <4> QED BY <2>0, <2>2, <2>5, <3>2, <4>1 DEF OneAt
        <3> QED BY <3>1, <3>2
    <2> QED BY <2>7, <2>8, <2>9
<1>7. CASE UNCHANGED vars
    BY <1>7 DEF vars, Shape, Fresh, RowInv, HeldOf, TriesOf, OneAt, Busy, OwnSend
<1> QED BY <1>1, <1>2, <1>4, <1>5, <1>6, <1>7

LEMMA OutboxInvariant == Spec => []OutboxInv
<1>1. Init => OutboxInv
    <2> SUFFICES ASSUME Init PROVE OutboxInv
        OBVIOUS
    <2>1. TypeOK
        BY IdleType, OutboxAssumption DEF Init, TypeOK, NoRow, Messages
    <2>2. \A w \in Workers : worker[w] = Idle /\ Fresh(worker[w]) /\ worker[w].phase = "IDLE"
        BY <2>1, FreshStates DEF Init, Idle
    <2>3. \A w \in Workers, n \in Notices : ~Busy(w, n)
        BY <2>2, FreshIsFree
    <2>4. Shape
        BY <2>2 DEF Shape
    <2>5. RowInv
        BY <2>1, <2>3, Numbers DEF Init, RowInv, HeldOf, TriesOf, OneAt, NoRow
    <2> QED BY <2>1, <2>4, <2>5 DEF OutboxInv
<1>2. OutboxInv /\ [Next]_vars => OutboxInv'
    <2> SUFFICES ASSUME OutboxInv, [Next]_vars PROVE OutboxInv'
        OBVIOUS
    <2>1. TypeOK'
        BY TypeStep DEF OutboxInv
    <2>2. ASSUME NEW w \in Workers, Pass(w) PROVE Shape' /\ RowInv'
        BY <2>2, ClaimStep, ReadStep, SendStep, RecordStep DEF Pass
    <2>3. Shape' /\ RowInv'
        BY <2>2, OtherSteps DEF Next
    <2> QED BY <2>1, <2>3 DEF OutboxInv
<1> QED BY <1>1, <1>2, PTL DEF Spec

(* MAX_ATTEMPTS bounds the claims of a message, but for one more with each    *)
(* worker that died, gave up its pass or was slower than its lock.            *)
THEOREM AttemptsStayBounded == Spec => []AttemptsBounded
<1>1. OutboxInv => AttemptsBounded
    BY DEF OutboxInv, RowInv, TriesOf, AttemptsBounded
<1> QED BY <1>1, OutboxInvariant, PTL

(* No recipient gets a message twice unless a hold on it ran out or the       *)
(* answer of a delivery was lost, however many processes kick at once.        *)
THEOREM CopiesAlwaysHaveCause == Spec => []CopiesHaveCause
<1>1. OutboxInv => CopiesHaveCause
    BY Numbers DEF OutboxInv, RowInv, OneAt, CopiesHaveCause
<1> QED BY <1>1, OutboxInvariant, PTL

-----------------------------------------------------------------------------
(* A pass whose limit covers the backlog claims all that can be claimed. *)
LEMMA ClaimsAll ==
    ASSUME IsFiniteSet(Notices), Cardinality(Notices) <= Limit,
           NEW ids \in Batches, NEW n \in Notices, Claimable(n)
    PROVE  n \in ids
<1> DEFINE all == {m \in Notices : Claimable(m)}
<1>1. /\ ids \in SUBSET all
      /\ ids = all \/ Cardinality(ids) = Limit
    BY DEF Batches
<1>2. IsFiniteSet(ids) /\ Cardinality(ids) <= Cardinality(Notices)
      /\ (Cardinality(ids) = Cardinality(Notices) => ids = Notices)
    BY <1>1, FS_Subset
<1>3. Cardinality(ids) \in Nat /\ Cardinality(Notices) \in Nat /\ Limit \in Nat
    BY <1>2, FS_CardinalityType, OutboxAssumption
<1> QED BY <1>1, <1>2, <1>3

(* A process that is about to look for new rows. *)
Looks(w) == w \in kicks \/ worker[w].phase = "CLAIM" \/ worker[w].again

LEMMA LooksOn ==
    ASSUME OutboxInv, KickIsOnItsWay, faults = 0, faults' = faults,
           \A n \in Notices : outbox'[n] = Queued => outbox[n] = Queued,
           \A w \in Workers : Looks(w) => Looks(w)'
    PROVE  KickIsOnItsWay'
<1> QED BY DEF KickIsOnItsWay, Looks

LEMMA KickStep ==
    ASSUME IsFiniteSet(Notices), Cardinality(Notices) <= Limit,
           OutboxInv, KickIsOnItsWay, [Next]_vars
    PROVE  KickIsOnItsWay'
<1> USE DEF OutboxInv
<1>q. /\ Queued.status = "PENDING" /\ Queued.attempts = 0 /\ Queued.due
      /\ Starting.phase = "CLAIM"
    BY DEF Queued, Starting, Idle
<1>1. ASSUME NEW w \in Workers, PassFails(w) \/ Crash(w) PROVE KickIsOnItsWay'
    <2>1. faults' # 0
        BY <1>1, Numbers DEF PassFails, Crash, Fault
    <2> QED BY <2>1 DEF KickIsOnItsWay
<1>2. ASSUME NEW w \in Workers, KickAfterCommit(w) \/ KickByTimer(w) PROVE KickIsOnItsWay'
    <2>1. /\ worker'[w] = Kicked(w) /\ \A v \in Workers \ {w} : worker'[v] = worker[v]
          /\ UNCHANGED <<outbox, faults>> /\ kicks \ {w} \subseteq kicks'
        BY <1>2 DEF KickAfterCommit, KickByTimer, TypeOK
    <2>2. Looks(w)'
        BY <2>1, KickedWorks DEF Looks
    <2>3. \A v \in Workers : Looks(v) => Looks(v)'
        BY <2>1, <2>2 DEF Looks
    <2> QED BY <2>1, <2>3, LooksOn DEF KickIsOnItsWay
<1>3. ASSUME NEW w \in Workers, NEW n \in Notices, Enqueue(w, n) \/ Retry(w, n)
      PROVE  KickIsOnItsWay'
    BY <1>3 DEF Enqueue, Retry, KickIsOnItsWay
<1>4. ASSUME NEW n \in Notices, BecomesDue(n) \/ LockRunsOut(n) PROVE KickIsOnItsWay'
    <2> SUFFICES ASSUME faults' = 0 PROVE KickIsOnItsWay'
        BY DEF KickIsOnItsWay
    <2>1. outbox[n] \in Messages
        BY DEF TypeOK
    <2>2. /\ UNCHANGED <<worker, kicks>> /\ \A m \in Notices \ {n} : outbox'[m] = outbox[m]
          /\ outbox'[n].status = outbox[n].status /\ outbox'[n].attempts = outbox[n].attempts
          /\ (outbox[n].status = "PENDING" /\ ~outbox[n].due) \/ outbox[n].status = "SENDING"
        BY <1>4, <2>1 DEF BecomesDue, LockRunsOut, TypeOK, Messages
    <2>3. outbox'[n] # Queued
        BY <1>q, <2>2 DEF RowInv, TriesOf
    <2>4. faults = 0 /\ faults' = faults
        BY <1>4, Numbers DEF BecomesDue, LockRunsOut, Fault
    <2> QED BY <2>2, <2>3, <2>4, LooksOn DEF Looks
<1>5. ASSUME NEW w \in Workers, NEW ids \in SUBSET Notices, Claim(w, ids) PROVE KickIsOnItsWay'
    <2>1. /\ \A n \in ids : outbox'[n].status = "SENDING"
          /\ \A n \in Notices \ ids : outbox'[n] = outbox[n]
        BY <1>5, ClaimDoes
    <2>2. ASSUME NEW n \in Notices, outbox'[n] = Queued PROVE FALSE
        <3>1. n \notin ids /\ outbox[n] = Queued
            BY <1>q, <2>1, <2>2
        <3>2. outbox[n].status = "PENDING"
            BY <1>q, <3>1
        <3>3. outbox[n].due
            BY <1>q, <3>1, Zenon
        <3>4. Claimable(n)
            BY <3>2, <3>3 DEF Claimable
        <3> QED BY <1>5, <3>1, <3>4, ClaimsAll DEF Claim
    <2> QED BY <2>2 DEF KickIsOnItsWay
<1>6. ASSUME NEW w \in Workers,
             \/ Read(w)
             \/ \E n \in Notices, result \in Results \ {"NONE"}, arrives \in BOOLEAN :
                  Send(w, n, result, arrives)
      PROVE  KickIsOnItsWay'
    <2>1. worker[w] \in Passes
        BY DEF TypeOK
    <2>2. /\ worker[w].phase # "CLAIM" /\ worker'[w].again = worker[w].again
          /\ \A v \in Workers \ {w} : worker'[v] = worker[v]
          /\ UNCHANGED <<outbox, kicks, faults>>
        <3>1. CASE Read(w)
            BY <2>1, <3>1 DEF Read, TypeOK, Passes
        <3>2. ASSUME NEW n \in Notices, NEW result \in Results \ {"NONE"}, NEW arrives \in BOOLEAN,
                     Send(w, n, result, arrives)
              PROVE  /\ worker[w].phase # "CLAIM" /\ worker'[w].again = worker[w].again
                     /\ \A v \in Workers \ {w} : worker'[v] = worker[v]
                     /\ UNCHANGED <<outbox, kicks, faults>>
            BY <2>1, <3>2 DEF Send, TypeOK, Passes
        <3> QED BY <1>6, <3>1, <3>2
    <2>3. \A v \in Workers : Looks(v) => Looks(v)'
        BY <2>2 DEF Looks
    <2> QED BY <2>2, <2>3, LooksOn DEF KickIsOnItsWay
<1>7. ASSUME NEW w \in Workers, Record(w) PROVE KickIsOnItsWay'
    <2> DEFINE n == worker[w].sending
               left == [worker[w].read EXCEPT ![n] = 0]
    <2>1. worker[w] \in Passes
        BY DEF TypeOK
    <2>2. /\ n \in Notices /\ worker[w].phase = "RECORD"
          /\ \A v \in Workers \ {w} : worker'[v] = worker[v]
          /\ \A m \in Notices \ {n} : outbox'[m] = outbox[m]
          /\ outbox'[n] = outbox[n] \/ ~outbox'[n].due
        BY <1>7, RecordDoes
    <2>3. UNCHANGED <<kicks, faults>>
        BY <1>7 DEF Record
    <2>4. worker[w].again => worker'[w].again \/ worker'[w].phase = "CLAIM"
        <3>1. CASE \E m \in Notices : left[m] # 0
            <4>1. worker'[w] = [worker[w] EXCEPT !.phase = "SEND", !.read = left,
                                                 !.sending = NoNotice, !.result = "NONE"]
                BY <1>7, <3>1 DEF Record, TypeOK
            <4> HIDE DEF left
            <4> QED BY <2>1, <4>1 DEF Passes
        <3>2. CASE ~ \E m \in Notices : left[m] # 0
            <4>1. worker'[w] = Ended(w)
                BY <1>7, <3>2 DEF Record, TypeOK
            <4> QED BY <1>q, <4>1 DEF Ended
        <3> QED BY <3>1, <3>2
    <2>5. \A v \in Workers : Looks(v) => Looks(v)'
        BY <2>2, <2>3, <2>4 DEF Looks
    <2>6. \A m \in Notices : outbox'[m] = Queued => outbox[m] = Queued
        <3>1. outbox'[n] = Queued => outbox'[n].due
            BY <1>q, Zenon
        <3> QED BY <2>2, <3>1
    <2> QED BY <2>3, <2>5, <2>6, LooksOn DEF KickIsOnItsWay
<1>8. CASE UNCHANGED vars
    BY <1>8 DEF vars, KickIsOnItsWay
<1>9. ASSUME NEW w \in Workers, Pass(w) PROVE KickIsOnItsWay'
    BY <1>5, <1>6, <1>7, <1>9 DEF Pass
<1> QED BY <1>1, <1>2, <1>3, <1>4, <1>8, <1>9 DEF Next

(* While nothing failed, a new message always has a process about to claim,   *)
(* provided a pass can take the whole backlog: the kick that comes during a   *)
(* pass is not lost.                                                          *)
THEOREM NewMessagesAreServed ==
    ASSUME IsFiniteSet(Notices), Cardinality(Notices) <= Limit
    PROVE  Spec => []KickIsOnItsWay
<1>1. Init => KickIsOnItsWay
    BY DEF Init, KickIsOnItsWay, NoRow, Queued
<1>2. OutboxInv /\ KickIsOnItsWay /\ [Next]_vars => KickIsOnItsWay'
    BY KickStep
<1> QED BY <1>1, <1>2, OutboxInvariant, PTL DEF Spec
=============================================================================
