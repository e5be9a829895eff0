--------------------------- MODULE TrialPurgeProofs ---------------------------
(***************************************************************************)
(* Theorems about TrialPurge, for any number of processes, recipients,     *)
(* attempts and days.                                                      *)
(*                                                                         *)
(* The types and the last check under the row lock carry PaidIsKept.  That *)
(* everybody was told needs CycleInv, which relates what the passes hold   *)
(* to the cycle under way; it is inductive as long as no process ends a    *)
(* cycle under another one (ResetsAlone), which the code leaves open.      *)
(* The dates need less: ReachInv and DatesInv, about the rows and the      *)
(* passes that may still write to them, are inductive without it.          *)
(***************************************************************************)
EXTENDS TrialPurge, FiniteSetTheorems, TLAPS

-----------------------------------------------------------------------------
(* Numbers *)

(* A power of two is the number of subsets of some finite set. *)
LEMMA PowerIsNat == ASSUME NEW n \in Nat PROVE 2 ^ n \in Nat
<1>1. IsFiniteSet(1 .. n) /\ Cardinality(1 .. n) = n
    BY FS_Interval
<1>2. IsFiniteSet(SUBSET (1 .. n)) /\ Cardinality(SUBSET (1 .. n)) = 2 ^ n
    BY <1>1, FS_SUBSET
<1> QED BY <1>2, FS_CardinalityType

(* A finite set of dates has a last one: the dates from it on are the      *)
(* fewest.                                                                 *)
LEMMA LastExists ==
    ASSUME NEW D, IsFiniteSet(D), D # {}, D \subseteq Int
    PROVE  \E d \in D : \A e \in D : e <= d
<1> DEFINE From(d) == {e \in D : d <= e}
           F == {From(d) : d \in D}
<1>1. F \subseteq SUBSET D /\ F # {}
    OBVIOUS
<1>2. IsWellFoundedOn(StrictSubsetOrdering(D), SUBSET D)
    BY FS_StrictSubsetOrderingWellFounded, FS_FiniteSubsetsOfFinite
<1>3. PICK T \in F : \A U \in F : ~ (<<U, T>> \in StrictSubsetOrdering(D))
    <2> HIDE DEF F
    <2> QED BY <1>1, <1>2, WFMin
<1>4. PICK d \in D : T = From(d)
    BY <1>3
<1>5. ASSUME NEW e \in D, d < e PROVE FALSE
    <2>1. e \in Int /\ d \in Int /\ d \in T /\ d \notin From(e)
        BY <1>4, <1>5
    <2>2. ASSUME NEW x \in From(e) PROVE x \in T
        BY <1>4, <1>5
    <2>3. From(e) \in F /\ T \subseteq D
        BY <1>4
    <2> QED BY <1>3, <2>1, <2>2, <2>3 DEF StrictSubsetOrdering
<1> QED BY <1>5

LEMMA LaterIs ==
    ASSUME NEW a \in Int, NEW b \in Int
    PROVE  Later(a, b) \in Int /\ a <= Later(a, b) /\ b <= Later(a, b)
           /\ (a \in Nat \/ b \in Nat => Later(a, b) \in Nat)
<1> QED BY DEF Later

LEMMA NextTryIsNat ==
    ASSUME NEW at \in Nat, NEW n \in Nat \ {0} PROVE NextTry(at, n) \in Nat
<1>1. 2 ^ (n - 1) \in Nat
    BY PowerIsNat
<1>2. RetryDelay \in Nat
    BY TrialAssumption
<1> DEFINE p == 2 ^ (n - 1)
<1>3. ASSUME NEW q \in Nat PROVE at + RetryDelay * q \in Nat
    BY <1>2
<1> QED BY <1>1, <1>3 DEF NextTry

-----------------------------------------------------------------------------
(* Types *)

(* A mail is of an attempt that was claimed, so it is at least the first. *)
Tried == [kind : Kinds, to : Recipients, id : Nat, attempts : Nat \ {0}, names : Dates,
          ok : BOOLEAN]

Passes == [phase : Phases, at : Nat, ends : Nat, final : BOOLEAN,
           todo : SUBSET (Kinds \X Recipients \X Nat), mail : SUBSET Tried,
           kind : Kinds, stamp : Dates]

Tolds == [Kinds -> [Recipients -> Received]]

Tables == [Kinds -> [Recipients -> Notices]]

TrialTypes ==
    /\ now \in Nat
    /\ center \in Centers
    /\ notices \in Tables
    /\ pass \in [Workers -> Passes]
    /\ cycles \in Nat
    /\ told \in Tolds

LEMMA TrialTypesImplyTypeOK == TrialTypes => TypeOK
<1> QED BY DEF TrialTypes, TypeOK, Tables, Tolds, Passes, Tried, Mails

LEMMA NoCycleIs ==
    ASSUME NEW c \in Centers
    PROVE  /\ NoCycle(c) \in Centers
           /\ NoCycle(c).on = Unset /\ NoCycle(c).basis = Unset
           /\ \A k \in Kinds : NoCycle(c)[k] = Unset
           /\ NoCycle(c).status = c.status
<1> QED BY DEF NoCycle, Centers, Dates, Kinds, Unset

LEMMA NoRowIs == NoRow \in Notices /\ NoRow.status = "NONE"
<1> QED BY DEF NoRow, Notices, Dates, Unset

LEMMA RestingIs == Resting \in Passes /\ Resting.phase = "IDLE" /\ Resting.mail = {}
<1> QED BY DEF Resting, Passes, Phases, Kinds, Dates, Unset

LEMMA InitTypes == Init => TrialTypes
<1> SUFFICES ASSUME Init PROVE TrialTypes
    OBVIOUS
<1>1. center \in Centers
    <2>1. PICK e \in Ends : center = NoCycle([status |-> "TRIAL", paid |-> FALSE, ends |-> e,
                               on |-> Unset, basis |-> Unset, FIRST |-> Unset, FINAL |-> Unset])
        BY DEF Init
    <2>2. e \in Nat
        BY TrialAssumption
    <2> QED BY <2>1, <2>2 DEF NoCycle, Centers, Dates, Unset
<1>2. notices \in Tables
    BY NoRowIs DEF Init, Tables
<1>3. pass \in [Workers -> Passes]
    BY RestingIs DEF Init
<1>4. told \in Tolds
    BY DEF Init, Tolds, NoMail, Received, Dates, Unset
<1> QED BY <1>1, <1>2, <1>3, <1>4 DEF Init, TrialTypes

(* Most steps change one pass and nothing else of its process. *)
LEMMA PassType ==
    ASSUME TrialTypes, NEW w \in Workers, NEW p \in Passes
    PROVE  [pass EXCEPT ![w] = p] \in [Workers -> Passes]
<1> QED BY DEF TrialTypes

LEMMA InsertedType ==
    ASSUME TrialTypes, NEW kind \in Kinds, NEW at \in Nat
    PROVE  /\ Inserted(kind, at) \in Tables
           /\ \A r \in Recipients :
                /\ Inserted(kind, at)[kind][r].status # "NONE"
                /\ \/ /\ notices[kind][r].status # "NONE"
                      /\ Inserted(kind, at)[kind][r] = notices[kind][r]
                   \/ /\ Inserted(kind, at)[kind][r].status = "PENDING"
                      /\ Inserted(kind, at)[kind][r].id = cycles
           /\ \A k \in Kinds \ {kind} : Inserted(kind, at)[k] = notices[k]
<1> DEFINE row == [NoRow EXCEPT !.status = "PENDING", !.next = at, !.id = cycles]
<1>1. row \in Notices /\ row.status = "PENDING" /\ row.id = cycles
    BY DEF NoRow, Notices, Dates, Unset, TrialTypes
<1> HIDE DEF row
<1>2. Inserted(kind, at) = [notices EXCEPT ![kind] = [r \in Recipients |->
                              IF @[r].status # "NONE" THEN @[r] ELSE row]]
    BY DEF Inserted, row
<1> QED BY <1>1, <1>2 DEF TrialTypes, Tables

LEMMA OnwardType ==
    ASSUME NEW p \in Passes, NEW row
    PROVE  /\ Onward(p, row) \in Passes
           /\ Onward(p, row).mail = {}
           /\ Onward(p, row).phase \in {"LOOK", "CLAIM"}
           /\ Onward(p, row).at = p.at
<1> QED BY DEF Onward, Passes, Phases

LEMMA NextKindType ==
    ASSUME NEW p \in Passes
    PROVE  /\ NextKind(p) \in Passes
           /\ NextKind(p).mail = p.mail
           /\ NextKind(p).phase \in {"LOOK", "FRESH"}
           /\ NextKind(p).at = p.at
<1> QED BY DEF NextKind, Passes, Phases, Kinds, Dates, Unset

LEMMA AcceptedAtType ==
    ASSUME TrialTypes, NEW kind \in Kinds PROVE AcceptedAt(kind) \in Dates
<1> DEFINE D == {notices[kind][r].accepted : r \in Recipients}
           f == [r \in Recipients |-> notices[kind][r].accepted]
<1>1. IsFiniteSet(D)
    <2>1. f \in Surjection(Recipients, D)
        BY DEF Surjection
    <2> HIDE DEF D, f
    <2> QED BY <2>1, TrialAssumption, FS_Surjection
<1>2. D # {} /\ D \subseteq Dates
    BY TrialAssumption DEF TrialTypes, Tables, Notices
<1>3. D \subseteq Int
    BY <1>2 DEF Dates, Unset
<1> HIDE DEF D
<1>4. \E d \in D : \A e \in D : e <= d
    BY <1>1, <1>2, <1>3, LastExists
<1>5. (CHOOSE d \in D : \A e \in D : e <= d) \in D
    BY <1>4, Zenon
<1> QED BY <1>2, <1>5 DEF AcceptedAt, D

(* A step gives a pass of its process a new state of the right type. *)
LEMMA ScanTypes ==
    ASSUME TrialTypes, NEW w \in Workers, Scan(w) PROVE TrialTypes'
<1> DEFINE p == [Resting EXCEPT !.at = now, !.ends = center.ends,
                    !.phase = IF Extended THEN "RESET"
                              ELSE IF center.on = Unset THEN "BEGIN" ELSE "DUE"]
<1>1. center.ends \in Nat
    BY DEF TrialTypes, Centers, Dates, Scan, Candidate
<1>2. p \in Passes
    BY <1>1 DEF TrialTypes, Resting, Passes, Phases, Kinds, Dates, Unset
<1> HIDE DEF p
<1>3. pass' = [pass EXCEPT ![w] = p]
    BY DEF Scan, p
<1> QED BY <1>2, <1>3 DEF TrialTypes, Scan

LEMMA ResetTypes ==
    ASSUME TrialTypes, NEW w \in Workers, Reset(w) PROVE TrialTypes'
<1>1. center' \in Centers
    BY NoCycleIs DEF TrialTypes, Reset
<1>2. notices' \in Tables
    BY NoRowIs DEF Reset, Tables
<1>3. pass' \in [Workers -> Passes]
    BY RestingIs DEF TrialTypes, Reset
<1> QED BY <1>1, <1>2, <1>3 DEF TrialTypes, Reset

LEMMA PurgeDateIs ==
    ASSUME TrialTypes, NEW w \in Workers PROVE PurgeDate(w) \in Nat
<1>1. pass[w].ends + PurgeAfter \in Nat /\ pass[w].at + Lead \in Nat
    BY TrialAssumption DEF TrialTypes, Passes
<1> QED BY <1>1 DEF PurgeDate, Later

LEMMA BeginTypes ==
    ASSUME TrialTypes, NEW w \in Workers, Begin(w) PROVE TrialTypes'
<1>1. pass[w] \in Passes
    BY DEF TrialTypes
<1>2. pass' \in [Workers -> Passes]
    BY <1>1 DEF TrialTypes, Begin, Passes, Phases
<1>3. center' \in Centers
    <2>1. [NoCycle(center) EXCEPT !.on = PurgeDate(w), !.basis = pass[w].ends] \in Centers
        BY <1>1, NoCycleIs, PurgeDateIs DEF TrialTypes, Centers, Dates, Passes
    <2> QED BY <2>1 DEF Begin, TrialTypes
<1>4. notices' \in Tables
    <2>1. pass[w].at \in Nat /\ "FIRST" \in Kinds
        BY <1>1 DEF Passes, Kinds
    <2> QED BY <2>1, InsertedType DEF Begin, TrialTypes
<1> QED BY <1>2, <1>3, <1>4 DEF TrialTypes, Begin

LEMMA DueTypes ==
    ASSUME TrialTypes, NEW w \in Workers, Due(w) PROVE TrialTypes'
<1> DEFINE due == {k \in Kinds \X Recipients : DueFor(notices[k[1]][k[2]], pass[w].at)}
           todo == {<<k[1], k[2], notices[k[1]][k[2]].id>> : k \in due}
           p == [pass[w] EXCEPT !.phase = IF todo = {} THEN "LOOK" ELSE "CLAIM",
                                !.todo = todo, !.kind = "FIRST"]
<1>1. \A k \in due : notices[k[1]][k[2]].id \in Nat
    BY DEF TrialTypes, Tables, Notices
<1>2. todo \in SUBSET (Kinds \X Recipients \X Nat)
    BY <1>1
<1>3. pass' = [pass EXCEPT ![w] = p]
    BY DEF Due, TrialTypes
<1> HIDE DEF todo
<1>4. p \in Passes
    BY <1>2 DEF TrialTypes, Passes, Phases, Kinds
<1> HIDE DEF p
<1>5. pass' \in [Workers -> Passes]
    BY <1>3, <1>4, PassType
<1>6. UNCHANGED <<now, center, notices, cycles, told>>
    BY DEF Due
<1> QED BY <1>5, <1>6 DEF TrialTypes

(* What a claim, and a mail, are of. *)
LEMMA RowOf ==
    ASSUME TrialTypes, NEW w \in Workers, NEW row \in pass[w].todo
    PROVE  /\ row[1] \in Kinds /\ row[2] \in Recipients /\ row[3] \in Nat
           /\ notices[row[1]][row[2]] \in Notices
<1>1. row \in Kinds \X Recipients \X Nat
    BY DEF TrialTypes, Passes
<1>2. row[1] \in Kinds /\ row[2] \in Recipients /\ row[3] \in Nat
    BY <1>1
<1> QED BY <1>2 DEF TrialTypes, Tables

LEMMA MailOf ==
    ASSUME TrialTypes, NEW w \in Workers, NEW m \in pass[w].mail
    PROVE  /\ m \in Tried /\ notices[m.kind][m.to] \in Notices
           /\ pass[w] \in Passes
<1>1. m \in Tried /\ pass[w] \in Passes
    BY DEF TrialTypes, Passes
<1> QED BY <1>1 DEF TrialTypes, Tables, Tried

LEMMA ClaimedType ==
    ASSUME NEW n \in Notices, NEW at \in Nat
    PROVE  [n EXCEPT !.status = "SENDING", !.attempts = @ + 1, !.locked = at] \in Notices
<1>1. n.attempts + 1 \in Nat /\ at \in Dates
    BY DEF Notices, Dates
<1> DEFINE more == n.attempts + 1
<1>2. more \in Nat
    BY <1>1
<1> HIDE DEF more
<1>3. [n EXCEPT !.status = "SENDING", !.attempts = more, !.locked = at] \in Notices
    BY <1>1, <1>2 DEF Notices
<1> QED BY <1>3 DEF more

(* One row of one kind. *)
LEMMA RowType ==
    ASSUME TrialTypes, NEW kind \in Kinds, NEW r \in Recipients, NEW n \in Notices
    PROVE  /\ [notices EXCEPT ![kind][r] = n] \in Tables
           /\ \A k \in Kinds, q \in Recipients :
                [notices EXCEPT ![kind][r] = n][k][q] =
                  IF k = kind /\ q = r THEN n ELSE notices[k][q]
<1> QED BY DEF TrialTypes, Tables

LEMMA ClaimTypes ==
    ASSUME TrialTypes, NEW w \in Workers, Claim(w) PROVE TrialTypes'
<1> DEFINE n(row) == notices[row[1]][row[2]]
           taken(row) == [n(row) EXCEPT !.status = "SENDING", !.attempts = @ + 1,
                                        !.locked = pass[w].at + Lock]
           mail(row) == [kind |-> row[1], to |-> row[2], id |-> n(row).id,
                         attempts |-> n(row).attempts + 1, names |-> Unset, ok |-> FALSE]
<1>1. PICK row \in pass[w].todo :
        \/ /\ notices' = [notices EXCEPT ![row[1]][row[2]] = taken(row)]
           /\ pass' = [pass EXCEPT ![w].phase = "NAME", ![w].mail = {mail(row)}]
        \/ pass' = [pass EXCEPT ![w] = Onward(@, row)] /\ UNCHANGED notices
    BY DEF Claim
<1>2. row[1] \in Kinds /\ row[2] \in Recipients /\ n(row) \in Notices /\ pass[w] \in Passes
    BY RowOf DEF TrialTypes
<1>3. UNCHANGED <<now, center, cycles, told>>
    BY DEF Claim
<1>4. pass[w].at + Lock \in Nat
    BY <1>2, TrialAssumption DEF Passes
<1>5. taken(row) \in Notices
    BY <1>2, <1>4, ClaimedType
<1>6. mail(row) \in Tried
    BY <1>2 DEF Notices, Tried, Dates
<1> HIDE DEF taken, mail
<1>7. CASE /\ notices' = [notices EXCEPT ![row[1]][row[2]] = taken(row)]
           /\ pass' = [pass EXCEPT ![w].phase = "NAME", ![w].mail = {mail(row)}]
    <2>1. notices' \in Tables
        BY <1>2, <1>5, <1>7, RowType
    <2>2. pass' \in [Workers -> Passes]
        BY <1>2, <1>6, <1>7 DEF TrialTypes, Passes, Phases
    <2> QED BY <1>3, <2>1, <2>2 DEF TrialTypes
<1>8. CASE pass' = [pass EXCEPT ![w] = Onward(@, row)] /\ UNCHANGED notices
    BY <1>2, <1>3, <1>8, OnwardType DEF TrialTypes
<1> QED BY <1>1, <1>7, <1>8

LEMMA NamedDateIs ==
    ASSUME TrialTypes, NEW w \in Workers, NEW kind \in Kinds
    PROVE  /\ NamedDate(w, kind) \in Dates
           /\ center.on <= NamedDate(w, kind)
           /\ kind = "FINAL" => /\ NamedDate(w, kind) # Unset
                                /\ pass[w].at + LastLead <= NamedDate(w, kind)
<1>1. center.on \in Int /\ center.on \in Dates /\ pass[w].at + LastLead \in Nat
    BY TrialAssumption DEF TrialTypes, Centers, Dates, Unset, Passes
<1> QED BY <1>1 DEF NamedDate, Later, Dates, Unset

LEMMA NameTypes ==
    ASSUME TrialTypes, NEW w \in Workers, Name(w) PROVE TrialTypes'
<1>1. PICK m \in pass[w].mail :
        /\ center' = [center EXCEPT !.on = NamedDate(w, m.kind)]
        /\ pass' = [pass EXCEPT ![w] =
                      IF NamedDate(w, m.kind) = Unset THEN Onward(@, <<m.kind, m.to, m.id>>)
                      ELSE [@ EXCEPT !.phase = "SEND",
                                     !.mail = {[m EXCEPT !.names = NamedDate(w, m.kind)]}]]
    BY DEF Name
<1>2. m \in Tried /\ pass[w] \in Passes
    BY MailOf
<1>3. NamedDate(w, m.kind) \in Dates
    BY <1>2, NamedDateIs DEF Tried
<1>4. center' \in Centers
    BY <1>1, <1>3 DEF TrialTypes, Centers
<1>5. [m EXCEPT !.names = NamedDate(w, m.kind)] \in Tried
    BY <1>2, <1>3 DEF Tried
<1>6. pass' \in [Workers -> Passes]
    BY <1>1, <1>2, <1>5, OnwardType DEF TrialTypes, Passes, Phases
<1> QED BY <1>4, <1>6 DEF TrialTypes, Name

LEMMA SendTypes ==
    ASSUME TrialTypes, NEW w \in Workers, NEW ok \in BOOLEAN, NEW arrives \in BOOLEAN,
           Send(w, ok, arrives)
    PROVE  TrialTypes'
<1>1. PICK m \in pass[w].mail :
        /\ pass' = [pass EXCEPT ![w].phase = "RECORD", ![w].mail = {[m EXCEPT !.ok = ok]}]
        /\ told' = IF arrives
                   THEN [told EXCEPT ![m.kind][m.to] =
                           [at |-> now, began |-> pass[w].at, on |-> m.names, id |-> m.id]]
                   ELSE told
    BY DEF Send
<1>2. m \in Tried /\ pass[w] \in Passes
    BY MailOf
<1>3. pass' \in [Workers -> Passes]
    <2>1. [m EXCEPT !.ok = ok] \in Tried
        BY <1>2 DEF Tried
    <2>2. [pass[w] EXCEPT !.phase = "RECORD", !.mail = {[m EXCEPT !.ok = ok]}] \in Passes
        BY <1>2, <2>1 DEF Passes, Phases
    <2> QED BY <1>1, <2>2 DEF TrialTypes
<1>4. told' \in Tolds
    BY <1>1, <1>2 DEF TrialTypes, Tolds, Received, Tried, Passes
<1> QED BY <1>3, <1>4 DEF TrialTypes, Send

LEMMA RecordTypes ==
    ASSUME TrialTypes, NEW w \in Workers, Record(w) PROVE TrialTypes'
<1> DEFINE n(m) == notices[m.kind][m.to]
           result(m) ==
             IF m.ok
             THEN [n(m) EXCEPT !.status = "ACCEPTED", !.accepted = pass[w].at, !.locked = Unset]
             ELSE [n(m) EXCEPT !.status = IF m.attempts >= MaxAttempts THEN "FAILED"
                                          ELSE "PENDING",
                               !.locked = Unset,
                               !.next = NextTry(pass[w].at, m.attempts)]
<1>1. PICK m \in pass[w].mail :
        /\ notices' = IF n(m).status # "NONE" /\ n(m).id = m.id
                      THEN [notices EXCEPT ![m.kind][m.to] = result(m)] ELSE notices
        /\ pass' = [pass EXCEPT ![w] = Onward(@, <<m.kind, m.to, m.id>>)]
    BY DEF Record
<1>2. m \in Tried /\ pass[w] \in Passes /\ n(m) \in Notices
    BY MailOf
<1>3. pass' \in [Workers -> Passes]
    BY <1>1, <1>2, OnwardType DEF TrialTypes
<1>4. NextTry(pass[w].at, m.attempts) \in Nat /\ pass[w].at \in Nat
    BY <1>2, NextTryIsNat DEF Passes, Tried
<1>5. result(m) \in Notices
    BY <1>2, <1>4 DEF Notices, Dates
<1>6. notices' \in Tables
    <2> HIDE DEF result
    <2> QED BY <1>1, <1>2, <1>5, RowType DEF TrialTypes, Tried
<1>7. UNCHANGED <<now, center, cycles, told>>
    BY DEF Record
<1> QED BY <1>3, <1>6, <1>7 DEF TrialTypes

LEMMA MarkingTypes ==
    ASSUME TrialTypes, NEW w \in Workers, Look(w) \/ Stamp(w) \/ Mark(w)
    PROVE  TrialTypes'
<1>1. pass[w] \in Passes
    BY DEF TrialTypes
<1>2. CASE Look(w)
    BY <1>1, <1>2, NextKindType DEF TrialTypes, Look, Passes, Phases
<1>3. CASE Stamp(w)
    <2>1. pass[w].kind \in Kinds
        BY <1>1 DEF Passes
    <2>2. AcceptedAt(pass[w].kind) \in Dates
        BY <2>1, AcceptedAtType
    <2>3. pass' \in [Workers -> Passes]
        BY <1>1, <1>3, <2>2 DEF TrialTypes, Stamp, Passes, Phases, Dates
    <2> QED BY <1>3, <2>3 DEF TrialTypes, Stamp
<1>4. CASE Mark(w)
    <2>1. pass' \in [Workers -> Passes]
        BY <1>1, <1>4, NextKindType DEF TrialTypes, Mark
    <2>2. center' \in Centers
        BY <1>1, <1>4 DEF TrialTypes, Mark, Centers, Passes, Kinds
    <2> QED BY <1>4, <2>1, <2>2 DEF TrialTypes, Mark
<1> QED BY <1>2, <1>3, <1>4

LEMMA DecidingTypes ==
    ASSUME TrialTypes, NEW w \in Workers, Fresh(w) \/ Last(w) \/ DeleteIfStillDue(w)
    PROVE  TrialTypes'
<1>1. pass[w] \in Passes
    BY DEF TrialTypes
<1>2. CASE Fresh(w)
    <2>1. AfterDelivery(w) \in Phases
        BY DEF AfterDelivery, Phases
    <2>2. pass' \in [Workers -> Passes]
        BY <1>1, <1>2, <2>1, RestingIs DEF TrialTypes, Fresh, Passes
    <2> QED BY <1>2, <2>2 DEF TrialTypes, Fresh
<1>3. CASE Last(w)
    <2>1. pass[w].at \in Nat /\ "FINAL" \in Kinds
        BY <1>1 DEF Passes, Kinds
    <2>2. notices' \in Tables
        BY <1>3, <2>1, InsertedType DEF Last
    <2>3. pass' \in [Workers -> Passes]
        BY <1>1, <1>3 DEF TrialTypes, Last, Passes, Phases
    <2> QED BY <1>3, <2>2, <2>3 DEF TrialTypes, Last
<1>4. CASE DeleteIfStillDue(w)
    <2>1. center' \in Centers
        BY <1>4 DEF TrialTypes, DeleteIfStillDue, Centers
    <2>2. pass' \in [Workers -> Passes]
        BY <1>4, RestingIs DEF TrialTypes, DeleteIfStillDue
    <2> QED BY <1>4, <2>1, <2>2 DEF TrialTypes, DeleteIfStillDue
<1> QED BY <1>2, <1>3, <1>4

LEMMA OutsideTypes ==
    ASSUME TrialTypes,
           \/ \E e \in Ends \cup {Unset} : Extend(e)
           \/ \E status \in AdminStatuses : SetStatus(status)
           \/ Pay
           \/ Tick
           \/ \E w \in Workers : PassFails(w)
    PROVE  TrialTypes'
<1>1. ASSUME NEW e \in Ends \cup {Unset}, Extend(e) PROVE TrialTypes'
    <2>1. e \in Dates
        BY TrialAssumption DEF Dates
    <2> QED BY <1>1, <2>1 DEF TrialTypes, Extend, Centers
<1>2. ASSUME NEW status \in AdminStatuses, SetStatus(status) PROVE TrialTypes'
    <2>1. status \in {"TRIAL", "ACTIVE"}
        BY TrialAssumption
    <2> QED BY <1>2, <2>1 DEF TrialTypes, SetStatus, Centers
<1>3. CASE Pay
    BY <1>3 DEF TrialTypes, Pay, Centers
<1>4. CASE Tick
    BY <1>4 DEF TrialTypes, Tick
<1>5. ASSUME NEW w \in Workers, PassFails(w) PROVE TrialTypes'
    BY <1>5, RestingIs DEF TrialTypes, PassFails
<1> QED BY <1>1, <1>2, <1>3, <1>4, <1>5

LEMMA StepTypes == TrialTypes /\ [Next]_vars => TrialTypes'
<1> SUFFICES ASSUME TrialTypes, [Next]_vars PROVE TrialTypes'
    OBVIOUS
<1>1. ASSUME NEW w \in Workers, Work(w) PROVE TrialTypes'
    <2>1. ASSUME NEW ok \in BOOLEAN, NEW arrives \in BOOLEAN, Send(w, ok, arrives)
          PROVE  TrialTypes'
        BY <2>1, SendTypes
    <2> QED BY <1>1, <2>1, ScanTypes, ResetTypes, BeginTypes, DueTypes, ClaimTypes, NameTypes,
               RecordTypes, MarkingTypes, DecidingTypes DEF Work
<1>2. CASE UNCHANGED vars
    BY <1>2 DEF vars, TrialTypes
<1> QED BY <1>1, <1>2, OutsideTypes DEF Next

(* Every variable keeps its type - the time of the next try, too: however   *)
(* often a mail is tried, the delay is doubled and never less than nothing. *)
THEOREM TrialTypeCorrect == Spec => []TypeOK
<1>1. Spec => []TrialTypes
    BY InitTypes, StepTypes, PTL DEF Spec
<1> QED BY <1>1, TrialTypesImplyTypeOK, PTL

-----------------------------------------------------------------------------
(* Who deletes *)

LEMMA DeletedIsDue ==
    ASSUME TrialTypes, [Next]_vars, Deleted
    PROVE  \E w \in Workers : DeleteIfStillDue(w) /\ StillDue(pass[w].at)
<1>0. center.status # "DELETED" /\ center'.status = "DELETED" /\ center \in Centers
    BY DEF Deleted, Exists, TrialTypes
<1>1. CASE UNCHANGED vars
    BY <1>0, <1>1 DEF vars
<1>2. ASSUME NEW w \in Workers, Reset(w) PROVE FALSE
    BY <1>0, <1>2, NoCycleIs DEF Reset
<1>3. ASSUME NEW w \in Workers, Begin(w) PROVE FALSE
    BY <1>0, <1>3, NoCycleIs DEF Begin, Centers
<1>4. ASSUME NEW w \in Workers, Name(w) \/ Mark(w) PROVE FALSE
    <2>1. CASE Name(w)
        BY <1>0, <2>1 DEF Name, Centers
    <2>2. CASE Mark(w)
        <3>1. pass[w].kind \in {"FIRST", "FINAL"}
            BY DEF TrialTypes, Passes, Kinds
        <3> QED BY <1>0, <2>2, <3>1 DEF Mark, Centers
    <2> QED BY <1>4, <2>1, <2>2
<1>5. ASSUME NEW w \in Workers, DeleteIfStillDue(w)
      PROVE  StillDue(pass[w].at)
    BY <1>0, <1>5 DEF DeleteIfStillDue
<1>6. ASSUME NEW w \in Workers,
             \/ Scan(w) \/ Due(w) \/ Claim(w) \/ Record(w) \/ Look(w) \/ Stamp(w)
             \/ Fresh(w) \/ Last(w) \/ PassFails(w)
             \/ \E ok, arrives \in BOOLEAN : Send(w, ok, arrives)
      PROVE  FALSE
    BY <1>0, <1>6 DEF Scan, Due, Claim, Record, Look, Stamp, Fresh, Last, PassFails, Send
<1>7. ASSUME \/ \E e \in Ends \cup {Unset} : Extend(e)
             \/ \E status \in AdminStatuses : SetStatus(status)
             \/ Pay
             \/ Tick
      PROVE  FALSE
    <2>1. "DELETED" \notin AdminStatuses
        BY TrialAssumption
    <2> QED BY <1>0, <1>7, <2>1 DEF Extend, SetStatus, Pay, Tick, Centers
<1> QED BY <1>1, <1>2, <1>3, <1>4, <1>5, <1>6, <1>7 DEF Next, Work

(* A center that paid, or that the admin took off its trial, is not        *)
(* deleted: a step that deletes is deleteIfStillDue's, and its check under *)
(* the row lock is of the row as it is, not of what the pass read.         *)
THEOREM OnlyUnpaidTrialsGo == Spec => PaidIsKept
<1>1. ASSUME TrialTypes, [Next]_vars
      PROVE  [Deleted => ~center.paid /\ center.status = "TRIAL"]_vars
    BY <1>1, DeletedIsDue DEF StillDue
<1>2. Spec => []TrialTypes
    BY InitTypes, StepTypes, PTL DEF Spec
<1> QED BY <1>1, <1>2, PTL DEF Spec, PaidIsKept

-----------------------------------------------------------------------------
(* Told before deleted *)

AtWork(w) == pass[w].phase \notin {"IDLE", "RESET"}

(* What the code does not see to: resetCycle asks nothing, so a process may *)
(* end a cycle while another is in the middle of its notices.               *)
ResetsAlone == \A w \in Workers : Reset(w) => \A v \in Workers \ {w} : ~AtWork(v)

(* The last mail of a kind that a recipient had is one of this cycle. *)
Had(kind, r) == told[kind][r].on # Unset /\ told[kind][r].id = cycles

(* Without a date there is no cycle: no notice and no mark. *)
NoDateNoCycle ==
    center.on = Unset =>
      /\ \A k \in Kinds : center[k] = Unset
      /\ \A k \in Kinds, r \in Recipients : notices[k][r].status = "NONE"

(* The notices of a kind are of this cycle and are there for all or none of *)
(* the recipients; one that was accepted was had.                           *)
NoticesOfCycle ==
    \A k \in Kinds, r \in Recipients :
      LET n == notices[k][r] IN
      /\ n.status # "NONE" =>
           n.id = cycles /\ \A q \in Recipients : notices[k][q].status # "NONE"
      /\ n.status = "ACCEPTED" => Had(k, r)

(* A kind that is marked as told is one that everybody had. *)
MarksOfCycle == \A k \in Kinds : center[k] # Unset => \A r \in Recipients : Had(k, r)

(* What a last notice of this cycle told is a week after the start of its   *)
(* pass and not after the purge date, for that only moves on; nobody was    *)
(* told of a cycle to come.                                                 *)
ToldOfCycle ==
    /\ \A k \in Kinds, r \in Recipients : told[k][r].id <= cycles
    /\ \A r \in Recipients :
         LET last == told["FINAL"][r] IN
         Had("FINAL", r) => last.began + LastLead <= last.on /\ last.on <= center.on

RowsOfCycle == NoDateNoCycle /\ NoticesOfCycle /\ MarksOfCycle /\ ToldOfCycle

(* A mail under way is of this cycle.  The date a last notice names is a    *)
(* week off and not after the purge date; one that the provider took was    *)
(* had.                                                                     *)
MailOfCycle(p, m) ==
    /\ p.phase \in {"NAME", "SEND", "RECORD"}
    /\ m.id = cycles
    /\ p.phase # "NAME" =>
         /\ m.names # Unset /\ m.names <= center.on
         /\ m.kind = "FINAL" => p.at + LastLead <= m.names
    /\ p.phase = "RECORD" /\ m.ok => Had(m.kind, m.to)

(* A pass at work is in a cycle or about to begin one, and marks what       *)
(* everybody had.                                                           *)
PassOfCycle(p) ==
    /\ p.at <= now
    /\ center.on = Unset => p.phase \in {"IDLE", "RESET", "BEGIN"}
    /\ p.phase \in {"STAMP", "MARK"} => \A r \in Recipients : Had(p.kind, r)
    /\ \A m \in p.mail : MailOfCycle(p, m)

PassesOfCycle == \A w \in Workers : PassOfCycle(pass[w])

CycleInv == RowsOfCycle /\ PassesOfCycle

LEMMA InitCycle == Init /\ TrialTypes => CycleInv
<1> SUFFICES ASSUME Init, TrialTypes PROVE CycleInv
    OBVIOUS
<1>1. center.on = Unset /\ \A k \in Kinds : center[k] = Unset
    <2>1. PICK e \in Ends : center = NoCycle([status |-> "TRIAL", paid |-> FALSE, ends |-> e,
                               on |-> Unset, basis |-> Unset, FIRST |-> Unset, FINAL |-> Unset])
        BY DEF Init
    <2> QED BY <2>1 DEF NoCycle, Kinds
<1>2. \A k \in Kinds, r \in Recipients :
        /\ notices[k][r].status = "NONE"
        /\ told[k][r].on = Unset /\ told[k][r].id = cycles
    BY DEF Init, NoRow, NoMail
<1>3. RowsOfCycle
    BY <1>1, <1>2 DEF Init, RowsOfCycle, NoDateNoCycle, NoticesOfCycle, MarksOfCycle, ToldOfCycle,
                      Had, Kinds
<1>4. PassesOfCycle
    BY DEF Init, PassesOfCycle, PassOfCycle, Resting
<1> QED BY <1>3, <1>4 DEF CycleInv

-----------------------------------------------------------------------------
(* What a step within a cycle keeps *)

InCycle ==
    /\ cycles' = cycles
    /\ now <= now'
    /\ center.on <= center'.on
    /\ \A k \in Kinds, r \in Recipients : Had(k, r) => Had(k, r)'

LEMMA SameIsInCycle ==
    ASSUME TrialTypes, UNCHANGED <<now, cycles, told>>, center'.on = center.on
    PROVE  InCycle
<1>1. center.on \in Int /\ now \in Int
    BY DEF TrialTypes, Centers, Dates, Unset
<1> QED BY <1>1 DEF InCycle, Had

LEMMA PassKept ==
    ASSUME TrialTypes, TrialTypes', InCycle, NEW p \in Passes, PassOfCycle(p)
    PROVE  PassOfCycle(p)'
<1>1. center.on \in Dates /\ center'.on \in Dates /\ p.at \in Nat /\ now \in Nat /\ now' \in Nat
    BY DEF TrialTypes, Centers, Passes
<1>2. (p.at <= now)' /\ (center'.on = Unset => center.on = Unset)
    BY <1>1 DEF InCycle, PassOfCycle, Dates, Unset
<1>3. ASSUME NEW m \in p.mail PROVE MailOfCycle(p, m)'
    <2>1. m \in Tried /\ m.names \in Dates /\ m.kind \in Kinds /\ m.to \in Recipients
        BY DEF Passes, Tried
    <2>2. MailOfCycle(p, m)
        BY DEF PassOfCycle
    <2>3. m.names <= center.on => m.names <= center'.on
        BY <1>1, <2>1 DEF InCycle, Dates, Unset
    <2> QED BY <2>1, <2>2, <2>3 DEF MailOfCycle, InCycle
<1>4. p.kind \in Kinds
    BY DEF Passes
<1> QED BY <1>2, <1>3, <1>4 DEF PassOfCycle, InCycle

(* One pass moves on, the others wait. *)
LEMMA PassesKept ==
    ASSUME TrialTypes, TrialTypes', InCycle, PassesOfCycle,
           NEW w \in Workers, NEW p \in Passes, pass' = [pass EXCEPT ![w] = p],
           PassOfCycle(p)'
    PROVE  PassesOfCycle'
<1> SUFFICES ASSUME NEW v \in Workers PROVE PassOfCycle(pass[v])'
    BY DEF PassesOfCycle
<1>1. CASE v = w
    <2>1. pass'[v] = p
        BY <1>1 DEF TrialTypes
    <2> QED BY <2>1 DEF PassOfCycle, MailOfCycle, Had
<1>2. CASE v # w
    <2>1. pass'[v] = pass[v] /\ pass[v] \in Passes
        BY <1>2 DEF TrialTypes
    <2>2. PassOfCycle(pass[v])
        BY DEF PassesOfCycle
    <2>3. \A x \in Passes : PassOfCycle(x) => PassOfCycle(x)'
        BY PassKept
    <2> QED BY <2>1, <2>2, <2>3 DEF PassOfCycle, MailOfCycle, Had
<1> QED BY <1>1, <1>2

LEMMA AllPassesKept ==
    ASSUME TrialTypes, TrialTypes', InCycle, PassesOfCycle, UNCHANGED pass
    PROVE  PassesOfCycle'
<1> SUFFICES ASSUME NEW v \in Workers PROVE PassOfCycle(pass[v])'
    BY DEF PassesOfCycle
<1>1. pass'[v] = pass[v] /\ pass[v] \in Passes /\ PassOfCycle(pass[v])
    BY DEF TrialTypes, PassesOfCycle
<1>2. \A x \in Passes : PassOfCycle(x) => PassOfCycle(x)'
    BY PassKept
<1> QED BY <1>1, <1>2 DEF PassOfCycle, MailOfCycle, Had

LEMMA RowsKept ==
    ASSUME RowsOfCycle, UNCHANGED <<notices, cycles, told>>, center'.on = center.on,
           \A k \in Kinds : center'[k] = center[k]
    PROVE  RowsOfCycle'
<1> QED BY DEF RowsOfCycle, NoDateNoCycle, NoticesOfCycle, MarksOfCycle, ToldOfCycle, Had

(* What the invariant says of a pass, by its phase. *)
LEMMA PassNow ==
    ASSUME TrialTypes, CycleInv, NEW w \in Workers
    PROVE  /\ pass[w] \in Passes /\ PassOfCycle(pass[w])
           /\ pass[w].phase \notin {"NAME", "SEND", "RECORD"} => pass[w].mail = {}
           /\ pass[w].phase \notin {"IDLE", "RESET", "BEGIN"} =>
                center.on # Unset /\ center.on \in Nat
           /\ pass[w].at <= now /\ pass[w].at \in Nat
<1>1. pass[w] \in Passes /\ PassOfCycle(pass[w])
    BY DEF TrialTypes, CycleInv, PassesOfCycle
<1>2. center.on \in Dates
    BY DEF TrialTypes, Centers
<1> QED BY <1>1, <1>2 DEF PassOfCycle, MailOfCycle, Dates, Passes

(* Most steps change nothing but what one pass is at. *)
LEMMA QuietPass ==
    ASSUME TrialTypes, TrialTypes', CycleInv, UNCHANGED <<now, center, notices, cycles, told>>,
           NEW w \in Workers, NEW p \in Passes, pass' = [pass EXCEPT ![w] = p],
           PassOfCycle(p)
    PROVE  CycleInv'
<1>1. InCycle
    BY SameIsInCycle
<1>2. PassOfCycle(p)'
    BY <1>1, PassKept
<1>3. PassesOfCycle'
    BY <1>1, <1>2, PassesKept DEF CycleInv
<1>4. RowsOfCycle'
    BY RowsKept DEF CycleInv
<1> QED BY <1>3, <1>4 DEF CycleInv

(* A pass that rests, or has no mail and nothing to mark, asks for a cycle only. *)
LEMMA LightPass ==
    ASSUME NEW p \in Passes, p.mail = {}, p.at <= now, p.phase \notin {"STAMP", "MARK"},
           center.on = Unset => p.phase \in {"IDLE", "RESET", "BEGIN"}
    PROVE  PassOfCycle(p)
<1> QED BY DEF PassOfCycle

-----------------------------------------------------------------------------
(* The steps *)

LEMMA ScanKeeps ==
    ASSUME TrialTypes, TrialTypes', CycleInv, NEW w \in Workers, Scan(w) PROVE CycleInv'
<1> DEFINE p == [Resting EXCEPT !.at = now, !.ends = center.ends,
                    !.phase = IF Extended THEN "RESET"
                              ELSE IF center.on = Unset THEN "BEGIN" ELSE "DUE"]
<1>1. pass' = [pass EXCEPT ![w] = p] /\ UNCHANGED <<now, center, notices, cycles, told>>
    BY DEF Scan
<1>2. p \in Passes
    <2>1. pass'[w] = p
        BY <1>1 DEF TrialTypes
    <2>2. pass'[w] \in Passes
        BY DEF TrialTypes
    <2> QED BY <2>1, <2>2
<1>3. p.at = now /\ p.mail = {} /\ p.phase \in {"RESET", "BEGIN", "DUE"}
      /\ (p.phase = "DUE" => center.on # Unset)
    BY DEF Resting
<1>4. now \in Nat
    BY DEF TrialTypes
<1> HIDE DEF p
<1>5. PassOfCycle(p)
    BY <1>2, <1>3, <1>4, LightPass
<1> QED BY <1>1, <1>2, <1>5, QuietPass

LEMMA RestsKeeps ==
    ASSUME TrialTypes, TrialTypes', CycleInv, NEW w \in Workers,
           UNCHANGED <<now, center, notices, cycles, told>>,
           pass' = [pass EXCEPT ![w] = Resting]
    PROVE  CycleInv'
<1>1. now \in Nat
    BY DEF TrialTypes
<1>2. PassOfCycle(Resting)
    BY <1>1 DEF PassOfCycle, Resting
<1> QED BY <1>2, RestingIs, QuietPass

(* A new cycle is another one: what was told, and who was told, are not of it. *)
LEMMA ResetKeeps ==
    ASSUME TrialTypes, TrialTypes', CycleInv, ResetsAlone, NEW w \in Workers, Reset(w)
    PROVE  CycleInv'
<1>1. center'.on = Unset /\ \A k \in Kinds : center'[k] = Unset
    BY NoCycleIs DEF Reset, TrialTypes
<1>2. \A k \in Kinds, r \in Recipients : notices'[k][r].status = "NONE"
    BY NoRowIs DEF Reset
<1>3. \A k \in Kinds, r \in Recipients : told'[k][r].id < cycles' /\ told'[k][r].id <= cycles'
    <2>1. \A k \in Kinds, r \in Recipients : told[k][r].id <= cycles /\ told[k][r].id \in Nat
        BY DEF CycleInv, RowsOfCycle, ToldOfCycle, TrialTypes, Tolds, Received
    <2>2. cycles' = cycles + 1 /\ told' = told /\ cycles \in Nat
        BY DEF Reset, TrialTypes
    <2> QED BY <2>1, <2>2
<1>4. \A k \in Kinds, r \in Recipients : ~Had(k, r)'
    <2>1. \A k \in Kinds, r \in Recipients : told'[k][r].id \in Nat /\ cycles' \in Nat
        BY DEF TrialTypes, Tolds, Received
    <2> QED BY <1>3, <2>1 DEF Had
<1>5. RowsOfCycle'
    <2>1. "FINAL" \in Kinds
        BY DEF Kinds
    <2> QED BY <1>1, <1>2, <1>3, <1>4, <2>1
            DEF RowsOfCycle, NoDateNoCycle, NoticesOfCycle, MarksOfCycle, ToldOfCycle
<1>6. ASSUME NEW v \in Workers PROVE PassOfCycle(pass[v])'
    <2>1. pass'[v].phase \in {"IDLE", "RESET"} /\ pass'[v].mail = {} /\ pass'[v].at <= now
        <3>1. CASE v = w
            BY <3>1 DEF Reset, TrialTypes, Resting
        <3>2. CASE v # w
            <4>1. ~AtWork(v) /\ pass'[v] = pass[v]
                BY <3>2 DEF ResetsAlone, Reset, TrialTypes
            <4> QED BY <4>1, PassNow DEF AtWork
        <3> QED BY <3>1, <3>2
    <2>2. now' = now
        BY DEF Reset
    <2> QED BY <2>1, <2>2 DEF PassOfCycle
<1> QED BY <1>5, <1>6 DEF CycleInv, PassesOfCycle

LEMMA BeginKeeps ==
    ASSUME TrialTypes, TrialTypes', CycleInv, NEW w \in Workers, Begin(w) PROVE CycleInv'
<1>0. /\ pass[w] \in Passes /\ PassOfCycle(pass[w]) /\ pass[w].mail = {}
      /\ pass[w].at <= now /\ pass[w].at \in Nat /\ pass[w].phase = "BEGIN"
    BY PassNow DEF Begin
<1>1. PICK p \in Passes : p = [pass[w] EXCEPT !.phase = "DUE"]
    BY <1>0 DEF Passes, Phases
<1>2. pass' = [pass EXCEPT ![w] = p] /\ UNCHANGED <<now, cycles, told>>
    BY <1>1 DEF Begin
<1>3. p.mail = {} /\ p.phase = "DUE" /\ p.at <= now
    BY <1>0, <1>1 DEF Passes
<1>4. CASE center.on # Unset
    <2>1. UNCHANGED <<center, notices>>
        BY <1>4 DEF Begin
    <2>2. PassOfCycle(p)
        BY <1>3, <1>4, LightPass
    <2> QED BY <1>2, <2>1, <2>2, QuietPass
<1>5. CASE center.on = Unset
    <2>1. /\ center' = [NoCycle(center) EXCEPT !.on = PurgeDate(w), !.basis = pass[w].ends]
          /\ notices' = Inserted("FIRST", pass[w].at)
        BY <1>5 DEF Begin
    <2>2. center'.on = PurgeDate(w) /\ \A k \in Kinds : center'[k] = Unset
        <3>1. PICK n \in Centers : n = NoCycle(center) /\ \A k \in Kinds : n[k] = Unset
            BY NoCycleIs DEF TrialTypes
        <3>2. center' = [n EXCEPT !.on = PurgeDate(w), !.basis = pass[w].ends]
            BY <2>1, <3>1
        <3>3. center'.on = PurgeDate(w) /\ \A k \in Kinds : center'[k] = n[k]
            BY <3>2 DEF Centers, Kinds
        <3> QED BY <3>1, <3>3
    <2>3. center'.on \in Nat /\ center'.on # Unset
        BY <2>2, PurgeDateIs DEF Unset
    <2>4. InCycle
        BY <1>2, <1>5, <2>3 DEF InCycle, Had, Unset, TrialTypes
    <2>5. PassOfCycle(p)'
        BY <1>2, <1>3, <2>3 DEF PassOfCycle
    <2>6. PassesOfCycle'
        BY <1>2, <2>4, <2>5, PassesKept DEF CycleInv
    <2>7. \A k \in Kinds, r \in Recipients : notices[k][r].status = "NONE"
        BY <1>5 DEF CycleInv, RowsOfCycle, NoDateNoCycle
    <2>8. \A r \in Recipients : /\ notices'["FIRST"][r].status = "PENDING"
                                /\ notices'["FIRST"][r].id = cycles
                                /\ notices'["FINAL"][r].status = "NONE"
        <3>1. pass[w].at \in Nat /\ "FIRST" \in Kinds /\ "FINAL" \in Kinds \ {"FIRST"}
            BY <1>0 DEF Kinds
        <3> QED BY <2>1, <2>7, <3>1, InsertedType
    <2>9. NoticesOfCycle'
        BY <1>2, <2>8 DEF NoticesOfCycle, Kinds
    <2>10. ToldOfCycle'
        <3>1. ToldOfCycle /\ \A r \in Recipients : told["FINAL"][r].on \in Dates
            BY DEF CycleInv, RowsOfCycle, TrialTypes, Tolds, Received, Kinds
        <3>2. \A r \in Recipients : ~Had("FINAL", r)
            BY <1>5, <3>1 DEF ToldOfCycle, Had, Dates, Unset
        <3> QED BY <1>2, <3>1, <3>2 DEF ToldOfCycle, Had
    <2> QED BY <2>2, <2>3, <2>6, <2>9, <2>10 DEF CycleInv, RowsOfCycle, NoDateNoCycle, MarksOfCycle
<1> QED BY <1>4, <1>5

LEMMA DueKeeps ==
    ASSUME TrialTypes, TrialTypes', CycleInv, NEW w \in Workers, Due(w) PROVE CycleInv'
<1>1. PICK p : /\ pass' = [pass EXCEPT ![w] = p]
               /\ p.phase \in {"LOOK", "CLAIM"} /\ p.mail = pass[w].mail /\ p.at = pass[w].at
    <2> DEFINE due == {k \in Kinds \X Recipients : DueFor(notices[k[1]][k[2]], pass[w].at)}
               todo == {<<k[1], k[2], notices[k[1]][k[2]].id>> : k \in due}
               p == [pass[w] EXCEPT !.phase = IF todo = {} THEN "LOOK" ELSE "CLAIM",
                                    !.todo = todo, !.kind = "FIRST"]
    <2>1. pass' = [pass EXCEPT ![w] = p]
        BY DEF Due, TrialTypes
    <2>2. pass[w] \in Passes
        BY DEF TrialTypes
    <2> HIDE DEF todo
    <2>3. p.phase \in {"LOOK", "CLAIM"} /\ p.mail = pass[w].mail /\ p.at = pass[w].at
        BY <2>2 DEF Passes
    <2> HIDE DEF p
    <2> QED BY <2>1, <2>3
<1>2. p \in Passes
    <2>1. pass'[w] = p /\ pass'[w] \in Passes
        BY <1>1 DEF TrialTypes
    <2> QED BY <2>1
<1>3. pass[w].mail = {} /\ center.on # Unset /\ pass[w].at <= now
    BY PassNow DEF Due
<1>4. PassOfCycle(p)
    BY <1>1, <1>2, <1>3, LightPass
<1> QED BY <1>1, <1>2, <1>4, QuietPass DEF Due

LEMMA ClaimKeeps ==
    ASSUME TrialTypes, TrialTypes', CycleInv, NEW w \in Workers, Claim(w) PROVE CycleInv'
<1> DEFINE n(row) == notices[row[1]][row[2]]
           taken(row) == [n(row) EXCEPT !.status = "SENDING", !.attempts = @ + 1,
                                        !.locked = pass[w].at + Lock]
           mail(row) == [kind |-> row[1], to |-> row[2], id |-> n(row).id,
                         attempts |-> n(row).attempts + 1, names |-> Unset, ok |-> FALSE]
<1>1. PICK row \in pass[w].todo :
        \/ /\ n(row).status \in {"PENDING", "SENDING"}
           /\ notices' = [notices EXCEPT ![row[1]][row[2]] = taken(row)]
           /\ pass' = [pass EXCEPT ![w].phase = "NAME", ![w].mail = {mail(row)}]
        \/ pass' = [pass EXCEPT ![w] = Onward(@, row)] /\ UNCHANGED notices
    BY DEF Claim, MayClaim
<1>2. /\ pass[w] \in Passes /\ pass[w].at <= now /\ pass[w].at \in Nat
      /\ center.on # Unset /\ pass[w].mail = {} /\ pass[w].phase = "CLAIM"
    BY PassNow DEF Claim
<1>3. UNCHANGED <<now, center, cycles, told>>
    BY DEF Claim
<1>4. row[1] \in Kinds /\ row[2] \in Recipients /\ n(row) \in Notices
    BY RowOf
<1>5. CASE pass' = [pass EXCEPT ![w] = Onward(@, row)] /\ UNCHANGED notices
    <2>1. Onward(pass[w], row) \in Passes
          /\ Onward(pass[w], row).mail = {} /\ Onward(pass[w], row).at = pass[w].at
          /\ Onward(pass[w], row).phase \in {"LOOK", "CLAIM"}
        BY <1>2, OnwardType
    <2>2. PassOfCycle(Onward(pass[w], row))
        BY <1>2, <2>1, LightPass
    <2> QED BY <1>3, <1>5, <2>1, <2>2, QuietPass
<1>6. CASE /\ n(row).status \in {"PENDING", "SENDING"}
           /\ notices' = [notices EXCEPT ![row[1]][row[2]] = taken(row)]
           /\ pass' = [pass EXCEPT ![w].phase = "NAME", ![w].mail = {mail(row)}]
    <2>1. taken(row) \in Notices /\ taken(row).status = "SENDING" /\ taken(row).id = n(row).id
        <3>1. pass[w].at + Lock \in Nat
            BY <1>2, TrialAssumption
        <3>2. taken(row) \in Notices
            BY <1>4, <3>1, ClaimedType
        <3> QED BY <1>4, <3>2 DEF Notices
    <2>2. n(row).id = cycles
        BY <1>4, <1>6 DEF CycleInv, RowsOfCycle, NoticesOfCycle
    <2>3. mail(row).id = cycles
        BY <2>2
    <2> HIDE DEF taken
    <2>4. \A k \in Kinds, q \in Recipients :
            notices'[k][q] = IF k = row[1] /\ q = row[2] THEN taken(row) ELSE notices[k][q]
        BY <1>4, <1>6, <2>1, RowType
    <2>5. NoticesOfCycle' /\ NoDateNoCycle'
        BY <1>2, <1>3, <1>4, <1>6, <2>1, <2>2, <2>4
           DEF CycleInv, RowsOfCycle, NoticesOfCycle, NoDateNoCycle, Had
    <2>6. MarksOfCycle' /\ ToldOfCycle'
        BY <1>3 DEF CycleInv, RowsOfCycle, MarksOfCycle, ToldOfCycle, Had
    <2>7. PICK p \in Passes : p = [pass[w] EXCEPT !.phase = "NAME", !.mail = {mail(row)}]
        <3>1. mail(row) \in Tried
            BY <1>4 DEF Notices, Tried, Dates
        <3> HIDE DEF mail
        <3> QED BY <1>2, <3>1 DEF Passes, Phases
    <2>8. InCycle
        BY <1>3, SameIsInCycle
    <2>9. PassOfCycle(p)'
        <3>1. p.phase = "NAME" /\ p.mail = {mail(row)} /\ p.at = pass[w].at
            BY <1>2, <2>7 DEF Passes
        <3>2. \A m \in p.mail : m.id = cycles
            BY <2>3, <3>1
        <3> QED BY <1>2, <1>3, <3>1, <3>2 DEF PassOfCycle, MailOfCycle
    <2>10. PassesOfCycle'
        <3>1. pass' = [pass EXCEPT ![w] = p]
            <4> HIDE DEF mail
            <4> QED BY <1>6, <2>7
        <3> QED BY <2>8, <2>9, <3>1, PassesKept DEF CycleInv
    <2> QED BY <2>5, <2>6, <2>10 DEF CycleInv, RowsOfCycle
<1> QED BY <1>1, <1>5, <1>6

(* The purge date moves on before the mail that names it. *)
LEMMA NameKeeps ==
    ASSUME TrialTypes, TrialTypes', CycleInv, NEW w \in Workers, Name(w) PROVE CycleInv'
<1>1. PICK m \in pass[w].mail :
        /\ center' = [center EXCEPT !.on = NamedDate(w, m.kind)]
        /\ pass' = [pass EXCEPT ![w] =
                      IF NamedDate(w, m.kind) = Unset THEN Onward(@, <<m.kind, m.to, m.id>>)
                      ELSE [@ EXCEPT !.phase = "SEND",
                                     !.mail = {[m EXCEPT !.names = NamedDate(w, m.kind)]}]]
    BY DEF Name
<1>2. /\ pass[w] \in Passes /\ PassOfCycle(pass[w]) /\ pass[w].at <= now
      /\ center.on \in Nat /\ pass[w].phase = "NAME" /\ m \in Tried
    BY PassNow, MailOf DEF Name
<1>3. UNCHANGED <<now, notices, cycles, told>>
    BY DEF Name
<1> DEFINE date == NamedDate(w, m.kind)
<1>4. /\ date \in Dates /\ center.on <= date
      /\ m.kind = "FINAL" => pass[w].at + LastLead <= date
    BY <1>2, NamedDateIs DEF Tried
<1>5. date \in Nat /\ date # Unset
    BY <1>2, <1>4 DEF Dates, Unset
<1>6. center'.on = date /\ \A k \in Kinds : center'[k] = center[k]
    BY <1>1 DEF TrialTypes, Centers, Kinds
<1> HIDE DEF date
<1>7. InCycle
    BY <1>3, <1>4, <1>6 DEF InCycle, Had, TrialTypes
<1>8. PICK p \in Passes : p = [pass[w] EXCEPT !.phase = "SEND",
                                              !.mail = {[m EXCEPT !.names = date]}]
    <2>1. [m EXCEPT !.names = date] \in Tried
        BY <1>2, <1>4 DEF Tried
    <2> QED BY <1>2, <2>1 DEF Passes, Phases
<1>9. pass' = [pass EXCEPT ![w] = p]
    BY <1>1, <1>5, <1>8 DEF date
<1>10. PassOfCycle(p)'
    <2>1. p.phase = "SEND" /\ p.at = pass[w].at /\ p.mail = {[m EXCEPT !.names = date]}
        BY <1>2, <1>8 DEF Passes
    <2>2. m.id = cycles
        BY <1>2 DEF PassOfCycle, MailOfCycle
    <2>3. \A x \in p.mail : x.id = cycles /\ x.names = date /\ x.kind = m.kind
        BY <1>2, <2>1, <2>2 DEF Tried
    <2>4. date <= date
        BY <1>5
    <2> QED BY <1>2, <1>3, <1>4, <1>5, <1>6, <2>1, <2>3, <2>4 DEF PassOfCycle, MailOfCycle
<1>11. PassesOfCycle'
    BY <1>7, <1>9, <1>10, PassesKept DEF CycleInv
<1>12. ToldOfCycle'
    <2>1. ToldOfCycle /\ \A r \in Recipients : told["FINAL"][r].on \in Dates
        BY DEF CycleInv, RowsOfCycle, TrialTypes, Tolds, Received, Kinds
    <2>2. \A d \in Dates : d <= center.on => d <= date
        BY <1>2, <1>4, <1>5 DEF Dates, Unset
    <2> QED BY <1>3, <1>6, <2>1, <2>2 DEF ToldOfCycle, Had
<1>13. NoDateNoCycle' /\ NoticesOfCycle' /\ MarksOfCycle'
    BY <1>3, <1>5, <1>6 DEF CycleInv, RowsOfCycle, NoDateNoCycle, NoticesOfCycle, MarksOfCycle, Had
<1> QED BY <1>11, <1>12, <1>13 DEF CycleInv, RowsOfCycle

LEMMA SendKeeps ==
    ASSUME TrialTypes, TrialTypes', CycleInv, NEW w \in Workers,
           NEW ok \in BOOLEAN, NEW arrives \in BOOLEAN, Send(w, ok, arrives)
    PROVE  CycleInv'
<1>1. PICK m \in pass[w].mail :
        /\ pass' = [pass EXCEPT ![w].phase = "RECORD", ![w].mail = {[m EXCEPT !.ok = ok]}]
        /\ told' = IF arrives
                   THEN [told EXCEPT ![m.kind][m.to] =
                           [at |-> now, began |-> pass[w].at, on |-> m.names, id |-> m.id]]
                   ELSE told
        /\ ok => arrives
    BY DEF Send
<1>2. /\ pass[w] \in Passes /\ PassOfCycle(pass[w]) /\ pass[w].at <= now
      /\ center.on \in Nat /\ center.on # Unset /\ pass[w].phase = "SEND"
      /\ m \in Tried /\ m.kind \in Kinds /\ m.to \in Recipients
    BY PassNow, MailOf DEF Send, Tried
<1>3. UNCHANGED <<now, center, notices, cycles>>
    BY DEF Send
<1>4. /\ m.id = cycles /\ m.names # Unset /\ m.names <= center.on
      /\ m.kind = "FINAL" => pass[w].at + LastLead <= m.names
    BY <1>2 DEF PassOfCycle, MailOfCycle
<1>5. \A k \in Kinds, r \in Recipients :
        told'[k][r] = IF arrives /\ k = m.kind /\ r = m.to
                      THEN [at |-> now, began |-> pass[w].at, on |-> m.names, id |-> m.id]
                      ELSE told[k][r]
    BY <1>1, <1>2 DEF TrialTypes, Tolds
<1>6. \A k \in Kinds, r \in Recipients : Had(k, r) => Had(k, r)'
    BY <1>3, <1>4, <1>5 DEF Had
<1>7. InCycle
    BY <1>2, <1>3, <1>6 DEF InCycle, TrialTypes
<1>8. PICK p \in Passes : p = [pass[w] EXCEPT !.phase = "RECORD", !.mail = {[m EXCEPT !.ok = ok]}]
    <2>1. [m EXCEPT !.ok = ok] \in Tried
        BY <1>2 DEF Tried
    <2> QED BY <1>2, <2>1 DEF Passes, Phases
<1>9. pass' = [pass EXCEPT ![w] = p]
    BY <1>1, <1>8
<1>10. PassOfCycle(p)'
    <2>1. p.phase = "RECORD" /\ p.at = pass[w].at /\ p.mail = {[m EXCEPT !.ok = ok]}
        BY <1>2, <1>8 DEF Passes
    <2>2. \A x \in p.mail : /\ x.id = m.id /\ x.names = m.names /\ x.kind = m.kind
                            /\ x.to = m.to /\ x.ok = ok
        BY <1>2, <2>1 DEF Tried
    <2>3. ok => Had(m.kind, m.to)'
        BY <1>1, <1>2, <1>3, <1>4, <1>5 DEF Had
    <2> QED BY <1>2, <1>3, <1>4, <2>1, <2>2, <2>3 DEF PassOfCycle, MailOfCycle
<1>11. PassesOfCycle'
    BY <1>7, <1>9, <1>10, PassesKept DEF CycleInv
<1>12. ToldOfCycle'
    <2>1. ToldOfCycle /\ "FINAL" \in Kinds /\ cycles <= cycles
        BY DEF CycleInv, RowsOfCycle, TrialTypes, Kinds
    <2>2. \A k \in Kinds, r \in Recipients : (told[k][r].id <= cycles)'
        BY <1>3, <1>4, <1>5, <2>1 DEF ToldOfCycle
    <2>3. ASSUME NEW r \in Recipients, Had("FINAL", r)'
          PROVE  told'["FINAL"][r].began + LastLead <= told'["FINAL"][r].on
                 /\ told'["FINAL"][r].on <= center'.on
        <3>1. CASE arrives /\ m.kind = "FINAL" /\ r = m.to
            BY <1>3, <1>4, <1>5, <2>1, <3>1
        <3>2. CASE ~(arrives /\ m.kind = "FINAL" /\ r = m.to)
            BY <1>3, <1>5, <2>1, <2>3, <3>2 DEF ToldOfCycle, Had
        <3> QED BY <3>1, <3>2
    <2> QED BY <2>2, <2>3 DEF ToldOfCycle
<1>13. NoDateNoCycle' /\ NoticesOfCycle' /\ MarksOfCycle'
    <2>1. NoDateNoCycle' /\ MarksOfCycle'
        BY <1>3, <1>6 DEF CycleInv, RowsOfCycle, NoDateNoCycle, MarksOfCycle
    <2>2. NoticesOfCycle'
        BY <1>3, <1>6 DEF CycleInv, RowsOfCycle, NoticesOfCycle
    <2> QED BY <2>1, <2>2
<1> QED BY <1>11, <1>12, <1>13 DEF CycleInv, RowsOfCycle

LEMMA RecordKeeps ==
    ASSUME TrialTypes, TrialTypes', CycleInv, NEW w \in Workers, Record(w) PROVE CycleInv'
<1> DEFINE n(m) == notices[m.kind][m.to]
           result(m) ==
             IF m.ok
             THEN [n(m) EXCEPT !.status = "ACCEPTED", !.accepted = pass[w].at, !.locked = Unset]
             ELSE [n(m) EXCEPT !.status = IF m.attempts >= MaxAttempts THEN "FAILED"
                                          ELSE "PENDING",
                               !.locked = Unset,
                               !.next = NextTry(pass[w].at, m.attempts)]
<1>1. PICK m \in pass[w].mail :
        /\ notices' = IF n(m).status # "NONE" /\ n(m).id = m.id
                      THEN [notices EXCEPT ![m.kind][m.to] = result(m)] ELSE notices
        /\ pass' = [pass EXCEPT ![w] = Onward(@, <<m.kind, m.to, m.id>>)]
    BY DEF Record
<1>2. /\ pass[w] \in Passes /\ PassOfCycle(pass[w]) /\ pass[w].at <= now
      /\ center.on # Unset /\ pass[w].phase = "RECORD"
      /\ m \in Tried /\ m.kind \in Kinds /\ m.to \in Recipients /\ n(m) \in Notices
    BY PassNow, MailOf DEF Record, Tried
<1>3. UNCHANGED <<now, center, cycles, told>>
    BY DEF Record
<1>4. m.id = cycles /\ (m.ok => Had(m.kind, m.to))
    BY <1>2 DEF PassOfCycle, MailOfCycle
<1>5. /\ result(m).id = n(m).id /\ result(m).status # "NONE"
      /\ result(m).status = "ACCEPTED" => m.ok
    BY <1>2 DEF Notices
<1>6. \A k \in Kinds, q \in Recipients :
        notices'[k][q] = IF n(m).status # "NONE" /\ n(m).id = m.id /\ k = m.kind /\ q = m.to
                         THEN result(m) ELSE notices[k][q]
    <2> HIDE DEF result
    <2> QED BY <1>1, <1>2 DEF TrialTypes, Tables
<1> HIDE DEF result
<1>7. NoticesOfCycle' /\ NoDateNoCycle'
    <2>1. NoticesOfCycle
        BY DEF CycleInv, RowsOfCycle
    <2>2. \A k \in Kinds, r \in Recipients : Had(k, r)' <=> Had(k, r)
        BY <1>3 DEF Had
    <2> QED BY <1>2, <1>3, <1>4, <1>5, <1>6, <2>1, <2>2 DEF NoticesOfCycle, NoDateNoCycle
<1>8. MarksOfCycle' /\ ToldOfCycle'
    BY <1>3 DEF CycleInv, RowsOfCycle, MarksOfCycle, ToldOfCycle, Had
<1>9. InCycle
    BY <1>3, SameIsInCycle
<1>10. PICK p \in Passes : p = Onward(pass[w], <<m.kind, m.to, m.id>>)
    BY <1>2, OnwardType
<1>11. PassOfCycle(p)'
    <2>1. p.phase \in {"LOOK", "CLAIM"} /\ p.mail = {} /\ p.at = pass[w].at
        BY <1>2, <1>10, OnwardType
    <2> QED BY <1>2, <1>3, <2>1 DEF PassOfCycle
<1>12. PassesOfCycle'
    BY <1>1, <1>9, <1>10, <1>11, PassesKept DEF CycleInv
<1> QED BY <1>7, <1>8, <1>12 DEF CycleInv, RowsOfCycle

(* All copies accepted means everybody: the rows are there for all of them. *)
LEMMA AcceptedWereHad ==
    ASSUME CycleInv, NEW kind \in Kinds, AllAccepted(kind)
    PROVE  \A r \in Recipients : Had(kind, r)
<1>1. PICK q \in Recipients : notices[kind][q].status # "NONE"
    BY DEF AllAccepted
<1>2. \A r \in Recipients : notices[kind][r].status # "NONE"
    BY <1>1 DEF CycleInv, RowsOfCycle, NoticesOfCycle
<1>3. \A r \in Recipients : notices[kind][r].status = "ACCEPTED"
    BY <1>2 DEF AllAccepted
<1> QED BY <1>3 DEF CycleInv, RowsOfCycle, NoticesOfCycle

(* Look, Stamp and Mark are three statements; between them nothing of the   *)
(* cycle is lost, for it cannot end under this pass.                        *)
LEMMA MarkingKeeps ==
    ASSUME TrialTypes, TrialTypes', CycleInv, NEW w \in Workers,
           Look(w) \/ Stamp(w) \/ Mark(w)
    PROVE  CycleInv'
<1>1. /\ pass[w] \in Passes /\ PassOfCycle(pass[w]) /\ pass[w].at <= now
      /\ center.on # Unset /\ pass[w].mail = {} /\ pass[w].kind \in Kinds
    BY PassNow DEF Look, Stamp, Mark, Passes
<1>2. CASE Look(w)
    <2>1. CASE AllAccepted(pass[w].kind)
        <3>1. PICK p \in Passes : p = [pass[w] EXCEPT !.phase = "STAMP"]
            BY <1>1 DEF Passes, Phases
        <3>2. /\ p.mail = {} /\ p.at = pass[w].at /\ p.kind = pass[w].kind
              /\ p.phase = "STAMP"
            BY <1>1, <3>1 DEF Passes
        <3>3. PassOfCycle(p)
            BY <1>1, <2>1, <3>2, AcceptedWereHad DEF PassOfCycle
        <3>4. pass' = [pass EXCEPT ![w] = p]
            BY <1>2, <2>1, <3>1 DEF Look
        <3> QED BY <1>2, <3>3, <3>4, QuietPass DEF Look
    <2>2. CASE ~AllAccepted(pass[w].kind)
        <3>1. NextKind(pass[w]) \in Passes /\ NextKind(pass[w]).mail = {}
              /\ NextKind(pass[w]).phase \in {"LOOK", "FRESH"}
              /\ NextKind(pass[w]).at = pass[w].at
            BY <1>1, NextKindType
        <3>2. PassOfCycle(NextKind(pass[w]))
            BY <1>1, <3>1, LightPass
        <3>3. pass' = [pass EXCEPT ![w] = NextKind(pass[w])]
            BY <1>2, <2>2 DEF Look
        <3> QED BY <1>2, <3>1, <3>2, <3>3, QuietPass DEF Look
    <2> QED BY <2>1, <2>2
<1>3. CASE Stamp(w)
    <2>1. PICK p : /\ pass' = [pass EXCEPT ![w] = p]
                   /\ p.mail = {} /\ p.at = pass[w].at /\ p.kind = pass[w].kind
                   /\ p.phase = "MARK"
        <3> DEFINE s == IF AcceptedAt(pass[w].kind) = Unset THEN pass[w].at
                        ELSE AcceptedAt(pass[w].kind)
                   p == [pass[w] EXCEPT !.phase = "MARK", !.stamp = s]
        <3>1. pass' = [pass EXCEPT ![w] = p]
            BY <1>3 DEF Stamp
        <3> HIDE DEF s
        <3>2. p.mail = {} /\ p.at = pass[w].at /\ p.kind = pass[w].kind /\ p.phase = "MARK"
            BY <1>1 DEF Passes
        <3> HIDE DEF p
        <3> QED BY <3>1, <3>2
    <2>2. p \in Passes
        <3>1. pass'[w] = p /\ pass'[w] \in Passes
            BY <2>1 DEF TrialTypes
        <3> QED BY <3>1
    <2>3. PassOfCycle(p)
        BY <1>1, <1>3, <2>1 DEF PassOfCycle, Stamp
    <2> QED BY <1>3, <2>1, <2>2, <2>3, QuietPass DEF Stamp
<1>4. CASE Mark(w)
    <2>1. \A r \in Recipients : Had(pass[w].kind, r)
        BY <1>1, <1>4 DEF PassOfCycle, Mark
    <2>2. UNCHANGED <<now, notices, cycles, told>>
        BY <1>4 DEF Mark
    <2>3. /\ center'.on = center.on
          /\ \A k \in Kinds : center'[k] # center[k] => k = pass[w].kind
        BY <1>1, <1>4 DEF Mark, TrialTypes, Centers, Kinds
    <2>4. InCycle
        BY <2>2, <2>3, SameIsInCycle
    <2>5. PICK p \in Passes : p = NextKind(pass[w])
        BY <1>1, NextKindType
    <2>6. PassOfCycle(p)'
        <3>1. p.phase \in {"LOOK", "FRESH"} /\ p.mail = {} /\ p.at = pass[w].at
            BY <1>1, <2>5, NextKindType
        <3> QED BY <1>1, <2>2, <2>3, <3>1 DEF PassOfCycle
    <2>7. PassesOfCycle'
        BY <1>4, <2>4, <2>5, <2>6, PassesKept DEF CycleInv, Mark
    <2>8. MarksOfCycle'
        BY <2>1, <2>2, <2>3 DEF CycleInv, RowsOfCycle, MarksOfCycle, Had
    <2>9. NoDateNoCycle' /\ NoticesOfCycle' /\ ToldOfCycle'
        BY <1>1, <2>2, <2>3
           DEF CycleInv, RowsOfCycle, NoDateNoCycle, NoticesOfCycle, ToldOfCycle, Had
    <2> QED BY <2>7, <2>8, <2>9 DEF CycleInv, RowsOfCycle
<1> QED BY <1>2, <1>3, <1>4

LEMMA DecidingKeeps ==
    ASSUME TrialTypes, TrialTypes', CycleInv, NEW w \in Workers,
           Fresh(w) \/ Last(w) \/ DeleteIfStillDue(w)
    PROVE  CycleInv'
<1>1. /\ pass[w] \in Passes /\ pass[w].at <= now /\ pass[w].at \in Nat
      /\ center.on # Unset /\ pass[w].mail = {}
    BY PassNow DEF Fresh, Last, DeleteIfStillDue
<1>2. CASE Fresh(w)
    <2>1. CASE AfterDelivery(w) = "IDLE"
        BY <1>2, <2>1, RestsKeeps DEF Fresh
    <2>2. CASE AfterDelivery(w) # "IDLE"
        <3>1. AfterDelivery(w) \in {"DELETE", "LAST"}
            BY <2>2 DEF AfterDelivery
        <3>2. PICK p \in Passes : p = [pass[w] EXCEPT !.phase = AfterDelivery(w)]
            BY <1>1, <3>1 DEF Passes, Phases
        <3>3. p.phase \in {"DELETE", "LAST"} /\ p.mail = {} /\ p.at = pass[w].at
            BY <1>1, <3>1, <3>2 DEF Passes
        <3>4. PassOfCycle(p)
            BY <1>1, <3>3, LightPass
        <3> QED BY <1>2, <2>2, <3>2, <3>4, QuietPass DEF Fresh
    <2> QED BY <2>1, <2>2
<1>3. CASE Last(w)
    <2>1. UNCHANGED <<now, center, cycles, told>> /\ notices' = Inserted("FINAL", pass[w].at)
        BY <1>3 DEF Last
    <2>2. "FINAL" \in Kinds /\ pass[w].at \in Nat /\ NoticesOfCycle
        BY <1>1 DEF Kinds, CycleInv, RowsOfCycle
    <2>3. /\ \A r \in Recipients :
               /\ notices'["FINAL"][r].status # "NONE"
               /\ \/ notices["FINAL"][r].status # "NONE"
                      /\ notices'["FINAL"][r] = notices["FINAL"][r]
                  \/ notices'["FINAL"][r].status = "PENDING" /\ notices'["FINAL"][r].id = cycles
          /\ \A k \in Kinds \ {"FINAL"} : notices'[k] = notices[k]
        BY <2>1, <2>2, InsertedType
    <2>4. NoticesOfCycle'
        <3> SUFFICES ASSUME NEW k \in Kinds, NEW r \in Recipients
                     PROVE  LET n == notices'[k][r] IN
                            /\ n.status # "NONE" => n.id = cycles'
                                 /\ \A q \in Recipients : notices'[k][q].status # "NONE"
                            /\ n.status = "ACCEPTED" => Had(k, r)'
            BY DEF NoticesOfCycle
        <3>1. Had(k, r) => Had(k, r)'
            BY <2>1 DEF Had
        <3>2. CASE k = "FINAL"
            BY <2>1, <2>2, <2>3, <3>1, <3>2 DEF NoticesOfCycle
        <3>3. CASE k # "FINAL"
            BY <2>1, <2>2, <2>3, <3>1, <3>3 DEF NoticesOfCycle
        <3> QED BY <3>2, <3>3
    <2>5. NoDateNoCycle' /\ MarksOfCycle' /\ ToldOfCycle'
        BY <1>1, <2>1 DEF CycleInv, RowsOfCycle, NoDateNoCycle, MarksOfCycle, ToldOfCycle, Had
    <2>6. InCycle
        BY <2>1, SameIsInCycle
    <2>7. PICK p \in Passes : p = [pass[w] EXCEPT !.phase = "DUE", !.final = TRUE]
        BY <1>1 DEF Passes, Phases
    <2>8. PassOfCycle(p)'
        <3>1. p.phase = "DUE" /\ p.mail = {} /\ p.at = pass[w].at
            BY <1>1, <2>7 DEF Passes
        <3> QED BY <1>1, <2>1, <3>1 DEF PassOfCycle
    <2>9. PassesOfCycle'
        BY <1>3, <2>6, <2>7, <2>8, PassesKept DEF CycleInv, Last
    <2> QED BY <2>4, <2>5, <2>9 DEF CycleInv, RowsOfCycle
<1>4. CASE DeleteIfStillDue(w)
    <2>1. UNCHANGED <<now, notices, cycles, told>> /\ pass' = [pass EXCEPT ![w] = Resting]
        BY <1>4 DEF DeleteIfStillDue
    <2>2. center'.on = center.on /\ \A k \in Kinds : center'[k] = center[k]
        BY <1>4 DEF DeleteIfStillDue, TrialTypes, Centers, Kinds
    <2>3. InCycle
        BY <2>1, <2>2, SameIsInCycle
    <2>4. PICK p \in Passes : p = Resting
        BY RestingIs
    <2>5. PassOfCycle(p)'
        BY <2>4, <1>1, <2>1 DEF PassOfCycle, Resting, TrialTypes
    <2>6. PassesOfCycle'
        BY <2>1, <2>3, <2>4, <2>5, PassesKept DEF CycleInv
    <2>7. RowsOfCycle'
        BY <2>1, <2>2, RowsKept DEF CycleInv
    <2> QED BY <2>6, <2>7 DEF CycleInv
<1> QED BY <1>2, <1>3, <1>4

LEMMA OutsideKeeps ==
    ASSUME TrialTypes, TrialTypes', CycleInv,
           \/ \E e \in Ends \cup {Unset} : Extend(e)
           \/ \E status \in AdminStatuses : SetStatus(status)
           \/ Pay
           \/ Tick
    PROVE  CycleInv'
<1>1. /\ UNCHANGED <<notices, pass, cycles, told>> /\ now' \in {now, now + 1}
      /\ center'.on = center.on /\ \A k \in Kinds : center'[k] = center[k]
    BY DEF Extend, SetStatus, Pay, Tick, TrialTypes, Centers, Kinds
<1>2. InCycle
    <2>1. now \in Nat /\ center.on \in Int
        BY DEF TrialTypes, Centers, Dates, Unset
    <2> QED BY <1>1, <2>1 DEF InCycle, Had
<1>3. PassesOfCycle'
    BY <1>1, <1>2, AllPassesKept DEF CycleInv
<1>4. RowsOfCycle'
    BY <1>1, RowsKept DEF CycleInv
<1> QED BY <1>3, <1>4 DEF CycleInv

LEMMA StepCycle == TrialTypes /\ CycleInv /\ [Next]_vars /\ [ResetsAlone]_vars => CycleInv'
<1> SUFFICES ASSUME TrialTypes, CycleInv, [Next]_vars, [ResetsAlone]_vars PROVE CycleInv'
    OBVIOUS
<1>1. TrialTypes'
    BY StepTypes
<1>2. CASE UNCHANGED vars
    <2>1. RowsOfCycle'
        BY <1>2, RowsKept DEF CycleInv, vars
    <2>2. PassesOfCycle'
        BY <1>1, <1>2, SameIsInCycle, AllPassesKept DEF CycleInv, vars
    <2> QED BY <2>1, <2>2 DEF CycleInv
<1>3. CASE Next /\ ResetsAlone
    <2>1. ASSUME NEW w \in Workers, Work(w) PROVE CycleInv'
        <3>1. ASSUME NEW ok \in BOOLEAN, NEW arrives \in BOOLEAN, Send(w, ok, arrives)
              PROVE  CycleInv'
            BY <1>1, <3>1, SendKeeps
        <3> QED BY <1>1, <1>3, <2>1, <3>1, ScanKeeps, ResetKeeps, BeginKeeps, DueKeeps,
                   ClaimKeeps, NameKeeps, RecordKeeps, MarkingKeeps, DecidingKeeps DEF Work
    <2>2. ASSUME NEW w \in Workers, PassFails(w) PROVE CycleInv'
        BY <1>1, <2>2, RestsKeeps DEF PassFails
    <2> QED BY <1>1, <1>3, <2>1, <2>2, OutsideKeeps DEF Next
<1> QED BY <1>2, <1>3

(* A date that was a week off when the pass began was so when the mail      *)
(* left, but for the time between the two.                                  *)
LEMMA WeekFromMail ==
    ASSUME NEW mail \in Received, mail.began + LastLead <= mail.on
    PROVE  mail.at + LastLead <= mail.on + Late(mail)
<1> QED BY TrialAssumption DEF Received, Late, Dates, Unset

(* Who is deleted was told: both notices of the cycle, the last of them for *)
(* a date that has come and was a week off when its pass began.             *)
LEMMA DeletedWasTold ==
    ASSUME TrialTypes, CycleInv, [Next]_vars, Deleted
    PROVE  /\ \A r \in Recipients, k \in Kinds : Had(k, r)
           /\ \A r \in Recipients : AsTold(told["FINAL"][r])
<1>1. PICK w \in Workers : DeleteIfStillDue(w) /\ StillDue(pass[w].at)
    BY DeletedIsDue
<1>2. \A r \in Recipients, k \in Kinds : Had(k, r)
    BY <1>1 DEF StillDue, CycleInv, RowsOfCycle, MarksOfCycle, Kinds
<1>3. center.on <= now
    <2>1. center.on <= pass[w].at /\ pass[w].at <= now
        BY <1>1, PassNow DEF StillDue
    <2>2. center.on \in Int /\ pass[w].at \in Int /\ now \in Int
        BY DEF TrialTypes, Centers, Dates, Unset, Passes
    <2> QED BY <2>1, <2>2
<1>4. ASSUME NEW r \in Recipients PROVE AsTold(told["FINAL"][r])
    <2>1. PICK last \in Received : last = told["FINAL"][r]
        BY DEF TrialTypes, Tolds, Kinds
    <2>2. last.on # Unset /\ last.began + LastLead <= last.on /\ last.on <= center.on
        BY <1>2, <2>1 DEF CycleInv, RowsOfCycle, ToldOfCycle, Had, Kinds
    <2>3. last.on \in Int /\ center.on \in Int /\ now \in Int
        BY <2>1 DEF TrialTypes, Received, Centers, Dates, Unset
    <2>4. last.at + LastLead <= last.on + Late(last)
        BY <2>2, WeekFromMail
    <2> QED BY <1>3, <2>1, <2>2, <2>3, <2>4 DEF AsTold
<1> QED BY <1>2, <1>4

(* Whoever loses the center had both notices of this cycle, and the date    *)
(* the last one named has come, a week after that mail left or less by no   *)
(* more than the mail was late in its pass - with any number of processes,  *)
(* failed and repeated mails, lost answers and slow passes, as long as no   *)
(* process ends a cycle while another one is at work on it.  Without that   *)
(* it is not so (run trial_carried).                                        *)
THEOREM NoticesComeFirst == Spec /\ [][ResetsAlone]_vars => ToldInThisCycle /\ DeletedAsTold
<1>1. ASSUME TrialTypes, CycleInv, [Next]_vars
      PROVE  [Deleted => \A r \in Recipients, k \in Kinds :
                told[k][r].on # Unset /\ told[k][r].id = cycles]_vars
    BY <1>1, DeletedWasTold DEF Had
<1>2. ASSUME TrialTypes, CycleInv, [Next]_vars
      PROVE  [Deleted => \A r \in Recipients : AsTold(told["FINAL"][r])]_vars
    BY <1>2, DeletedWasTold
<1>3. Spec => []TrialTypes
    BY InitTypes, StepTypes, PTL DEF Spec
<1>4. Spec /\ [][ResetsAlone]_vars => []CycleInv
    <2>1. Init => TrialTypes /\ CycleInv
        BY InitTypes, InitCycle
    <2> QED BY <1>3, <2>1, StepCycle, PTL DEF Spec
<1>5. Spec /\ [][ResetsAlone]_vars => ToldInThisCycle
    BY <1>1, <1>3, <1>4, PTL DEF Spec, ToldInThisCycle
<1>6. Spec /\ [][ResetsAlone]_vars => DeletedAsTold
    BY <1>2, <1>3, <1>4, PTL DEF Spec, DeletedAsTold
<1> QED BY <1>5, <1>6

(* One server process never does, so there the class comment holds: "the    *)
(* waiting periods count from accepted notices only".                       *)
THEOREM OneProcessTells ==
    ASSUME NEW process, Workers = {process}
    PROVE  Spec => ToldInThisCycle /\ DeletedAsTold
<1>1. ResetsAlone
    BY DEF ResetsAlone
<1>2. [][ResetsAlone]_vars
    BY <1>1, PTL
<1> QED BY <1>2, NoticesComeFirst, PTL

-----------------------------------------------------------------------------
(* Told at all: nothing is asked of the processes *)

(* A mail of the kind reached the recipient, in whatever cycle. *)
Reached(kind, r) == told[kind][r].on # Unset

(* The notices of a kind are there for all or none of the recipients; one   *)
(* that was accepted arrived.                                               *)
RowsReached ==
    \A k \in Kinds, r \in Recipients :
      /\ notices[k][r].status # "NONE" => \A q \in Recipients : notices[k][q].status # "NONE"
      /\ notices[k][r].status = "ACCEPTED" => Reached(k, r)

MarksReached == \A k \in Kinds : center[k] # Unset => \A r \in Recipients : Reached(k, r)

(* A last notice named a date a week after the start of its pass, or later. *)
WeekOff ==
    \A r \in Recipients :
      LET last == told["FINAL"][r] IN
      last.on # Unset => last.began + LastLead <= last.on

MailReached(p, m) ==
    /\ p.phase \in {"NAME", "SEND", "RECORD"}
    /\ p.phase # "NAME" =>
         /\ m.names # Unset
         /\ m.kind = "FINAL" => p.at + LastLead <= m.names
    /\ p.phase = "RECORD" /\ m.ok => Reached(m.kind, m.to)

PassReached(p) ==
    /\ p.phase \in {"STAMP", "MARK"} => \A r \in Recipients : Reached(p.kind, r)
    /\ \A m \in p.mail : MailReached(p, m)

ReachInv ==
    /\ RowsReached /\ MarksReached /\ WeekOff
    /\ \A w \in Workers : PassReached(pass[w])

(* Who was reached stays so. *)
NoneForgotten == \A k \in Kinds, r \in Recipients : Reached(k, r) => Reached(k, r)'

LEMMA InitReach == Init => ReachInv
<1> SUFFICES ASSUME Init PROVE ReachInv
    OBVIOUS
<1>1. MarksReached
    <2>1. PICK e \in Ends : center = NoCycle([status |-> "TRIAL", paid |-> FALSE, ends |-> e,
                               on |-> Unset, basis |-> Unset, FIRST |-> Unset, FINAL |-> Unset])
        BY DEF Init
    <2> QED BY <2>1 DEF MarksReached, NoCycle, Kinds
<1>2. RowsReached
    BY NoRowIs DEF Init, RowsReached
<1>3. WeekOff
    BY DEF Init, WeekOff, NoMail, Kinds
<1>4. \A w \in Workers : PassReached(pass[w])
    BY DEF Init, PassReached, Resting
<1> QED BY <1>1, <1>2, <1>3, <1>4 DEF ReachInv

(* One pass moves on, the others wait. *)
LEMMA ReachStep ==
    ASSUME TrialTypes, ReachInv, NoneForgotten, RowsReached', WeekOff',
           \A k \in Kinds : center'[k] # Unset =>
             center[k] # Unset \/ \A r \in Recipients : Reached(k, r)',
           NEW w \in Workers, NEW p \in Passes, pass' = [pass EXCEPT ![w] = p],
           PassReached(p)'
    PROVE  ReachInv'
<1>1. MarksReached'
    BY DEF ReachInv, MarksReached, NoneForgotten
<1>2. ASSUME NEW v \in Workers PROVE PassReached(pass[v])'
    <2>1. CASE v = w
        <3>1. pass'[v] = p
            BY <2>1 DEF TrialTypes
        <3> QED BY <3>1 DEF PassReached, MailReached, Reached
    <2>2. CASE v # w
        <3>1. pass'[v] = pass[v] /\ pass[v] \in Passes /\ PassReached(pass[v])
            BY <2>2 DEF TrialTypes, ReachInv
        <3>2. /\ pass[v].kind \in Kinds
              /\ \A m \in pass[v].mail : m.kind \in Kinds /\ m.to \in Recipients
            BY <3>1 DEF Passes, Tried
        <3> QED BY <3>1, <3>2 DEF PassReached, MailReached, NoneForgotten
    <2> QED BY <2>1, <2>2
<1> QED BY <1>1, <1>2 DEF ReachInv

LEMMA RowsReachedKept ==
    ASSUME ReachInv, UNCHANGED <<notices, told>>
    PROVE  RowsReached' /\ WeekOff' /\ NoneForgotten
<1> QED BY DEF ReachInv, RowsReached, WeekOff, NoneForgotten, Reached

(* What the invariant says of a pass, by its phase. *)
LEMMA ReachedNow ==
    ASSUME TrialTypes, ReachInv, NEW w \in Workers
    PROVE  /\ pass[w] \in Passes /\ PassReached(pass[w])
           /\ pass[w].phase \notin {"NAME", "SEND", "RECORD"} => pass[w].mail = {}
<1> QED BY DEF TrialTypes, ReachInv, PassReached, MailReached

(* A pass that neither has a mail nor is about to mark says nothing. *)
LEMMA IdleReached ==
    ASSUME NEW p, p.mail = {}, p.phase \notin {"STAMP", "MARK"} PROVE PassReached(p)'
<1> QED BY DEF PassReached

(* Steps that write no notice, no mark and nobody. *)
LEMMA QuietReach ==
    ASSUME TrialTypes, TrialTypes', ReachInv, UNCHANGED <<notices, told>>,
           \A k \in Kinds : center'[k] \in {center[k], Unset},
           NEW w \in Workers, NEW p, pass' = [pass EXCEPT ![w] = p],
           p.mail = {}, p.phase \notin {"STAMP", "MARK"}
    PROVE  ReachInv'
<1>1. pass'[w] = p /\ pass'[w] \in Passes
    BY DEF TrialTypes
<1>2. PassReached(p)'
    BY IdleReached
<1> QED BY <1>1, <1>2, RowsReachedKept, ReachStep

LEMMA ScanReaches ==
    ASSUME TrialTypes, TrialTypes', ReachInv, NEW w \in Workers,
           Scan(w) \/ Due(w) \/ Fresh(w) \/ PassFails(w) \/ DeleteIfStillDue(w)
    PROVE  ReachInv'
<1>1. /\ pass[w] \in Passes
      /\ pass[w].phase \notin {"NAME", "SEND", "RECORD"} => pass[w].mail = {}
    BY ReachedNow
<1>2. CASE Scan(w)
    <2>1. PICK p : /\ pass' = [pass EXCEPT ![w] = p]
                   /\ p.mail = {} /\ p.phase \in {"RESET", "BEGIN", "DUE"}
        <3> DEFINE p == [Resting EXCEPT !.at = now, !.ends = center.ends,
                            !.phase = IF Extended THEN "RESET"
                                      ELSE IF center.on = Unset THEN "BEGIN" ELSE "DUE"]
        <3>1. pass' = [pass EXCEPT ![w] = p]
            BY <1>2 DEF Scan
        <3>2. p.mail = {} /\ p.phase \in {"RESET", "BEGIN", "DUE"}
            BY DEF Resting
        <3> HIDE DEF p
        <3> QED BY <3>1, <3>2
    <2> QED BY <1>2, <2>1, QuietReach DEF Scan
<1>3. CASE Due(w)
    <2>1. PICK p : /\ pass' = [pass EXCEPT ![w] = p]
                   /\ p.mail = {} /\ p.phase \in {"LOOK", "CLAIM"}
        <3> DEFINE due == {k \in Kinds \X Recipients : DueFor(notices[k[1]][k[2]], pass[w].at)}
                   todo == {<<k[1], k[2], notices[k[1]][k[2]].id>> : k \in due}
                   p == [pass[w] EXCEPT !.phase = IF todo = {} THEN "LOOK" ELSE "CLAIM",
                                        !.todo = todo, !.kind = "FIRST"]
        <3>1. pass' = [pass EXCEPT ![w] = p]
            BY <1>3 DEF Due, TrialTypes
        <3> HIDE DEF todo
        <3>2. p.mail = {} /\ p.phase \in {"LOOK", "CLAIM"}
            BY <1>1, <1>3 DEF Passes, Due
        <3> HIDE DEF p
        <3> QED BY <3>1, <3>2
    <2> QED BY <1>3, <2>1, QuietReach DEF Due
<1>4. CASE Fresh(w)
    <2>1. PICK p : /\ pass' = [pass EXCEPT ![w] = p]
                   /\ p.mail = {} /\ p.phase \in {"IDLE", "LAST", "DELETE"}
        <3> DEFINE p == IF AfterDelivery(w) = "IDLE" THEN Resting
                        ELSE [pass[w] EXCEPT !.phase = AfterDelivery(w)]
        <3>1. pass' = [pass EXCEPT ![w] = p]
            BY <1>4 DEF Fresh, TrialTypes
        <3>2. p.mail = {} /\ p.phase \in {"IDLE", "LAST", "DELETE"}
            <4>1. AfterDelivery(w) \in {"IDLE", "LAST", "DELETE"}
                BY DEF AfterDelivery
            <4> QED BY <1>1, <1>4, <4>1 DEF Passes, Fresh, Resting
        <3> HIDE DEF p
        <3> QED BY <3>1, <3>2
    <2> QED BY <1>4, <2>1, QuietReach DEF Fresh
<1>5. CASE PassFails(w)
    BY <1>5, RestingIs, QuietReach DEF PassFails
<1>6. CASE DeleteIfStillDue(w)
    <2>1. \A k \in Kinds : center'[k] = center[k]
        BY <1>6 DEF DeleteIfStillDue, TrialTypes, Centers, Kinds
    <2> QED BY <1>6, <2>1, RestingIs, QuietReach DEF DeleteIfStillDue
<1> QED BY <1>2, <1>3, <1>4, <1>5, <1>6

(* The rows are made for all recipients, and go for all of them. *)
LEMMA RowsReach ==
    ASSUME TrialTypes, TrialTypes', ReachInv, NEW w \in Workers,
           Reset(w) \/ Begin(w) \/ Last(w)
    PROVE  ReachInv'
<1>1. /\ pass[w] \in Passes /\ pass[w].at \in Nat
      /\ pass[w].phase \notin {"NAME", "SEND", "RECORD"} => pass[w].mail = {}
    BY ReachedNow DEF Passes
<1>2. told' = told
    BY DEF Reset, Begin, Last
<1>3. WeekOff' /\ NoneForgotten
    BY <1>2 DEF ReachInv, WeekOff, NoneForgotten, Reached
<1>4. ASSUME NEW kind \in Kinds, notices' = Inserted(kind, pass[w].at) PROVE RowsReached'
    <2>1. /\ \A r \in Recipients :
               /\ notices'[kind][r].status # "NONE"
               /\ notices'[kind][r].status = "ACCEPTED" => notices[kind][r].status = "ACCEPTED"
          /\ \A k \in Kinds \ {kind} : notices'[k] = notices[k]
        BY <1>1, <1>4, InsertedType
    <2> QED BY <1>2, <2>1 DEF ReachInv, RowsReached, Reached
<1>5. CASE Reset(w)
    <2>1. RowsReached'
        BY <1>5, NoRowIs DEF RowsReached, Reset
    <2>2. \A k \in Kinds : center'[k] = Unset
        BY <1>5, NoCycleIs DEF Reset, TrialTypes
    <2>3. PICK p \in Passes : p = Resting
        BY RestingIs
    <2>4. PassReached(p)'
        BY <2>3, RestingIs, IdleReached
    <2> QED BY <1>3, <1>5, <2>1, <2>2, <2>3, <2>4, ReachStep DEF Reset
<1>6. CASE Begin(w)
    <2>1. PICK p \in Passes : p = [pass[w] EXCEPT !.phase = "DUE"]
        BY <1>1 DEF Passes, Phases
    <2>2. pass' = [pass EXCEPT ![w] = p] /\ p.mail = {} /\ p.phase = "DUE"
        BY <1>1, <1>6, <2>1 DEF Begin, Passes
    <2>3. PassReached(p)'
        BY <2>2, IdleReached
    <2>4. CASE center.on # Unset
        BY <1>2, <1>6, <2>2, <2>4, QuietReach DEF Begin
    <2>5. CASE center.on = Unset
        <3>1. RowsReached'
            BY <1>4, <1>6, <2>5 DEF Begin, Kinds
        <3>2. \A k \in Kinds : center'[k] = Unset
            <4>1. PICK n \in Centers : n = NoCycle(center) /\ \A k \in Kinds : n[k] = Unset
                BY NoCycleIs DEF TrialTypes
            <4>2. center' = [n EXCEPT !.on = PurgeDate(w), !.basis = pass[w].ends]
                BY <1>6, <2>5, <4>1 DEF Begin
            <4>3. \A k \in Kinds : center'[k] = n[k]
                BY <4>2 DEF Centers, Kinds
            <4> QED BY <4>1, <4>3
        <3> QED BY <1>3, <2>2, <2>3, <3>1, <3>2, ReachStep
    <2> QED BY <2>4, <2>5
<1>7. CASE Last(w)
    <2>1. PICK p \in Passes : p = [pass[w] EXCEPT !.phase = "DUE", !.final = TRUE]
        BY <1>1 DEF Passes, Phases
    <2>2. pass' = [pass EXCEPT ![w] = p] /\ p.mail = {} /\ p.phase = "DUE"
        BY <1>1, <1>7, <2>1 DEF Last, Passes
    <2>3. PassReached(p)'
        BY <2>2, IdleReached
    <2>4. RowsReached' /\ center' = center
        BY <1>4, <1>7 DEF Last, Kinds
    <2> QED BY <1>3, <2>2, <2>3, <2>4, ReachStep
<1> QED BY <1>5, <1>6, <1>7

LEMMA ClaimReaches ==
    ASSUME TrialTypes, TrialTypes', ReachInv, NEW w \in Workers, Claim(w) PROVE ReachInv'
<1> DEFINE n(row) == notices[row[1]][row[2]]
           taken(row) == [n(row) EXCEPT !.status = "SENDING", !.attempts = @ + 1,
                                        !.locked = pass[w].at + Lock]
           mail(row) == [kind |-> row[1], to |-> row[2], id |-> n(row).id,
                         attempts |-> n(row).attempts + 1, names |-> Unset, ok |-> FALSE]
<1>1. PICK row \in pass[w].todo :
        \/ /\ n(row).status \in {"PENDING", "SENDING"}
           /\ notices' = [notices EXCEPT ![row[1]][row[2]] = taken(row)]
           /\ pass' = [pass EXCEPT ![w].phase = "NAME", ![w].mail = {mail(row)}]
        \/ pass' = [pass EXCEPT ![w] = Onward(@, row)] /\ UNCHANGED notices
    BY DEF Claim, MayClaim
<1>2. row[1] \in Kinds /\ row[2] \in Recipients /\ n(row) \in Notices /\ pass[w] \in Passes
    BY RowOf, ReachedNow
<1>3. UNCHANGED <<center, told>>
    BY DEF Claim
<1>4. CASE pass' = [pass EXCEPT ![w] = Onward(@, row)] /\ UNCHANGED notices
    <2>1. PICK p : p = Onward(pass[w], row)
        OBVIOUS
    <2>2. p.mail = {} /\ p.phase \in {"LOOK", "CLAIM"} /\ pass' = [pass EXCEPT ![w] = p]
        BY <1>2, <1>4, <2>1, OnwardType
    <2> QED BY <1>3, <1>4, <2>2, QuietReach
<1>5. CASE /\ n(row).status \in {"PENDING", "SENDING"}
           /\ notices' = [notices EXCEPT ![row[1]][row[2]] = taken(row)]
           /\ pass' = [pass EXCEPT ![w].phase = "NAME", ![w].mail = {mail(row)}]
    <2>1. taken(row).status = "SENDING"
        BY <1>2 DEF Notices
    <2> HIDE DEF taken
    <2>2. \A k \in Kinds, q \in Recipients :
            notices'[k][q] = IF k = row[1] /\ q = row[2] THEN taken(row) ELSE notices[k][q]
        BY <1>2, <1>5 DEF TrialTypes, Tables
    <2>3. RowsReached'
        BY <1>2, <1>3, <1>5, <2>1, <2>2 DEF ReachInv, RowsReached, Reached
    <2>4. WeekOff' /\ NoneForgotten
        BY <1>3 DEF ReachInv, WeekOff, NoneForgotten, Reached
    <2>5. PICK p \in Passes : p = [pass[w] EXCEPT !.phase = "NAME", !.mail = {mail(row)}]
        <3>1. mail(row) \in Tried
            BY <1>2 DEF Notices, Tried, Dates
        <3> HIDE DEF mail
        <3> QED BY <1>2, <3>1 DEF Passes, Phases
    <2> HIDE DEF mail
    <2>6. p.phase = "NAME" /\ pass' = [pass EXCEPT ![w] = p]
        BY <1>2, <1>5, <2>5 DEF Passes
    <2>7. PassReached(p)'
        BY <2>6 DEF PassReached, MailReached
    <2> QED BY <1>3, <2>3, <2>4, <2>6, <2>7, ReachStep
<1> QED BY <1>1, <1>4, <1>5

(* The date a last notice names is a week off, whatever the cycle. *)
LEMMA NameReaches ==
    ASSUME TrialTypes, TrialTypes', ReachInv, NEW w \in Workers, Name(w) PROVE ReachInv'
<1>1. PICK m \in pass[w].mail :
        /\ center' = [center EXCEPT !.on = NamedDate(w, m.kind)]
        /\ pass' = [pass EXCEPT ![w] =
                      IF NamedDate(w, m.kind) = Unset THEN Onward(@, <<m.kind, m.to, m.id>>)
                      ELSE [@ EXCEPT !.phase = "SEND",
                                     !.mail = {[m EXCEPT !.names = NamedDate(w, m.kind)]}]]
    BY DEF Name
<1>2. pass[w] \in Passes /\ m \in Tried
    BY MailOf
<1>3. UNCHANGED <<notices, told>> /\ \A k \in Kinds : center'[k] = center[k]
    BY <1>1 DEF Name, TrialTypes, Centers, Kinds
<1> DEFINE date == NamedDate(w, m.kind)
<1>4. date \in Dates /\ (m.kind = "FINAL" => pass[w].at + LastLead <= date)
    BY <1>2, NamedDateIs DEF Tried
<1> HIDE DEF date
<1>5. CASE date = Unset
    <2>1. PICK p : p = Onward(pass[w], <<m.kind, m.to, m.id>>)
        OBVIOUS
    <2>2. p.mail = {} /\ p.phase \in {"LOOK", "CLAIM"}
        BY <1>2, <2>1, OnwardType
    <2>3. pass' = [pass EXCEPT ![w] = p]
        BY <1>1, <1>5, <2>1 DEF date
    <2> QED BY <1>3, <2>2, <2>3, QuietReach
<1>6. CASE date # Unset
    <2>1. PICK p \in Passes : p = [pass[w] EXCEPT !.phase = "SEND",
                                                  !.mail = {[m EXCEPT !.names = date]}]
        <3>1. [m EXCEPT !.names = date] \in Tried
            BY <1>2, <1>4 DEF Tried
        <3> QED BY <1>2, <3>1 DEF Passes, Phases
    <2>2. pass' = [pass EXCEPT ![w] = p]
        BY <1>1, <1>6, <2>1 DEF date
    <2>3. p.phase = "SEND" /\ p.at = pass[w].at /\ \A x \in p.mail : x.names = date /\ x.kind = m.kind
        BY <1>2, <2>1 DEF Passes, Tried
    <2>4. PassReached(p)'
        BY <1>4, <1>6, <2>3 DEF PassReached, MailReached
    <2> QED BY <1>3, <2>2, <2>4, RowsReachedKept, ReachStep
<1> QED BY <1>5, <1>6

LEMMA SendReaches ==
    ASSUME TrialTypes, TrialTypes', ReachInv, NEW w \in Workers,
           NEW ok \in BOOLEAN, NEW arrives \in BOOLEAN, Send(w, ok, arrives)
    PROVE  ReachInv'
<1>1. PICK m \in pass[w].mail :
        /\ pass' = [pass EXCEPT ![w].phase = "RECORD", ![w].mail = {[m EXCEPT !.ok = ok]}]
        /\ told' = IF arrives
                   THEN [told EXCEPT ![m.kind][m.to] =
                           [at |-> now, began |-> pass[w].at, on |-> m.names, id |-> m.id]]
                   ELSE told
        /\ ok => arrives
    BY DEF Send
<1>2. /\ pass[w] \in Passes /\ pass[w].phase = "SEND" /\ PassReached(pass[w])
      /\ m \in Tried /\ m.kind \in Kinds /\ m.to \in Recipients
    BY ReachedNow, MailOf DEF Send, Tried
<1>3. UNCHANGED <<center, notices>>
    BY DEF Send
<1>4. m.names # Unset /\ (m.kind = "FINAL" => pass[w].at + LastLead <= m.names)
    BY <1>2 DEF PassReached, MailReached
<1>5. \A k \in Kinds, r \in Recipients :
        told'[k][r] = IF arrives /\ k = m.kind /\ r = m.to
                      THEN [at |-> now, began |-> pass[w].at, on |-> m.names, id |-> m.id]
                      ELSE told[k][r]
    BY <1>1, <1>2 DEF TrialTypes, Tolds
<1>6. NoneForgotten
    BY <1>4, <1>5 DEF NoneForgotten, Reached
<1>7. RowsReached'
    BY <1>3, <1>6 DEF ReachInv, RowsReached, NoneForgotten
<1>8. WeekOff'
    <2>1. "FINAL" \in Kinds
        BY DEF Kinds
    <2> QED BY <1>4, <1>5, <2>1 DEF ReachInv, WeekOff
<1>9. PICK p \in Passes : p = [pass[w] EXCEPT !.phase = "RECORD", !.mail = {[m EXCEPT !.ok = ok]}]
    <2>1. [m EXCEPT !.ok = ok] \in Tried
        BY <1>2 DEF Tried
    <2> QED BY <1>2, <2>1 DEF Passes, Phases
<1>10. pass' = [pass EXCEPT ![w] = p]
    BY <1>1, <1>9
<1>11. PassReached(p)'
    <2>1. p.phase = "RECORD" /\ p.at = pass[w].at
        BY <1>2, <1>9 DEF Passes
    <2>2. \A x \in p.mail : x.names = m.names /\ x.kind = m.kind /\ x.to = m.to /\ x.ok = ok
        BY <1>2, <1>9 DEF Tried, Passes
    <2>3. ok => Reached(m.kind, m.to)'
        BY <1>1, <1>2, <1>4, <1>5 DEF Reached
    <2> QED BY <1>4, <2>1, <2>2, <2>3 DEF PassReached, MailReached
<1> QED BY <1>3, <1>6, <1>7, <1>8, <1>10, <1>11, ReachStep

LEMMA RecordReaches ==
    ASSUME TrialTypes, TrialTypes', ReachInv, NEW w \in Workers, Record(w) PROVE ReachInv'
<1> DEFINE n(m) == notices[m.kind][m.to]
           result(m) ==
             IF m.ok
             THEN [n(m) EXCEPT !.status = "ACCEPTED", !.accepted = pass[w].at, !.locked = Unset]
             ELSE [n(m) EXCEPT !.status = IF m.attempts >= MaxAttempts THEN "FAILED"
                                          ELSE "PENDING",
                               !.locked = Unset,
                               !.next = NextTry(pass[w].at, m.attempts)]
<1>1. PICK m \in pass[w].mail :
        /\ notices' = IF n(m).status # "NONE" /\ n(m).id = m.id
                      THEN [notices EXCEPT ![m.kind][m.to] = result(m)] ELSE notices
        /\ pass' = [pass EXCEPT ![w] = Onward(@, <<m.kind, m.to, m.id>>)]
    BY DEF Record
<1>2. /\ pass[w] \in Passes /\ PassReached(pass[w]) /\ pass[w].phase = "RECORD"
      /\ m \in Tried /\ m.kind \in Kinds /\ m.to \in Recipients /\ n(m) \in Notices
    BY ReachedNow, MailOf DEF Record, Tried
<1>3. UNCHANGED <<center, told>>
    BY DEF Record
<1>4. m.ok => Reached(m.kind, m.to)
    BY <1>2 DEF PassReached, MailReached
<1>5. result(m).status # "NONE" /\ (result(m).status = "ACCEPTED" => m.ok)
    BY <1>2 DEF Notices
<1>6. \A k \in Kinds, q \in Recipients :
        notices'[k][q] = IF n(m).status # "NONE" /\ n(m).id = m.id /\ k = m.kind /\ q = m.to
                         THEN result(m) ELSE notices[k][q]
    <2> HIDE DEF result
    <2> QED BY <1>1, <1>2 DEF TrialTypes, Tables
<1> HIDE DEF result
<1>7. RowsReached'
    <2>1. RowsReached /\ \A k \in Kinds, r \in Recipients : Reached(k, r)' <=> Reached(k, r)
        BY <1>3 DEF ReachInv, Reached
    <2> QED BY <1>2, <1>4, <1>5, <1>6, <2>1 DEF RowsReached
<1>8. WeekOff' /\ NoneForgotten
    BY <1>3 DEF ReachInv, WeekOff, NoneForgotten, Reached
<1>9. PICK p \in Passes : p = Onward(pass[w], <<m.kind, m.to, m.id>>)
    BY <1>2, OnwardType
<1>10. PassReached(p)'
    <2>1. p.phase \in {"LOOK", "CLAIM"} /\ p.mail = {}
        BY <1>2, <1>9, OnwardType
    <2> QED BY <2>1, IdleReached
<1> QED BY <1>1, <1>3, <1>7, <1>8, <1>9, <1>10, ReachStep

(* All copies accepted means everybody: the rows are there for all of them. *)
LEMMA AcceptedWereReached ==
    ASSUME ReachInv, NEW kind \in Kinds, AllAccepted(kind)
    PROVE  \A r \in Recipients : Reached(kind, r)
<1>1. PICK q \in Recipients : notices[kind][q].status # "NONE"
    BY DEF AllAccepted
<1>2. \A r \in Recipients : notices[kind][r].status # "NONE"
    BY <1>1 DEF ReachInv, RowsReached
<1>3. \A r \in Recipients : notices[kind][r].status = "ACCEPTED"
    BY <1>2 DEF AllAccepted
<1> QED BY <1>3 DEF ReachInv, RowsReached

(* What Look found may be gone when Mark writes it down; who was reached    *)
(* was reached.                                                             *)
LEMMA MarkingReaches ==
    ASSUME TrialTypes, TrialTypes', ReachInv, NEW w \in Workers,
           Look(w) \/ Stamp(w) \/ Mark(w)
    PROVE  ReachInv'
<1>1. /\ pass[w] \in Passes /\ PassReached(pass[w]) /\ pass[w].kind \in Kinds
      /\ pass[w].mail = {}
    BY ReachedNow DEF Look, Stamp, Mark, Passes
<1>2. told' = told /\ notices' = notices
    BY DEF Look, Stamp, Mark
<1>3. /\ NextKind(pass[w]) \in Passes /\ NextKind(pass[w]).mail = {}
      /\ NextKind(pass[w]).phase \in {"LOOK", "FRESH"}
    BY <1>1, NextKindType
<1>4. CASE Look(w)
    <2>1. CASE AllAccepted(pass[w].kind)
        <3>1. PICK p \in Passes : p = [pass[w] EXCEPT !.phase = "STAMP"]
            BY <1>1 DEF Passes, Phases
        <3>2. p.mail = {} /\ p.kind = pass[w].kind
            BY <1>1, <3>1 DEF Passes
        <3>3. \A r \in Recipients : Reached(p.kind, r)'
            BY <1>1, <1>2, <2>1, <3>2, AcceptedWereReached DEF Reached
        <3>4. PassReached(p)'
            BY <3>2, <3>3 DEF PassReached
        <3>5. pass' = [pass EXCEPT ![w] = p] /\ center' = center
            BY <1>4, <2>1, <3>1 DEF Look
        <3> QED BY <1>2, <3>4, <3>5, RowsReachedKept, ReachStep
    <2>2. CASE ~AllAccepted(pass[w].kind)
        <3>1. pass' = [pass EXCEPT ![w] = NextKind(pass[w])] /\ center' = center
            BY <1>4, <2>2 DEF Look
        <3> QED BY <1>2, <1>3, <3>1, QuietReach
    <2> QED BY <2>1, <2>2
<1>5. CASE Stamp(w)
    <2>1. PICK p : /\ pass' = [pass EXCEPT ![w] = p]
                   /\ p.mail = {} /\ p.kind = pass[w].kind
        <3> DEFINE s == IF AcceptedAt(pass[w].kind) = Unset THEN pass[w].at
                        ELSE AcceptedAt(pass[w].kind)
                   p == [pass[w] EXCEPT !.phase = "MARK", !.stamp = s]
        <3>1. pass' = [pass EXCEPT ![w] = p]
            BY <1>5 DEF Stamp
        <3> HIDE DEF s
        <3>2. p.mail = {} /\ p.kind = pass[w].kind
            BY <1>1 DEF Passes
        <3> HIDE DEF p
        <3> QED BY <3>1, <3>2
    <2>2. p \in Passes
        <3>1. pass'[w] = p /\ pass'[w] \in Passes
            BY <2>1 DEF TrialTypes
        <3> QED BY <3>1
    <2>3. \A r \in Recipients : Reached(p.kind, r)'
        BY <1>1, <1>2, <1>5, <2>1 DEF PassReached, Stamp, Reached
    <2>4. PassReached(p)'
        BY <2>1, <2>3 DEF PassReached
    <2>5. center' = center
        BY <1>5 DEF Stamp
    <2> QED BY <1>2, <2>1, <2>2, <2>4, <2>5, RowsReachedKept, ReachStep
<1>6. CASE Mark(w)
    <2>0. PICK kind \in Kinds : kind = pass[w].kind
        BY <1>1
    <2>1. \A r \in Recipients : Reached(kind, r)'
        BY <1>1, <1>2, <1>6, <2>0 DEF PassReached, Mark, Reached
    <2>2. \A k \in Kinds : center'[k] # center[k] => k = kind
        BY <1>1, <1>6, <2>0 DEF Mark, TrialTypes, Centers, Kinds
    <2>3. PICK p \in Passes : p = NextKind(pass[w])
        BY <1>3
    <2>4. pass' = [pass EXCEPT ![w] = p] /\ PassReached(p)'
        BY <1>3, <1>6, <2>3, IdleReached DEF Mark
    <2> QED BY <1>2, <2>1, <2>2, <2>4, RowsReachedKept, ReachStep
<1> QED BY <1>4, <1>5, <1>6

LEMMA OutsideReaches ==
    ASSUME TrialTypes, ReachInv,
           \/ \E e \in Ends \cup {Unset} : Extend(e)
           \/ \E status \in AdminStatuses : SetStatus(status)
           \/ Pay
           \/ Tick
           \/ UNCHANGED vars
    PROVE  ReachInv'
<1>1. UNCHANGED <<notices, pass, told>> /\ \A k \in Kinds : center'[k] = center[k]
    BY DEF Extend, SetStatus, Pay, Tick, TrialTypes, Centers, Kinds, vars
<1>2. RowsReached' /\ WeekOff'
    BY <1>1, RowsReachedKept
<1> QED BY <1>1, <1>2 DEF ReachInv, MarksReached, PassReached, MailReached, Reached

LEMMA StepReach == TrialTypes /\ ReachInv /\ [Next]_vars => ReachInv'
<1> SUFFICES ASSUME TrialTypes, ReachInv, [Next]_vars PROVE ReachInv'
    OBVIOUS
<1>1. TrialTypes'
    BY StepTypes
<1>2. ASSUME NEW w \in Workers, Work(w) PROVE ReachInv'
    <2>1. ASSUME NEW ok \in BOOLEAN, NEW arrives \in BOOLEAN, Send(w, ok, arrives)
          PROVE  ReachInv'
        BY <1>1, <2>1, SendReaches
    <2> QED BY <1>1, <1>2, <2>1, ScanReaches, RowsReach, ClaimReaches, NameReaches,
               RecordReaches, MarkingReaches DEF Work
<1>3. ASSUME NEW w \in Workers, PassFails(w) PROVE ReachInv'
    BY <1>1, <1>3, ScanReaches
<1> QED BY <1>1, <1>2, <1>3, OutsideReaches DEF Next

(* A mail leaves at most this long after its pass began: a pass goes over   *)
(* the centers one after another, and waits for the provider at each mail.  *)
MailsWithin(delay) ==
    \A w \in Workers, ok \in BOOLEAN, arrives \in BOOLEAN :
      Send(w, ok, arrives) => now <= pass[w].at + delay

MailsOnTime(delay) == \A r \in Recipients : Late(told["FINAL"][r]) <= delay

LEMMA StepOnTime ==
    ASSUME NEW delay \in Nat, TrialTypes, MailsOnTime(delay), [Next]_vars,
           [MailsWithin(delay)]_vars
    PROVE  MailsOnTime(delay)'
<1>1. CASE told' = told
    BY <1>1 DEF MailsOnTime, Late
<1>2. ASSUME NEW w \in Workers, NEW ok \in BOOLEAN, NEW arrives \in BOOLEAN,
             Send(w, ok, arrives), ~ UNCHANGED vars
      PROVE  MailsOnTime(delay)'
    <2>1. PICK m \in pass[w].mail :
            told' = IF arrives
                    THEN [told EXCEPT ![m.kind][m.to] =
                            [at |-> now, began |-> pass[w].at, on |-> m.names, id |-> m.id]]
                    ELSE told
        BY <1>2 DEF Send
    <2>2. m.kind \in Kinds /\ m.to \in Recipients /\ now \in Nat /\ pass[w].at \in Nat
        BY MailOf DEF Tried, TrialTypes, Passes
    <2>3. now - pass[w].at <= delay
        <3>1. now <= pass[w].at + delay
            BY <1>2 DEF MailsWithin
        <3> QED BY <2>2, <3>1
    <2>4. ASSUME NEW r \in Recipients PROVE Late(told'["FINAL"][r]) <= delay
        <3>1. \/ told'["FINAL"][r] = told["FINAL"][r]
              \/ told'["FINAL"][r].at = now /\ told'["FINAL"][r].began = pass[w].at
            BY <2>1, <2>2 DEF TrialTypes, Tolds, Kinds
        <3> QED BY <2>3, <3>1 DEF MailsOnTime, Late
    <2> QED BY <2>4 DEF MailsOnTime, Late
<1>3. ASSUME NEW w \in Workers,
             \/ Scan(w) \/ Reset(w) \/ Begin(w) \/ Due(w) \/ Claim(w) \/ Name(w) \/ Record(w)
             \/ Look(w) \/ Stamp(w) \/ Mark(w) \/ Fresh(w) \/ Last(w) \/ DeleteIfStillDue(w)
             \/ PassFails(w)
      PROVE  told' = told
    BY <1>3 DEF Scan, Reset, Begin, Due, Claim, Name, Record, Look, Stamp, Mark, Fresh, Last,
                DeleteIfStillDue, PassFails
<1>4. ASSUME \/ \E e \in Ends \cup {Unset} : Extend(e)
             \/ \E status \in AdminStatuses : SetStatus(status)
             \/ Pay \/ Tick \/ UNCHANGED vars
      PROVE  told' = told
    BY <1>4 DEF Extend, SetStatus, Pay, Tick, vars
<1> QED BY <1>1, <1>2, <1>3, <1>4 DEF Next, Work

(* Nobody loses the center who was not told: a notice of each kind reached  *)
(* every owner and admin, whatever the processes, the admin and the clock   *)
(* do.  And the last one left at least a week before the date it named, but *)
(* for the time a mail may be late in its pass.  It may have told of an     *)
(* earlier cycle (run trial_carried).                                       *)
THEOREM NobodyUntold ==
    ASSUME NEW delay \in Nat
    PROVE  /\ Spec => [][Deleted => \A k \in Kinds, r \in Recipients : Reached(k, r)]_vars
           /\ Spec /\ [][MailsWithin(delay)]_vars =>
                [][Deleted => \A r \in Recipients :
                     LET last == told["FINAL"][r] IN
                     last.at + LastLead <= last.on + delay]_vars
<1>1. ASSUME TrialTypes, ReachInv, [Next]_vars, Deleted
      PROVE  /\ \A k \in Kinds, r \in Recipients : Reached(k, r)
             /\ \A r \in Recipients : told["FINAL"][r].began + LastLead <= told["FINAL"][r].on
    BY <1>1, DeletedIsDue DEF StillDue, ReachInv, MarksReached, WeekOff, Reached, Kinds
<1>2. ASSUME TrialTypes, ReachInv, [Next]_vars
      PROVE  [Deleted => \A k \in Kinds, r \in Recipients : Reached(k, r)]_vars
    BY <1>1, <1>2
<1>3. ASSUME TrialTypes, ReachInv, MailsOnTime(delay), [Next]_vars
      PROVE  [Deleted => \A r \in Recipients :
                LET last == told["FINAL"][r] IN
                last.at + LastLead <= last.on + delay]_vars
    <2> SUFFICES ASSUME Deleted, NEW r \in Recipients
                 PROVE  told["FINAL"][r].at + LastLead <= told["FINAL"][r].on + delay
        OBVIOUS
    <2>1. PICK last \in Received : last = told["FINAL"][r]
        BY <1>3 DEF TrialTypes, Tolds, Kinds
    <2>2. last.at \in Int /\ last.began \in Int /\ last.on \in Int /\ LastLead \in Int
        BY TrialAssumption DEF Received, Dates, Unset
    <2>3. last.began + LastLead <= last.on /\ last.at - last.began <= delay
        BY <1>1, <1>3, <2>1 DEF MailsOnTime, Late
    <2> QED BY <2>1, <2>2, <2>3
<1>4. Spec => []TrialTypes
    BY InitTypes, StepTypes, PTL DEF Spec
<1>5. Spec => []ReachInv
    BY <1>4, InitReach, StepReach, PTL DEF Spec
<1>6. Spec /\ [][MailsWithin(delay)]_vars => []MailsOnTime(delay)
    <2>1. Init => MailsOnTime(delay)
        BY DEF Init, MailsOnTime, Late, NoMail, Kinds
    <2>2. TrialTypes /\ MailsOnTime(delay) /\ [Next]_vars /\ [MailsWithin(delay)]_vars
            => MailsOnTime(delay)'
        BY StepOnTime
    <2> QED BY <1>4, <2>1, <2>2, PTL DEF Spec
<1>7. Spec => [][Deleted => \A k \in Kinds, r \in Recipients : Reached(k, r)]_vars
    BY <1>2, <1>4, <1>5, PTL DEF Spec
<1>8. Spec /\ [][MailsWithin(delay)]_vars =>
        [][Deleted => \A r \in Recipients :
             LET last == told["FINAL"][r] IN
             last.at + LastLead <= last.on + delay]_vars
    BY <1>3, <1>4, <1>5, <1>6, PTL DEF Spec
<1> QED BY <1>7, <1>8

-----------------------------------------------------------------------------
(* The date told has come *)

(* A pass begins a cycle at most this long after it started: it reckons the *)
(* purge date from its own time, and mails other centers in between.        *)
BeginsWithin(delay) == \A w \in Workers : Begin(w) => now <= pass[w].at + delay

(* A date that was named: one that a cycle begun from now on will not       *)
(* overtake, and no later than the date of the cycle under way - but for    *)
(* the delay that cycle was begun with.                                     *)
Near(delay, date) ==
    /\ date <= now + Lead
    /\ center.basis # Unset => date <= center.on + delay

DatesOfCenter ==
    /\ center.on <= now + Lead
    /\ center.basis # Unset => center.on # Unset

(* A scan found the center when its trial had ended long enough ago.        *)
DatesOfPass(delay, p) ==
    /\ p.at <= now
    /\ p.phase = "BEGIN" => p.ends + PurgeAfter <= p.at + Lead
    /\ \A m \in p.mail : m.kind = "FINAL" => Near(delay, m.names)

DatesInv(delay) ==
    /\ DatesOfCenter
    /\ \A r \in Recipients : Near(delay, told["FINAL"][r].on)
    /\ \A w \in Workers : DatesOfPass(delay, pass[w])

LEMMA InitDates ==
    ASSUME NEW delay \in Nat, Init PROVE DatesInv(delay)
<1>1. center.on = Unset /\ center.basis = Unset
    <2>1. PICK e \in Ends : center = NoCycle([status |-> "TRIAL", paid |-> FALSE, ends |-> e,
                               on |-> Unset, basis |-> Unset, FIRST |-> Unset, FINAL |-> Unset])
        BY DEF Init
    <2> QED BY <2>1 DEF NoCycle
<1>2. now = 0 /\ Lead \in Nat /\ \A r \in Recipients : told["FINAL"][r].on = Unset
    BY TrialAssumption DEF Init, NoMail, Kinds
<1>3. \A w \in Workers : DatesOfPass(delay, pass[w])
    BY <1>2 DEF Init, DatesOfPass, Resting
<1> QED BY <1>1, <1>2, <1>3 DEF DatesInv, DatesOfCenter, Near, Unset

(* A step that leaves time and the dates of the center where they are, or   *)
(* moves them on within what DatesInv allows.                               *)
DatesMoveOn(delay) ==
    /\ now <= now'
    /\ center'.basis # Unset =>
         \/ center.basis # Unset /\ center.on <= center'.on
         \/ now + Lead <= center'.on + delay

LEMMA NearKept ==
    ASSUME TrialTypes, TrialTypes', NEW delay \in Nat, DatesMoveOn(delay),
           NEW d \in Dates, Near(delay, d)
    PROVE  Near(delay, d)'
<1>1. /\ now \in Int /\ now' \in Int /\ center.on \in Int /\ center'.on \in Int /\ d \in Int
      /\ Lead \in Int /\ delay \in Int
    BY TrialAssumption DEF TrialTypes, Centers, Dates, Unset
<1>2. d <= now' + Lead
    <2>1. d <= now + Lead
        BY DEF Near
    <2>2. now <= now'
        BY DEF DatesMoveOn
    <2>3. ASSUME NEW i \in Int, NEW j \in Int, NEW k \in Int, NEW l \in Int, i <= j + l, j <= k
          PROVE  i <= k + l
        BY <2>3
    <2> QED BY <1>1, <2>1, <2>2, <2>3
<1>3. ASSUME center'.basis # Unset PROVE d <= center'.on + delay
    <2>1. CASE center.basis # Unset /\ center.on <= center'.on
        <3>1. d <= center.on + delay
            BY <2>1 DEF Near
        <3> QED BY <1>1, <2>1, <3>1
    <2>2. CASE now + Lead <= center'.on + delay
        <3>1. d <= now + Lead
            BY DEF Near
        <3> QED BY <1>1, <2>2, <3>1
    <2> QED BY <1>3, <2>1, <2>2 DEF DatesMoveOn
<1> QED BY <1>2, <1>3 DEF Near

LEMMA ToldKept ==
    ASSUME TrialTypes, TrialTypes', NEW delay \in Nat, DatesInv(delay), DatesMoveOn(delay),
           NEW r \in Recipients, told'["FINAL"][r] = told["FINAL"][r]
    PROVE  Near(delay, told["FINAL"][r].on)'
<1>1. told["FINAL"][r].on \in Dates /\ Near(delay, told["FINAL"][r].on)
    BY DEF TrialTypes, Tolds, Received, Kinds, DatesInv
<1>2. PICK d \in Dates : d = told["FINAL"][r].on
    BY <1>1
<1>3. Near(delay, d)'
    BY <1>1, <1>2, NearKept
<1>4. told'["FINAL"][r].on = d
    BY <1>2
<1> QED BY <1>3, <1>4 DEF Near

(* What a pass holds stays near, whoever moves on. *)
LEMMA PassDatesKept ==
    ASSUME TrialTypes, TrialTypes', NEW delay \in Nat, DatesMoveOn(delay),
           NEW p \in Passes, DatesOfPass(delay, p)
    PROVE  DatesOfPass(delay, p)'
<1>1. p.at <= now'
    <2>1. p.at \in Nat /\ now \in Nat /\ now' \in Nat
        BY DEF Passes, TrialTypes
    <2> QED BY <2>1 DEF DatesOfPass, DatesMoveOn
<1>2. ASSUME NEW m \in p.mail, m.kind = "FINAL" PROVE Near(delay, m.names)'
    <2>1. m.names \in Dates
        BY DEF Passes, Tried
    <2> QED BY <1>2, <2>1, NearKept DEF DatesOfPass
<1> QED BY <1>1, <1>2 DEF DatesOfPass

(* One pass moves on, the others wait. *)
LEMMA DatesStep ==
    ASSUME TrialTypes, TrialTypes', NEW delay \in Nat, DatesInv(delay), DatesMoveOn(delay),
           DatesOfCenter',
           \A r \in Recipients : Near(delay, told["FINAL"][r].on)',
           NEW w \in Workers, NEW p \in Passes, pass' = [pass EXCEPT ![w] = p],
           DatesOfPass(delay, p)'
    PROVE  DatesInv(delay)'
<1>1. ASSUME NEW v \in Workers PROVE DatesOfPass(delay, pass[v])'
    <2>1. CASE v = w
        <3>1. pass'[v] = p
            BY <2>1 DEF TrialTypes
        <3> QED BY <3>1 DEF DatesOfPass, Near
    <2>2. CASE v # w
        <3>1. PICK q \in Passes : q = pass[v] /\ q = pass'[v] /\ DatesOfPass(delay, q)
            BY <2>2 DEF TrialTypes, DatesInv
        <3>2. DatesOfPass(delay, q)'
            BY <3>1, PassDatesKept
        <3> QED BY <3>1, <3>2 DEF DatesOfPass, Near
    <2> QED BY <2>1, <2>2
<1> QED BY <1>1 DEF DatesInv

(* What the invariant says of a pass. *)
LEMMA DatesNow ==
    ASSUME TrialTypes, NEW delay \in Nat, DatesInv(delay), NEW w \in Workers
    PROVE  /\ pass[w] \in Passes /\ DatesOfPass(delay, pass[w])
           /\ pass[w].at \in Nat /\ pass[w].ends \in Nat /\ now \in Nat /\ pass[w].at <= now
           /\ center.on \in Dates /\ DatesOfCenter
<1> QED BY DEF TrialTypes, DatesInv, DatesOfPass, Passes, Centers

(* Steps that leave the dates alone. *)
LEMMA SameDates ==
    ASSUME TrialTypes, NEW delay \in Nat, DatesInv(delay), UNCHANGED <<now, told>>,
           center'.on = center.on, center'.basis = center.basis
    PROVE  DatesMoveOn(delay) /\ DatesOfCenter'
<1>1. now \in Int /\ center.on \in Int
    BY DEF TrialTypes, Centers, Dates, Unset
<1> QED BY <1>1 DEF DatesInv, DatesMoveOn, DatesOfCenter

LEMMA QuietDates ==
    ASSUME TrialTypes, TrialTypes', NEW delay \in Nat, DatesInv(delay), UNCHANGED <<now, told>>,
           center'.on = center.on, center'.basis = center.basis,
           NEW w \in Workers, NEW p \in Passes, pass' = [pass EXCEPT ![w] = p],
           p.at <= now, p.phase # "BEGIN", p.mail \subseteq pass[w].mail
    PROVE  DatesInv(delay)'
<1>1. DatesMoveOn(delay) /\ DatesOfCenter'
    BY SameDates
<1>2. \A r \in Recipients : Near(delay, told["FINAL"][r].on)'
    BY <1>1, ToldKept
<1>3. DatesOfPass(delay, p)
    <2>1. DatesOfPass(delay, pass[w])
        BY DatesNow
    <2> QED BY <2>1 DEF DatesOfPass
<1>4. DatesOfPass(delay, p)'
    BY <1>1, <1>3, PassDatesKept
<1> QED BY <1>1, <1>2, <1>4, DatesStep

LEMMA ScanDates ==
    ASSUME TrialTypes, TrialTypes', NEW delay \in Nat, DatesInv(delay), NEW w \in Workers, Scan(w)
    PROVE  DatesInv(delay)'
<1> DEFINE new == [Resting EXCEPT !.at = now, !.ends = center.ends,
                      !.phase = IF Extended THEN "RESET"
                                ELSE IF center.on = Unset THEN "BEGIN" ELSE "DUE"]
<1>1. pass' = [pass EXCEPT ![w] = new] /\ UNCHANGED <<now, center, told>>
    BY DEF Scan
<1>2. new \in Passes
    <2>1. pass'[w] = new /\ pass'[w] \in Passes
        BY <1>1 DEF TrialTypes
    <2> QED BY <2>1
<1>3. /\ new.at = now /\ new.ends = center.ends /\ new.mail = {}
      /\ new.phase = "BEGIN" => center.on = Unset
    BY DEF Resting
<1> HIDE DEF new
<1>4. PICK p \in Passes : p = new
    BY <1>2
<1>5. now \in Nat /\ p.ends \in Nat /\ PurgeAfter \in Nat /\ Lead \in Nat
    BY TrialAssumption DEF TrialTypes, Passes
<1>6. p.phase = "BEGIN" => p.ends + PurgeAfter <= p.at + Lead
    <2>1. p.phase = "BEGIN" => p.ends <= now - PurgeAfter + Lead
        BY <1>3, <1>4 DEF Scan, Candidate
    <2> QED BY <1>3, <1>4, <1>5, <2>1
<1>7. DatesMoveOn(delay) /\ DatesOfCenter'
    BY <1>1, SameDates
<1>8. DatesOfPass(delay, p)
    BY <1>3, <1>4, <1>5, <1>6 DEF DatesOfPass
<1>9. DatesOfPass(delay, p)'
    BY <1>7, <1>8, PassDatesKept
<1>10. \A r \in Recipients : Near(delay, told["FINAL"][r].on)'
    BY <1>1, <1>7, ToldKept
<1> QED BY <1>1, <1>4, <1>7, <1>9, <1>10, DatesStep

LEMMA QuietWorkDates ==
    ASSUME TrialTypes, TrialTypes', NEW delay \in Nat, DatesInv(delay), NEW w \in Workers,
           \/ Due(w) \/ Record(w) \/ Look(w) \/ Stamp(w) \/ Mark(w) \/ Fresh(w) \/ Last(w)
           \/ DeleteIfStillDue(w) \/ PassFails(w)
    PROVE  DatesInv(delay)'
<1>1. pass[w] \in Passes /\ pass[w].at <= now /\ now \in Nat
    BY DatesNow
<1>2. UNCHANGED <<now, told>> /\ center'.on = center.on /\ center'.basis = center.basis
    <2>1. CASE Mark(w)
        <3>1. pass[w].kind \in {"FIRST", "FINAL"}
            BY <1>1 DEF Passes, Kinds
        <3> QED BY <2>1, <3>1 DEF Mark, TrialTypes, Centers
    <2>2. CASE DeleteIfStillDue(w)
        BY <2>2 DEF DeleteIfStillDue, TrialTypes, Centers
    <2>3. CASE Due(w) \/ Record(w) \/ Look(w) \/ Stamp(w) \/ Fresh(w) \/ Last(w) \/ PassFails(w)
        BY <2>3 DEF Due, Record, Look, Stamp, Fresh, Last, PassFails
    <2> QED BY <2>1, <2>2, <2>3
<1>3. PICK p : /\ pass' = [pass EXCEPT ![w] = p]
               /\ p.at <= now /\ p.phase # "BEGIN" /\ p.mail \subseteq pass[w].mail
    <2> DEFINE Quiet(p) == p.at <= now /\ p.phase # "BEGIN" /\ p.mail \subseteq pass[w].mail
    <2>1. Quiet(Resting)
        BY <1>1 DEF Resting
    <2>2. CASE Due(w)
        <3> DEFINE due == {k \in Kinds \X Recipients : DueFor(notices[k[1]][k[2]], pass[w].at)}
                   todo == {<<k[1], k[2], notices[k[1]][k[2]].id>> : k \in due}
                   p == [pass[w] EXCEPT !.phase = IF todo = {} THEN "LOOK" ELSE "CLAIM",
                                        !.todo = todo, !.kind = "FIRST"]
        <3>1. pass' = [pass EXCEPT ![w] = p]
            BY <2>2 DEF Due, TrialTypes
        <3> HIDE DEF todo
        <3>2. Quiet(p)
            BY <1>1 DEF Passes
        <3> HIDE DEF p
        <3> QED BY <3>1, <3>2
    <2>3. CASE Record(w)
        <3>1. PICK row : pass' = [pass EXCEPT ![w] = Onward(@, row)]
            BY <2>3 DEF Record
        <3>2. Quiet(Onward(pass[w], row))
            BY <1>1, OnwardType
        <3> QED BY <3>1, <3>2
    <2>4. Quiet(NextKind(pass[w]))
        BY <1>1, NextKindType
    <2>5. CASE Look(w)
        <3>1. Quiet([pass[w] EXCEPT !.phase = "STAMP"])
            BY <1>1 DEF Passes
        <3>2. \/ pass' = [pass EXCEPT ![w] = [pass[w] EXCEPT !.phase = "STAMP"]]
              \/ pass' = [pass EXCEPT ![w] = NextKind(pass[w])]
            BY <2>5 DEF Look
        <3> HIDE DEF Quiet
        <3>3. \E p : pass' = [pass EXCEPT ![w] = p] /\ Quiet(p)
            BY <2>4, <3>1, <3>2
        <3> QED BY <3>3 DEF Quiet
    <2>6. CASE Stamp(w)
        <3> DEFINE s == IF AcceptedAt(pass[w].kind) = Unset THEN pass[w].at
                        ELSE AcceptedAt(pass[w].kind)
                   p == [pass[w] EXCEPT !.phase = "MARK", !.stamp = s]
        <3>1. pass' = [pass EXCEPT ![w] = p]
            BY <2>6 DEF Stamp
        <3> HIDE DEF s
        <3>2. Quiet(p)
            BY <1>1 DEF Passes
        <3> HIDE DEF p
        <3> QED BY <3>1, <3>2
    <2>7. CASE Mark(w)
        BY <2>4, <2>7 DEF Mark
    <2>8. CASE Fresh(w)
        <3> DEFINE p == [pass[w] EXCEPT !.phase = AfterDelivery(w)]
        <3>1. pass' = [pass EXCEPT ![w] = Resting] \/ pass' = [pass EXCEPT ![w] = p]
            BY <2>8 DEF Fresh
        <3>2. Quiet(p)
            <4>1. AfterDelivery(w) # "BEGIN"
                BY DEF AfterDelivery
            <4> QED BY <1>1, <4>1 DEF Passes
        <3> HIDE DEF p, Quiet
        <3>3. \E q : pass' = [pass EXCEPT ![w] = q] /\ Quiet(q)
            BY <2>1, <3>1, <3>2
        <3> QED BY <3>3 DEF Quiet
    <2>9. CASE Last(w)
        <3> DEFINE p == [pass[w] EXCEPT !.phase = "DUE", !.final = TRUE]
        <3>1. pass' = [pass EXCEPT ![w] = p]
            BY <2>9 DEF Last, TrialTypes
        <3>2. Quiet(p)
            BY <1>1 DEF Passes
        <3> HIDE DEF p
        <3> QED BY <3>1, <3>2
    <2>10. CASE DeleteIfStillDue(w) \/ PassFails(w)
        BY <2>1, <2>10 DEF DeleteIfStillDue, PassFails
    <2> QED BY <2>2, <2>3, <2>5, <2>6, <2>7, <2>8, <2>9, <2>10
<1>4. p \in Passes
    <2>1. pass'[w] = p /\ pass'[w] \in Passes
        BY <1>3 DEF TrialTypes
    <2> QED BY <2>1
<1> QED BY <1>2, <1>3, <1>4, QuietDates

(* A cycle that ends has no date; one that begins has a date that is no     *)
(* earlier, but for the delay, than any that was named before.              *)
LEMMA CycleDates ==
    ASSUME TrialTypes, TrialTypes', NEW delay \in Nat, DatesInv(delay), BeginsWithin(delay),
           NEW w \in Workers, Reset(w) \/ Begin(w)
    PROVE  DatesInv(delay)'
<1>1. /\ pass[w] \in Passes /\ DatesOfPass(delay, pass[w]) /\ pass[w].at \in Nat
      /\ pass[w].ends \in Nat /\ now \in Nat /\ pass[w].at <= now /\ Lead \in Nat
      /\ PurgeAfter \in Nat
    BY DatesNow, TrialAssumption
<1>2. CASE Reset(w)
    <2>1. center'.on = Unset /\ center'.basis = Unset /\ UNCHANGED <<now, told>>
        BY <1>2, NoCycleIs DEF Reset, TrialTypes
    <2>2. DatesMoveOn(delay) /\ DatesOfCenter'
        BY <1>1, <2>1 DEF DatesMoveOn, DatesOfCenter, Unset
    <2>3. PICK p \in Passes : p = Resting
        BY RestingIs
    <2>4. DatesOfPass(delay, p)'
        BY <1>1, <2>1, <2>3 DEF DatesOfPass, Resting
    <2>5. \A r \in Recipients : Near(delay, told["FINAL"][r].on)'
        BY <2>1, <2>2, ToldKept
    <2> QED BY <1>2, <2>2, <2>3, <2>4, <2>5, DatesStep DEF Reset
<1>3. CASE Begin(w)
    <2>1. PICK p \in Passes : p = [pass[w] EXCEPT !.phase = "DUE"]
        BY <1>1 DEF Passes, Phases
    <2>2. /\ pass' = [pass EXCEPT ![w] = p] /\ UNCHANGED <<now, told>>
          /\ p.phase = "DUE" /\ p.mail = pass[w].mail /\ p.at = pass[w].at
        BY <1>1, <1>3, <2>1 DEF Begin, Passes
    <2>3. CASE center.on # Unset
        BY <1>1, <1>3, <2>2, <2>3, QuietDates DEF Begin
    <2>4. CASE center.on = Unset
        <3>1. center'.on = PurgeDate(w)
            BY <1>3, <2>4, NoCycleIs DEF Begin, TrialTypes, Centers
        <3>2. PurgeDate(w) = pass[w].at + Lead
            <4>1. pass[w].ends + PurgeAfter <= pass[w].at + Lead
                BY <1>1, <1>3 DEF DatesOfPass, Begin
            <4> QED BY <1>1, <4>1 DEF PurgeDate, Later
        <3>3. now <= pass[w].at + delay
            BY <1>3 DEF BeginsWithin
        <3>4. /\ now + Lead <= center'.on + delay
              /\ center'.on <= now + Lead /\ center'.on # Unset
            <4>1. ASSUME NEW i \in Nat, NEW j \in Nat, NEW k \in Nat, i <= j + delay, j <= i
                  PROVE  i + k <= j + k + delay /\ j + k <= i + k /\ j + k # -1
                BY <4>1
            <4> QED BY <1>1, <3>1, <3>2, <3>3, <4>1 DEF Unset
        <3>5. DatesMoveOn(delay) /\ DatesOfCenter'
            BY <1>1, <2>2, <3>4 DEF DatesMoveOn, DatesOfCenter
        <3>6. DatesOfPass(delay, p)
            BY <1>1, <2>2 DEF DatesOfPass
        <3>7. DatesOfPass(delay, p)'
            BY <3>5, <3>6, PassDatesKept
        <3>8. \A r \in Recipients : Near(delay, told["FINAL"][r].on)'
            BY <2>2, <3>5, ToldKept
        <3> QED BY <2>2, <3>5, <3>7, <3>8, DatesStep
    <2> QED BY <2>3, <2>4
<1> QED BY <1>2, <1>3

LEMMA ClaimDates ==
    ASSUME TrialTypes, TrialTypes', NEW delay \in Nat, DatesInv(delay), NEW w \in Workers, Claim(w)
    PROVE  DatesInv(delay)'
<1>1. /\ pass[w] \in Passes /\ pass[w].at <= now /\ now \in Nat
      /\ center.on \in Dates /\ DatesOfCenter
    BY DatesNow
<1>2. UNCHANGED <<now, center, told>>
    BY DEF Claim
<1>3. PICK row \in pass[w].todo :
        \/ \E m : /\ m.names = Unset
                  /\ pass' = [pass EXCEPT ![w] = [pass[w] EXCEPT !.phase = "NAME", !.mail = {m}]]
        \/ pass' = [pass EXCEPT ![w] = Onward(@, row)]
    <2> DEFINE mail(row) == [kind |-> row[1], to |-> row[2], id |-> notices[row[1]][row[2]].id,
                             attempts |-> notices[row[1]][row[2]].attempts + 1, names |-> Unset,
                             ok |-> FALSE]
    <2>1. PICK row \in pass[w].todo :
            \/ pass' = [pass EXCEPT ![w].phase = "NAME", ![w].mail = {mail(row)}]
            \/ pass' = [pass EXCEPT ![w] = Onward(@, row)]
        BY DEF Claim
    <2>2. mail(row).names = Unset
        OBVIOUS
    <2> HIDE DEF mail
    <2>3. pass \in [Workers -> Passes]
        BY DEF TrialTypes
    <2> QED BY <2>1, <2>2, <2>3
<1>4. CASE pass' = [pass EXCEPT ![w] = Onward(@, row)]
    <2>1. PICK p \in Passes : p = Onward(pass[w], row)
        BY <1>1, OnwardType
    <2>2. p.mail = {} /\ p.phase \in {"LOOK", "CLAIM"} /\ p.at = pass[w].at
        BY <1>1, <2>1, OnwardType
    <2> QED BY <1>1, <1>2, <1>4, <2>1, <2>2, QuietDates
<1>5. ASSUME NEW m, m.names = Unset,
             pass' = [pass EXCEPT ![w] = [pass[w] EXCEPT !.phase = "NAME", !.mail = {m}]]
      PROVE  DatesInv(delay)'
    <2>1. PICK p : p = [pass[w] EXCEPT !.phase = "NAME", !.mail = {m}]
        OBVIOUS
    <2>2. p.phase = "NAME" /\ p.mail = {m} /\ p.at = pass[w].at
        BY <1>1, <2>1 DEF Passes
    <2>3. pass' = [pass EXCEPT ![w] = p]
        BY <1>5, <2>1
    <2>4. p \in Passes
        <3>1. pass'[w] = p /\ pass'[w] \in Passes
            BY <2>3 DEF TrialTypes
        <3> QED BY <3>1
    <2>5. Near(delay, Unset)
        BY <1>1, TrialAssumption DEF Near, Dates, Unset
    <2>6. DatesOfPass(delay, p)
        BY <1>1, <1>5, <2>2, <2>5 DEF DatesOfPass
    <2>7. DatesMoveOn(delay) /\ DatesOfCenter'
        BY <1>2, SameDates
    <2>8. DatesOfPass(delay, p)'
        BY <2>4, <2>6, <2>7, PassDatesKept
    <2>9. \A r \in Recipients : Near(delay, told["FINAL"][r].on)'
        BY <1>2, <2>7, ToldKept
    <2> QED BY <2>3, <2>4, <2>7, <2>8, <2>9, DatesStep
<1> QED BY <1>3, <1>4, <1>5

(* The date moves on to a week from the start of the pass, at most: no      *)
(* later than a cycle begun now would set it.                               *)
LEMMA NameDates ==
    ASSUME TrialTypes, TrialTypes', NEW delay \in Nat, DatesInv(delay), NEW w \in Workers, Name(w)
    PROVE  DatesInv(delay)'
<1>1. PICK m \in pass[w].mail :
        /\ center' = [center EXCEPT !.on = NamedDate(w, m.kind)]
        /\ pass' = [pass EXCEPT ![w] =
                      IF NamedDate(w, m.kind) = Unset THEN Onward(@, <<m.kind, m.to, m.id>>)
                      ELSE [@ EXCEPT !.phase = "SEND",
                                     !.mail = {[m EXCEPT !.names = NamedDate(w, m.kind)]}]]
    BY DEF Name
<1>2. /\ pass[w] \in Passes /\ m \in Tried /\ pass[w].at \in Nat /\ now \in Nat
      /\ pass[w].at <= now /\ center.on \in Dates /\ DatesOfCenter
    BY MailOf, DatesNow
<1> DEFINE date == NamedDate(w, m.kind)
<1>3. /\ UNCHANGED <<now, told>> /\ center'.basis = center.basis /\ center'.on = date
    BY <1>1 DEF Name, TrialTypes, Centers
<1>4. /\ date \in Dates /\ center.on <= date /\ date <= now + Lead
    <2>1. date \in Dates /\ center.on <= date
        BY <1>2, NamedDateIs DEF Tried
    <2>2. date \in {center.on, pass[w].at + LastLead}
        BY DEF NamedDate, Later
    <2>3. center.on <= now + Lead
        BY <1>2 DEF DatesOfCenter
    <2>4. pass[w].at + LastLead <= now + Lead
        BY <1>2, TrialAssumption
    <2> QED BY <2>1, <2>2, <2>3, <2>4
<1> HIDE DEF date
<1>5. DatesMoveOn(delay)
    BY <1>2, <1>3, <1>4 DEF DatesMoveOn, DatesOfCenter
<1>6. DatesOfCenter'
    <2>1. center.on # Unset => date # Unset
        BY <1>2, <1>4 DEF Dates, Unset
    <2> QED BY <1>2, <1>3, <1>4, <2>1 DEF DatesOfCenter
<1>7. \A r \in Recipients : Near(delay, told["FINAL"][r].on)'
    BY <1>3, <1>5, ToldKept
<1>8. CASE date = Unset
    <2>1. PICK p \in Passes : p = Onward(pass[w], <<m.kind, m.to, m.id>>)
        BY <1>2, OnwardType
    <2>2. p.mail = {} /\ p.phase \in {"LOOK", "CLAIM"} /\ p.at = pass[w].at
        BY <1>2, <2>1, OnwardType
    <2>3. pass' = [pass EXCEPT ![w] = p]
        BY <1>1, <1>8, <2>1 DEF date
    <2>4. DatesOfPass(delay, p)'
        BY <1>2, <1>3, <2>2 DEF DatesOfPass
    <2> QED BY <1>5, <1>6, <1>7, <2>3, <2>4, DatesStep
<1>9. CASE date # Unset
    <2>1. PICK p \in Passes : p = [pass[w] EXCEPT !.phase = "SEND",
                                                  !.mail = {[m EXCEPT !.names = date]}]
        <3>1. [m EXCEPT !.names = date] \in Tried
            BY <1>2, <1>4 DEF Tried
        <3> QED BY <1>2, <3>1 DEF Passes, Phases
    <2>2. pass' = [pass EXCEPT ![w] = p]
        BY <1>1, <1>9, <2>1 DEF date
    <2>3. p.phase = "SEND" /\ p.at = pass[w].at /\ \A x \in p.mail : x.names = date
        BY <1>2, <2>1 DEF Passes, Tried
    <2>4. date <= now' + Lead /\ date <= center'.on + delay
        <3>1. date \in Int
            BY <1>4 DEF Dates, Unset
        <3> QED BY <1>3, <1>4, <3>1
    <2>5. DatesOfPass(delay, p)'
        BY <1>2, <1>3, <2>3, <2>4 DEF DatesOfPass, Near
    <2> QED BY <1>5, <1>6, <1>7, <2>2, <2>5, DatesStep
<1> QED BY <1>8, <1>9

LEMMA SendDates ==
    ASSUME TrialTypes, TrialTypes', NEW delay \in Nat, DatesInv(delay), NEW w \in Workers,
           NEW ok \in BOOLEAN, NEW arrives \in BOOLEAN, Send(w, ok, arrives)
    PROVE  DatesInv(delay)'
<1>1. PICK m \in pass[w].mail :
        /\ pass' = [pass EXCEPT ![w].phase = "RECORD", ![w].mail = {[m EXCEPT !.ok = ok]}]
        /\ told' = IF arrives
                   THEN [told EXCEPT ![m.kind][m.to] =
                           [at |-> now, began |-> pass[w].at, on |-> m.names, id |-> m.id]]
                   ELSE told
    BY DEF Send
<1>2. /\ pass[w] \in Passes /\ DatesOfPass(delay, pass[w]) /\ now \in Nat /\ center.on \in Dates
      /\ m \in Tried /\ m.kind \in Kinds /\ m.to \in Recipients /\ m.names \in Dates
    BY DatesNow, MailOf DEF Tried
<1>3. UNCHANGED <<now, center>>
    BY DEF Send
<1>4. m.kind = "FINAL" => Near(delay, m.names)
    BY <1>2 DEF DatesOfPass
<1>5. DatesMoveOn(delay) /\ DatesOfCenter'
    BY <1>2, <1>3 DEF DatesMoveOn, DatesInv, DatesOfCenter, Dates, Unset
<1>6. ASSUME NEW r \in Recipients PROVE Near(delay, told["FINAL"][r].on)'
    <2>1. \/ told'["FINAL"][r].on = told["FINAL"][r].on
          \/ m.kind = "FINAL" /\ told'["FINAL"][r].on = m.names
        BY <1>1, <1>2 DEF TrialTypes, Tolds, Kinds
    <2>2. Near(delay, told["FINAL"][r].on)
        BY DEF DatesInv
    <2> QED BY <1>3, <1>4, <2>1, <2>2 DEF Near
<1>7. PICK p \in Passes : p = [pass[w] EXCEPT !.phase = "RECORD", !.mail = {[m EXCEPT !.ok = ok]}]
    <2>1. [m EXCEPT !.ok = ok] \in Tried
        BY <1>2 DEF Tried
    <2> QED BY <1>2, <2>1 DEF Passes, Phases
<1>8. pass' = [pass EXCEPT ![w] = p]
    BY <1>1, <1>7
<1>9. DatesOfPass(delay, p)
    <2>1. p.phase = "RECORD" /\ p.at = pass[w].at
        BY <1>2, <1>7 DEF Passes
    <2>2. \A x \in p.mail : x.names = m.names /\ x.kind = m.kind
        BY <1>2, <1>7 DEF Tried, Passes
    <2> QED BY <1>2, <1>4, <2>1, <2>2 DEF DatesOfPass
<1>10. DatesOfPass(delay, p)'
    BY <1>5, <1>9, PassDatesKept
<1> QED BY <1>5, <1>6, <1>8, <1>10, DatesStep

LEMMA OutsideDates ==
    ASSUME TrialTypes, TrialTypes', NEW delay \in Nat, DatesInv(delay),
           \/ \E e \in Ends \cup {Unset} : Extend(e)
           \/ \E status \in AdminStatuses : SetStatus(status)
           \/ Pay
           \/ Tick
           \/ UNCHANGED vars
    PROVE  DatesInv(delay)'
<1>1. /\ UNCHANGED <<pass, told>> /\ now' \in {now, now + 1}
      /\ center'.on = center.on /\ center'.basis = center.basis
    BY DEF Extend, SetStatus, Pay, Tick, TrialTypes, Centers, vars
<1>2. now \in Int /\ center.on \in Int /\ Lead \in Int
    BY TrialAssumption DEF TrialTypes, Centers, Dates, Unset
<1>3. DatesMoveOn(delay) /\ DatesOfCenter'
    BY <1>1, <1>2 DEF DatesMoveOn, DatesInv, DatesOfCenter
<1>4. \A r \in Recipients : Near(delay, told["FINAL"][r].on)'
    BY <1>1, <1>3, ToldKept
<1>5. ASSUME NEW v \in Workers PROVE DatesOfPass(delay, pass[v])'
    <2>1. PICK q \in Passes : q = pass[v] /\ q = pass'[v] /\ DatesOfPass(delay, q)
        BY <1>1 DEF TrialTypes, DatesInv
    <2>2. DatesOfPass(delay, q)'
        BY <1>3, <2>1, PassDatesKept
    <2> QED BY <2>1, <2>2 DEF DatesOfPass, Near
<1> QED BY <1>3, <1>4, <1>5 DEF DatesInv

LEMMA StepDates ==
    ASSUME NEW delay \in Nat, TrialTypes, DatesInv(delay), [Next]_vars,
           [BeginsWithin(delay)]_vars
    PROVE  DatesInv(delay)'
<1>1. TrialTypes'
    BY StepTypes
<1>2. CASE UNCHANGED vars
    BY <1>1, <1>2, OutsideDates
<1>3. CASE Next /\ BeginsWithin(delay)
    <2>1. ASSUME NEW w \in Workers, Work(w) PROVE DatesInv(delay)'
        <3>1. ASSUME NEW ok \in BOOLEAN, NEW arrives \in BOOLEAN, Send(w, ok, arrives)
              PROVE  DatesInv(delay)'
            BY <1>1, <3>1, SendDates
        <3> QED BY <1>1, <1>3, <2>1, <3>1, ScanDates, CycleDates, QuietWorkDates, ClaimDates,
                   NameDates DEF Work
    <2>2. ASSUME NEW w \in Workers, PassFails(w) PROVE DatesInv(delay)'
        BY <1>1, <2>2, QuietWorkDates
    <2> QED BY <1>1, <1>3, <2>1, <2>2, OutsideDates DEF Next
<1> QED BY <1>2, <1>3

LEMMA DeletedOnDate ==
    ASSUME NEW delay \in Nat, TrialTypes, DatesInv(delay), [Next]_vars, Deleted
    PROVE  \A r \in Recipients : told["FINAL"][r].on <= now + delay
<1>1. PICK w \in Workers : StillDue(pass[w].at)
    BY DeletedIsDue
<1>2. center.on <= pass[w].at /\ pass[w].at <= now /\ center.basis # Unset
    BY <1>1, DatesNow DEF StillDue
<1>3. center.on \in Int /\ pass[w].at \in Int /\ now \in Int
    BY DatesNow DEF Dates, Unset
<1>4. ASSUME NEW r \in Recipients PROVE told["FINAL"][r].on <= now + delay
    <2>1. told["FINAL"][r].on \in Int
        BY DEF TrialTypes, Tolds, Received, Kinds, Dates, Unset
    <2>2. told["FINAL"][r].on <= center.on + delay
        BY <1>2 DEF DatesInv, Near
    <2> QED BY <1>2, <1>3, <2>1, <2>2
<1> QED BY <1>4

(* Nobody loses the center before the date the last notice to him named -   *)
(* of whatever cycle: any number of processes, resets of one under another, *)
(* mails repeated and lost, an admin who extends the trial - but for the    *)
(* time between the start of a pass and the cycle it begins (beginCycle     *)
(* reckons from the start of the pass, which mails other centers first).    *)
THEOREM DateHasCome ==
    ASSUME NEW delay \in Nat
    PROVE  Spec /\ [][BeginsWithin(delay)]_vars =>
             [][Deleted => \A r \in Recipients : told["FINAL"][r].on <= now + delay]_vars
<1>1. ASSUME TrialTypes, DatesInv(delay), [Next]_vars
      PROVE  [Deleted => \A r \in Recipients : told["FINAL"][r].on <= now + delay]_vars
    BY <1>1, DeletedOnDate
<1>2. TrialTypes /\ DatesInv(delay) /\ [Next]_vars /\ [BeginsWithin(delay)]_vars
        => DatesInv(delay)'
    BY StepDates
<1>3. Init => DatesInv(delay)
    BY InitDates
<1>4. Spec => []TrialTypes
    BY InitTypes, StepTypes, PTL DEF Spec
<1>5. Spec /\ [][BeginsWithin(delay)]_vars => []DatesInv(delay)
    BY <1>2, <1>3, <1>4, PTL DEF Spec
<1> QED BY <1>1, <1>4, <1>5, PTL DEF Spec

(* So a system whose passes begin their cycles in the tick they started in  *)
(* deletes as it told, with any number of processes.                        *)
THEOREM DatesAreKept == Spec /\ [][BeginsWithin(0)]_vars => DeletedAsTold
<1>1. ASSUME TrialTypes, ReachInv, DatesInv(0), [Next]_vars
      PROVE  [Deleted => \A r \in Recipients : AsTold(told["FINAL"][r])]_vars
    <2> SUFFICES ASSUME Deleted, NEW r \in Recipients PROVE AsTold(told["FINAL"][r])
        OBVIOUS
    <2>1. PICK last \in Received : last = told["FINAL"][r]
        BY <1>1 DEF TrialTypes, Tolds, Kinds
    <2>2. last.on <= now
        <3>1. last.on <= now + 0 /\ now \in Nat
            BY <1>1, <2>1, DeletedOnDate DEF TrialTypes
        <3> QED BY <3>1
    <2>3. last.on # Unset /\ last.began + LastLead <= last.on
        BY <1>1, <2>1, DeletedIsDue DEF StillDue, ReachInv, MarksReached, WeekOff, Reached, Kinds
    <2>4. last.at + LastLead <= last.on + Late(last)
        BY <2>3, WeekFromMail
    <2> QED BY <2>1, <2>2, <2>3, <2>4 DEF AsTold
<1>2. TrialTypes /\ DatesInv(0) /\ [Next]_vars /\ [BeginsWithin(0)]_vars => DatesInv(0)'
    BY StepDates
<1>3. Init => DatesInv(0)
    BY InitDates
<1>4. Spec => []TrialTypes
    BY InitTypes, StepTypes, PTL DEF Spec
<1>5. Spec => []ReachInv
    BY <1>4, InitReach, StepReach, PTL DEF Spec
<1>6. Spec /\ [][BeginsWithin(0)]_vars => []DatesInv(0)
    BY <1>2, <1>3, <1>4, PTL DEF Spec
<1> QED BY <1>1, <1>4, <1>5, <1>6, PTL DEF Spec, DeletedAsTold
=============================================================================
