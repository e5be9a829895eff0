--------------------------- MODULE CalendarSyncProofs ---------------------------
(***************************************************************************)
(* Theorems about CalendarSync, for every number of workers, browser tabs, *)
(* Google accounts and lessons, and all interleavings of them.             *)
(*                                                                         *)
(* SyncInv is the inductive invariant.  Sane types the rows; the other     *)
(* five parts speak of the time while ~crowded, when every write has been  *)
(* recorded by its own worker before another took the lease:               *)
(*   Alone     who is between a check of the lease and a record, and what  *)
(*             the lease's holder knows of the links;                      *)
(*   Owned     the account the linked events are in, also while the row    *)
(*             does not know it by name;                                   *)
(*   AllShown  what the link table, or a record on its way, says of Google;*)
(*   AllTold   the events no link leads to, against the number told;       *)
(*   AllDone   what a connection that is not due, or a worker about to     *)
(*             say so, has caught up with.                                 *)
(* A lemma per action (XKeeps) proves the parts it can disturb; StillTold, *)
(* StillShown, StillOwned, StillAlone and StillDone are the parts that a   *)
(* step leaves alone.                                                      *)
(***************************************************************************)
EXTENDS CalendarSync, FiniteSetTheorems, TLAPS

-----------------------------------------------------------------------------
(* The inductive invariant *)

LinkRows == [cal : Names \cup {"none"}, content : 0..MaxContent, by : Accounts \cup {NoAccount}]

Phases == {"IDLE", "READ", "NEXT", "DELETE", "UNLINK", "PUT", "LINK", "FAILED", "LAST",
           "FINISH", "FORGET"}

JobRows == [phase : Phases, under : {"ACTIVE", "DISCONNECTING"}, id : 0..MaxConns, epoch : Nat,
            grant : Accounts \cup {NoAccount}, cal : Names, asked : Nat,
            plan : [Lessons -> 0..MaxContent], links : [Lessons -> LinkRows],
            lesson : Lessons \cup {AnyLesson}, auth : BOOLEAN, left : Nat,
            next : Accounts \cup {NoAccount}]

SeenRows == [id : 0..MaxConns, status : Statuses, epoch : Nat,
             key : Accounts \cup {NoAccount}, next : Accounts \cup {NoAccount}]

TabRows == [kind : {"NONE", "LOOK", "DECIDE", "DISCONNECT", "DISMISS", "CALENDAR", "LIST"},
            account : Accounts \cup {NoAccount}, named : BOOLEAN, cal : Names, seen : SeenRows,
            lease : Syncers \cup {NoSyncer},
            verdict : {"NONE", "NEW", "UNKNOWN", "SAME", "OTHER", "ASSUMED", "UNREACHABLE"},
            tries : Nat]

Whole(link) == link # NoLink => link.cal \in Names /\ link.by \in Accounts /\ link.content # 0

ShownPlaces == {p \in Places : shown[p] # 0}

RowsSane ==
    /\ conn \in Conns
    /\ links \in [Lessons -> LinkRows] /\ \A l \in Lessons : Whole(links[l])
    /\ clock \in Nat /\ conn.asked <= clock
    /\ conn.status # "NONE" => conn.id \in 1..MaxConns
    /\ conn.status \in {"NONE", "CLEANUP_FAILED"} => conn.lease = NoSyncer
    /\ conn.status = "NONE" => links = Unlinked /\ conn.grant = NoAccount

GoogleSane ==
    /\ shown \in [Places -> 0..MaxContent] /\ IsFiniteSet(ShownPlaces)
    /\ wanted \in [Lessons -> 0..MaxContent] /\ unmarked \in BOOLEAN
    /\ adrift \subseteq Places /\ crowded \in BOOLEAN
    /\ counted \in Nat /\ mishaps \in 0..MaxSyncFaults

(* What a worker has read is as far as its phase says. *)
JobSane(j) ==
    /\ \A l \in Lessons : Whole(j.links[l])
    /\ j.phase # "IDLE" => j.id \in 1..MaxConns
    /\ j.phase \in {"NEXT", "DELETE", "UNLINK", "PUT", "LINK"} => j.grant \in Accounts
    /\ j.phase \in {"DELETE", "UNLINK"} => j.lesson \in Lessons /\ j.links[j.lesson] # NoLink
    /\ j.phase \in {"PUT", "LINK"} =>
         /\ j.lesson \in Lessons /\ j.plan[j.lesson] # 0
         /\ j.links[j.lesson] # NoLink => j.links[j.lesson].cal = j.cal
    /\ j.under = "DISCONNECTING" => \A l \in Lessons : j.plan[l] = 0
    /\ j.phase \notin {"LAST", "FINISH", "FORGET"} => j.left = 0
    /\ j.phase \in {"LAST", "FINISH"} => j.under = "DISCONNECTING"

JobsSane ==
    /\ job \in [Syncers -> JobRows]
    /\ \A w \in Syncers : JobSane(job[w]) /\ job[w].asked <= clock

TabSane(r) ==
    /\ r.seen.status # "NONE" => r.seen.id # 0
    /\ r.kind \in {"LOOK", "DECIDE"} => r.account \in Accounts
    /\ r.kind = "DECIDE" =>
         /\ r.verdict \in {"SAME", "ASSUMED", "UNREACHABLE", "OTHER"} => r.named
         /\ r.verdict # "NEW" => r.seen.status # "NONE"
         /\ r.verdict = "NEW" => r.seen.status = "NONE"
         /\ r.verdict = "UNREACHABLE" => r.seen.status = "CLEANUP_FAILED"
         /\ r.verdict = "SAME" /\ r.seen.key # NoAccount => r.seen.key = r.account

TabsSane ==
    /\ tab \in [Tabs -> TabRows]
    /\ \A t \in Tabs : TabSane(tab[t]) /\ tab[t].seen.id <= conn.id

Sane == RowsSane /\ GoogleSane /\ JobsSane /\ TabsSane

(* While there was one actor: a worker in the middle of a write is the only   *)
(* one, and nobody else has the lease; what it knows of the links is what the *)
(* table says.                                                                *)
MidAlone(w) ==
    Mid(w) =>
        /\ conn.lease \in {w, NoSyncer} /\ conn.status \notin {"NONE", "CLEANUP_FAILED"}
        /\ job[w].id = conn.id
        /\ \A v \in Syncers \ {w} : ~Mid(v)
        /\ job[w].phase # "FORGET" => job[w].grant = conn.grant /\ job[w].links = links

LeaseAlone(w) ==
    conn.lease = w /\ job[w].phase # "IDLE" =>
        /\ job[w].phase # "FORGET" /\ job[w].id = conn.id /\ job[w].grant = conn.grant
        /\ job[w].phase # "READ" => job[w].links = links
        /\ job[w].phase \in {"LAST", "FINISH"} => job[w].left = Cardinality(Linked)

Alone == ~crowded => \A w \in Syncers : MidAlone(w) /\ LeaseAlone(w)

Forgetting == \E w \in Syncers : job[w].phase = "FORGET"

EventOf(l) == <<links[l].by, links[l].cal, conn.id, l>>

OwnLinks(a) == Forgetting \/ \A l \in Linked : links[l].by = a \/ EventOf(l) \in adrift

Owner(a) == conn.grant \in {NoAccount, a} /\ OwnLinks(a)

(* The row is of this account, and nobody knows it by name. *)
Unnamed(id) == conn.status # "NONE" /\ conn.key = NoAccount /\ conn.id = id

TabOwned(t) ==
    Unnamed(tab[t].seen.id) =>
        /\ tab[t].kind = "DECIDE" /\ tab[t].verdict = "SAME" => Owner(tab[t].account)
        /\ tab[t].kind = "CALENDAR" /\ tab[t].cal = "work" => Owner(WorkOf)

RowOwned ==
    /\ conn.grant # NoAccount => OwnLinks(conn.grant)
    /\ conn.status # "NONE" /\ conn.key # NoAccount => Owner(conn.key)
    /\ Unnamed(conn.id) /\ conn.cal = "work" => Owner(WorkOf)

Owned == ~crowded => RowOwned /\ \A t \in Tabs : TabOwned(t)

WriteShown(w) ==
    /\ job[w].phase = "UNLINK" => shown[Place(w, job[w].links[job[w].lesson].cal)] = 0
    /\ job[w].phase = "LINK" => shown[Place(w, job[w].cal)] = job[w].plan[job[w].lesson]

AllShown ==
    ~crowded => (\A l \in Linked : LinkedIsShown(l)) /\ \A w \in Syncers : WriteShown(w)

Kept == IF Forgetting THEN {} ELSE Events

Orphans == ShownPlaces \ (Kept \cup InHand \cup adrift)

AllTold == ~crowded => Cardinality(Orphans) <= counted

Settled ==
    \A l \in Lessons :
        links[l].content = wanted[l] /\ (wanted[l] # 0 => links[l].cal = conn.cal)

UpToDate(w) ==
    conn.lease = w /\ conn.status = "ACTIVE" /\ job[w].under = "ACTIVE" /\ job[w].phase # "IDLE" =>
        /\ job[w].epoch <= conn.epoch
        /\ job[w].epoch = conn.epoch => job[w].cal = conn.cal
        /\ job[w].phase \notin {"READ", "FAILED"} =>
             job[w].plan = wanted \/ unmarked \/ conn.asked > job[w].asked

NothingDue == ~unmarked /\ conn.status = "ACTIVE" /\ conn.asked = 0

AllDone ==
    ~crowded =>
        /\ NothingDue => Settled /\ \A w \in Syncers : ~Mid(w)
        /\ \A w \in Syncers : UpToDate(w)

SyncInv == Sane /\ Alone /\ Owned /\ AllShown /\ AllTold /\ AllDone

-----------------------------------------------------------------------------
(* Implication *)

LEMMA SaneTypes == ASSUME Sane PROVE SyncTypeOK
<1>1. \A w \in Syncers : Idle.phase # job[w].phase => job[w].id \in 1..MaxConns
    BY DEF Sane, JobsSane, JobSane, Idle
<1>2. links \in [Lessons -> [cal : Names \cup {"none"}, content : 0..MaxContent,
                             by : Accounts \cup {NoAccount}]]
    BY DEF Sane, RowsSane, LinkRows
<1>. QED  BY <1>1, <1>2 DEF Sane, RowsSane, GoogleSane, SyncTypeOK

LEMMA OwnedLinksHold == ASSUME SyncInv PROVE LinksHold
<1>. SUFFICES ASSUME ~crowded, NEW l \in Linked PROVE LinkedIsShown(l) /\ OfItsGrant(l)
    BY DEF LinksHold
<1>1. LinkedIsShown(l)
    BY DEF SyncInv, AllShown
<1>2. OfItsGrant(l)
    BY DEF SyncInv, Owned, RowOwned, OwnLinks, Forgetting, OfItsGrant, EventOf
<1>. QED  BY <1>1, <1>2

LEMMA OrphansAreTold == ASSUME SyncInv PROVE ToldOfWhatIsLeft
<1>. DEFINE loose == {p \in Places : shown[p] # 0} \ (Events \cup InHand \cup adrift)
<1>. SUFFICES ASSUME ~crowded PROVE Cardinality(loose) <= counted
    BY DEF ToldOfWhatIsLeft
<1>1. loose \subseteq Orphans
    BY DEF Orphans, Kept, ShownPlaces
<1>2. IsFiniteSet(Orphans) /\ counted \in Nat
    BY FS_Subset DEF SyncInv, Sane, GoogleSane, Orphans
<1>3. Cardinality(loose) <= Cardinality(Orphans)
    BY <1>1, <1>2, FS_Subset
<1>4. Cardinality(Orphans) <= counted
    BY DEF SyncInv, AllTold
<1>5. Cardinality(loose) \in Nat /\ Cardinality(Orphans) \in Nat
    BY <1>1, <1>2, FS_Subset, FS_CardinalityType
<1>. HIDE DEF loose
<1>. QED  BY <1>2, <1>3, <1>4, <1>5

LEMMA NothingIsLost == ASSUME SyncInv PROVE NoLostChange
    BY DEF SyncInv, AllDone, NothingDue, Settled, NoLostChange

-----------------------------------------------------------------------------
(* The first state *)

LEMMA IdleRow == Idle \in JobRows /\ JobSane(Idle) /\ Idle.phase = "IDLE" /\ Idle.asked = 0
<1>1. NoLink \in LinkRows
    BY SyncAssumption DEF NoLink, LinkRows
<1>2. Unlinked \in [Lessons -> LinkRows] /\ \A l \in Lessons : Unlinked[l] = NoLink
    BY <1>1 DEF Unlinked
<1>3. Idle \in JobRows
    BY <1>2, SyncAssumption DEF Idle, JobRows, Phases, Names
<1>. QED  BY <1>2, <1>3 DEF Idle, JobSane, Whole

LEMMA NoTabRow ==
    /\ NoTab \in TabRows /\ TabSane(NoTab) /\ NoTab.kind = "NONE"
    /\ NoTab.seen.id = 0 /\ NoTab.seen.status = "NONE"
    BY SyncAssumption DEF NoTab, TabRows, SeenRows, Seen, NoConn, TabSane, Names, Statuses

LEMMA NoConnRow ==
    ASSUME NEW id \in 0..MaxConns
    PROVE  /\ NoConn(id) \in Conns
           /\ NoConn(id).id = id /\ NoConn(id).status = "NONE" /\ NoConn(id).key = NoAccount
           /\ NoConn(id).grant = NoAccount /\ NoConn(id).asked = 0
           /\ NoConn(id).lease = NoSyncer /\ NoConn(id).epoch = 0 /\ NoConn(id).cal = "primary"
    BY SyncAssumption DEF NoConn, Conns, Statuses, Names

LEMMA UnlinkedRows ==
    /\ Unlinked \in [Lessons -> LinkRows]
    /\ \A l \in Lessons : Unlinked[l] = NoLink /\ Whole(Unlinked[l])
<1>1. NoLink \in LinkRows
    BY SyncAssumption DEF NoLink, LinkRows
<1>. QED  BY <1>1 DEF Unlinked, Whole

LEMMA Beginning == ASSUME SyncInit PROVE SyncInv
<1>1. RowsSane
    <2>1. 0 \in 0..MaxConns
        BY SyncAssumption
    <2>. QED  BY <2>1, NoConnRow, UnlinkedRows DEF SyncInit, RowsSane
<1>2. GoogleSane
    <2>1. ShownPlaces = {}
        BY DEF SyncInit, ShownPlaces
    <2>2. IsFiniteSet(ShownPlaces)
        BY <2>1, FS_EmptySet
    <2>3. MaxContent \in Nat /\ MaxContent > 0 /\ MaxSyncFaults \in Nat
        BY SyncAssumption
    <2>4. shown \in [Places -> 0..MaxContent]
        BY <2>3 DEF SyncInit
    <2>5. wanted \in [Lessons -> 0..MaxContent]
        BY <2>3 DEF SyncInit
    <2>6. unmarked \in BOOLEAN /\ crowded \in BOOLEAN
        BY DEF SyncInit
    <2>7. adrift \subseteq Places
        BY DEF SyncInit
    <2>8. counted \in Nat /\ mishaps \in 0..MaxSyncFaults
        BY <2>3 DEF SyncInit
    <2>. QED  BY <2>2, <2>4, <2>5, <2>6, <2>7, <2>8 DEF GoogleSane
<1>3. JobsSane
    BY IdleRow DEF SyncInit, JobsSane
<1>4. conn.id = 0 /\ conn.status = "NONE" /\ conn.lease = NoSyncer /\ conn.grant = NoAccount
    BY DEF SyncInit, NoConn
<1>5. TabsSane
    BY <1>4, NoTabRow DEF SyncInit, TabsSane
<1>6. \A w \in Syncers : job[w].phase = "IDLE"
    BY IdleRow DEF SyncInit
<1>7. Linked = {}
    BY UnlinkedRows DEF SyncInit, Linked
<1>8. Alone
    BY <1>6 DEF Alone, MidAlone, LeaseAlone, Mid
<1>9. Owned
    BY <1>4 DEF Owned, RowOwned, TabOwned, Unnamed
<1>10. AllShown
    BY <1>6, <1>7 DEF AllShown, WriteShown
<1>11. AllTold
    <2>1. Orphans = {}
        BY DEF Orphans, ShownPlaces, SyncInit
    <2>. QED  BY <2>1, FS_EmptySet DEF AllTold, SyncInit
<1>12. AllDone
    BY <1>4, <1>6 DEF AllDone, NothingDue, UpToDate
<1>. QED  BY <1>1, <1>2, <1>3, <1>5, <1>8, <1>9, <1>10, <1>11, <1>12 DEF SyncInv, Sane

-----------------------------------------------------------------------------
(* What a step may leave alone *)

LEMMA TabMoves ==
    ASSUME RowsSane, TabsSane, NEW t \in Tabs, NEW r \in TabRows, TabSane(r),
           r.seen.id <= conn'.id, conn.id <= conn'.id, conn'.id \in Nat,
           tab' = [tab EXCEPT ![t] = r]
    PROVE  TabsSane'
<1>1. tab' \in [Tabs -> TabRows]
    BY DEF TabsSane
<1>2. ASSUME NEW u \in Tabs PROVE TabSane(tab'[u]) /\ tab'[u].seen.id <= conn'.id
    <2>1. CASE u = t
        BY <2>1 DEF TabsSane
    <2>2. CASE u # t
        <3>1. tab'[u] = tab[u] /\ TabSane(tab[u]) /\ tab[u].seen.id <= conn.id
            BY <2>2 DEF TabsSane
        <3>2. conn.id \in Nat /\ tab[u].seen.id \in Nat
            BY SyncAssumption DEF RowsSane, Conns, TabsSane, TabRows, SeenRows
        <3>. QED  BY <3>1, <3>2
    <2>. QED  BY <2>1, <2>2
<1>. QED  BY <1>1, <1>2 DEF TabsSane, TabSane

LEMMA TabsStay ==
    ASSUME RowsSane, TabsSane, UNCHANGED tab, conn.id <= conn'.id, conn'.id \in Nat
    PROVE  TabsSane'
<1>1. ASSUME NEW u \in Tabs PROVE tab[u].seen.id <= conn'.id
    <2>1. conn.id \in Nat /\ tab[u].seen.id \in Nat /\ tab[u].seen.id <= conn.id
        BY SyncAssumption DEF RowsSane, Conns, TabsSane, TabRows, SeenRows
    <2>. QED  BY <2>1
<1>. QED  BY <1>1 DEF TabsSane, TabSane

LEMMA JobMoves ==
    ASSUME RowsSane, JobsSane, NEW w \in Syncers, NEW j \in JobRows, JobSane(j), j.asked <= clock',
           clock <= clock', clock' \in Nat, job' = [job EXCEPT ![w] = j]
    PROVE  JobsSane' /\ job'[w] = j /\ \A v \in Syncers \ {w} : job'[v] = job[v]
<1>1. job' \in [Syncers -> JobRows] /\ job'[w] = j /\ \A v \in Syncers \ {w} : job'[v] = job[v]
    BY DEF JobsSane
<1>2. ASSUME NEW v \in Syncers PROVE JobSane(job'[v]) /\ job'[v].asked <= clock'
    <2>1. CASE v = w
        BY <1>1, <2>1
    <2>2. CASE v # w
        <3>1. job'[v] = job[v] /\ JobSane(job[v]) /\ job[v].asked <= clock
            BY <1>1, <2>2 DEF JobsSane
        <3>2. clock \in Nat /\ job[v].asked \in Nat
            BY DEF RowsSane, JobsSane, JobRows
        <3>. QED  BY <3>1, <3>2
    <2>. QED  BY <2>1, <2>2
<1>. QED  BY <1>1, <1>2 DEF JobsSane, JobSane

LEMMA JobsStay ==
    ASSUME RowsSane, JobsSane, UNCHANGED job, clock <= clock', clock' \in Nat
    PROVE  JobsSane'
<1>1. ASSUME NEW v \in Syncers PROVE job[v].asked <= clock'
    <2>1. clock \in Nat /\ job[v].asked \in Nat /\ job[v].asked <= clock
        BY DEF RowsSane, JobsSane, JobRows
    <2>. QED  BY <2>1
<1>. QED  BY <1>1 DEF JobsSane, JobSane

LEMMA GoogleStays ==
    ASSUME GoogleSane, UNCHANGED <<shown, wanted, unmarked, adrift>>, crowded' \in BOOLEAN,
           counted' \in Nat, mishaps' \in 0..MaxSyncFaults
    PROVE  GoogleSane'
    BY DEF GoogleSane, ShownPlaces

LEMMA CallTypes ==
    ASSUME GoogleSane, NEW grant, NEW answer, Call(answer) \/ CallWith(grant, answer)
    PROVE  mishaps' \in 0..MaxSyncFaults
    BY SyncAssumption DEF GoogleSane, Call, CallWith

(* Workers that are not about to record a write, and do not come to be. *)
Recording(j) == j.phase \in {"UNLINK", "LINK", "FORGET"}

JobsQuiet ==
    \A v \in Syncers : job'[v] = job[v] \/ ~(Recording(job[v]) \/ Recording(job'[v]))

LEMMA QuietForgets == ASSUME JobsQuiet PROVE Forgetting' = Forgetting
    BY DEF JobsQuiet, Forgetting, Recording

LEMMA StillTold ==
    ASSUME GoogleSane, AllTold, crowded => crowded', counted' \in Nat, counted <= counted',
           Orphans' \subseteq Orphans
    PROVE  AllTold'
<1>. SUFFICES ASSUME ~crowded' PROVE Cardinality(Orphans') <= counted'
    BY DEF AllTold
<1>1. IsFiniteSet(Orphans) /\ counted \in Nat
    BY FS_Subset DEF GoogleSane, Orphans
<1>2. Cardinality(Orphans') <= Cardinality(Orphans) /\ IsFiniteSet(Orphans')
    BY <1>1, FS_Subset
<1>3. Cardinality(Orphans) <= counted
    BY DEF AllTold
<1>4. Cardinality(Orphans) \in Nat /\ Cardinality(Orphans') \in Nat
    BY <1>1, <1>2, FS_CardinalityType
<1>. QED  BY <1>1, <1>2, <1>3, <1>4

LEMMA StillShown ==
    ASSUME Sane, AllShown, AllTold, UNCHANGED <<links, shown, adrift>>, crowded => crowded',
           counted' \in Nat, counted <= counted', conn'.id = conn.id, JobsQuiet
    PROVE  AllShown' /\ AllTold'
<1>1. Linked' = Linked
    BY DEF Linked
<1>2. ASSUME ~crowded', NEW l \in Linked PROVE LinkedIsShown(l)'
    <2>1. LinkedIsShown(l)
        BY <1>2 DEF AllShown
    <2>2. Writing(l) => Writing(l)'
        BY DEF Writing, JobsQuiet, Recording
    <2>. QED  BY <2>1, <2>2 DEF LinkedIsShown
<1>3. ASSUME ~crowded', NEW w \in Syncers PROVE WriteShown(w)'
    <2>1. WriteShown(w)
        BY <1>3 DEF AllShown
    <2>2. CASE job'[w] = job[w]
        BY <2>1, <2>2 DEF WriteShown, Place
    <2>3. CASE ~Recording(job'[w])
        BY <2>3 DEF WriteShown, Recording
    <2>. QED  BY <2>2, <2>3 DEF JobsQuiet
<1>4. AllShown'
    BY <1>1, <1>2, <1>3 DEF AllShown
<1>5. Events' = Events
    BY <1>1 DEF Events
<1>6. Kept' = Kept
    BY <1>5, QuietForgets DEF Kept
<1>7. InHand \subseteq InHand'
    <2>1. ASSUME NEW w \in Syncers, job[w].phase = "LINK"
          PROVE  job'[w] = job[w]
        BY <2>1 DEF JobsQuiet, Recording
    <2>. QED  BY <2>1 DEF InHand, Place
<1>8. Orphans' \subseteq Orphans
    BY <1>6, <1>7 DEF Orphans, ShownPlaces
<1>9. AllTold'
    BY <1>8, StillTold DEF Sane
<1>. QED  BY <1>4, <1>9

LEMMA OwnLinksStay ==
    ASSUME UNCHANGED <<links, adrift>>, conn'.id = conn.id, JobsQuiet, NEW a, OwnLinks(a)
    PROVE  OwnLinks(a)'
<1>1. Linked' = Linked /\ \A l \in Linked : EventOf(l)' = EventOf(l)
    BY DEF Linked, EventOf
<1>2. CASE Forgetting
    BY <1>2, QuietForgets DEF OwnLinks
<1>3. CASE ~Forgetting
    BY <1>1, <1>3 DEF OwnLinks
<1>. QED  BY <1>2, <1>3

LEMMA StillOwned ==
    ASSUME Owned, UNCHANGED <<links, adrift>>, crowded => crowded',
           conn'.id = conn.id, conn'.grant = conn.grant, conn'.key = conn.key, conn'.cal = conn.cal,
           conn'.status # "NONE" => conn.status # "NONE", JobsQuiet,
           \A t \in Tabs : tab'[t] = tab[t] \/ tab'[t].kind \notin {"DECIDE", "CALENDAR"}
    PROVE  Owned'
<1>. SUFFICES ASSUME ~crowded' PROVE RowOwned' /\ \A t \in Tabs : TabOwned(t)'
    BY DEF Owned
<1>1. \A a : OwnLinks(a) => OwnLinks(a)'
    BY OwnLinksStay
<1>2. \A a : Owner(a) => Owner(a)'
    BY <1>1 DEF Owner
<1>3. RowOwned /\ \A t \in Tabs : TabOwned(t)
    BY DEF Owned
<1>4. RowOwned'
    BY <1>1, <1>2, <1>3 DEF RowOwned, Unnamed
<1>5. ASSUME NEW t \in Tabs PROVE TabOwned(t)'
    <2>1. CASE tab'[t] = tab[t]
        BY <1>2, <1>3, <2>1 DEF TabOwned, Unnamed
    <2>2. CASE tab'[t].kind \notin {"DECIDE", "CALENDAR"}
        BY <2>2 DEF TabOwned
    <2>. QED  BY <2>1, <2>2
<1>. QED  BY <1>4, <1>5

(* A step that changes nothing but a request. *)
LEMMA RequestFrame ==
    ASSUME SyncInv, Sane',
           UNCHANGED <<conn, links, shown, wanted, unmarked, job, adrift, crowded, counted>>
    PROVE  Alone' /\ AllShown' /\ AllTold' /\ AllDone'
<1>0. JobsQuiet
    <2>1. job' = job
        OBVIOUS
    <2>. QED  BY <2>1 DEF JobsQuiet
<1>1. counted \in Nat
    BY DEF SyncInv, Sane, GoogleSane
<1>2. AllShown' /\ AllTold'
    BY <1>0, <1>1, StillShown DEF SyncInv
<1>3. Alone'
    BY DEF SyncInv, Alone, MidAlone, LeaseAlone, Mid, Linked
<1>4. AllDone'
    BY DEF SyncInv, AllDone, NothingDue, Settled, UpToDate, Mid
<1>. QED  BY <1>2, <1>3, <1>4

(* A step of the user on the row: the lease stays or is taken back. *)
LEMMA StillAlone ==
    ASSUME Alone, UNCHANGED <<links, job>>, crowded => crowded',
           conn'.id = conn.id, conn'.grant = conn.grant, conn'.lease \in {conn.lease, NoSyncer},
           conn'.status = conn.status \/ conn'.status \notin {"NONE", "CLEANUP_FAILED"}
    PROVE  Alone'
<1>. SUFFICES ASSUME ~crowded', NEW w \in Syncers PROVE MidAlone(w)' /\ LeaseAlone(w)'
    BY DEF Alone
<1>1. MidAlone(w) /\ LeaseAlone(w)
    BY DEF Alone
<1>2. \A v \in Syncers : Mid(v)' = Mid(v)
    BY DEF Mid
<1>3. MidAlone(w)'
    BY <1>1, <1>2 DEF MidAlone
<1>4. NoSyncer \notin Syncers
    BY SyncAssumption
<1>5. LeaseAlone(w)'
    BY <1>1, <1>4 DEF LeaseAlone, Linked
<1>. QED  BY <1>3, <1>5

-----------------------------------------------------------------------------
(* Requests of the user that only look *)

LEMMA ConnTypes ==
    ASSUME Sane
    PROVE  /\ conn \in Conns /\ conn.id \in 0..MaxConns /\ conn.id \in Nat /\ conn.status \in Statuses
           /\ conn.key \in Accounts \cup {NoAccount} /\ conn.grant \in Accounts \cup {NoAccount}
           /\ conn.next \in Accounts \cup {NoAccount} /\ conn.cal \in Names /\ conn.epoch \in Nat
           /\ conn.asked \in Nat /\ conn.leftover \in Nat /\ conn.lease \in Syncers \cup {NoSyncer}
           /\ conn.lapsed \in BOOLEAN
           /\ clock \in Nat /\ conn.asked <= clock
<1>1. conn \in Conns /\ clock \in Nat /\ conn.asked <= clock
    BY DEF Sane, RowsSane
<1>2. MaxConns \in Nat
    BY SyncAssumption
<1>3. conn.id \in 0..MaxConns
    BY <1>1 DEF Conns
<1>4. conn.id \in Nat
    BY <1>2, <1>3
<1>. QED  BY <1>1, <1>3, <1>4 DEF Conns

LEMMA SeenTypes ==
    ASSUME Sane
    PROVE  /\ Seen(conn) \in SeenRows /\ Seen(conn).id = conn.id /\ Seen(conn).status = conn.status
           /\ Seen(conn).key = conn.key /\ Seen(conn).epoch = conn.epoch
           /\ Seen(conn).next = conn.next
           /\ Seen(conn).status # "NONE" => Seen(conn).id # 0
<1>1. conn.status # "NONE" => conn.id # 0
    BY SyncAssumption DEF Sane, RowsSane
<1>. QED  BY <1>1, ConnTypes DEF Seen, SeenRows

LEMMA RequestMoves ==
    ASSUME SyncInv, NEW t \in Tabs, NEW r \in TabRows, TabSane(r), r.seen.id <= conn.id,
           tab' = [tab EXCEPT ![t] = r], clock' \in Nat, clock <= clock',
           mishaps' \in 0..MaxSyncFaults,
           UNCHANGED <<conn, links, shown, wanted, unmarked, job, adrift, crowded, counted>>,
           ~crowded => TabOwned(t)'
    PROVE  SyncInv'
<1>0. Sane /\ RowsSane /\ GoogleSane /\ JobsSane /\ TabsSane
    BY DEF SyncInv, Sane
<1>1. RowsSane'
    <2>1. conn.asked <= clock'
        BY <1>0, ConnTypes
    <2>. QED  BY <1>0, <2>1 DEF RowsSane
<1>2. GoogleSane'
    BY <1>0, GoogleStays DEF GoogleSane
<1>3. JobsSane'
    BY <1>0, JobsStay
<1>4. TabsSane'
    <2>1. conn'.id = conn.id /\ conn'.id \in Nat /\ conn.id <= conn'.id /\ r.seen.id <= conn'.id
        BY <1>0, ConnTypes
    <2>. QED  BY <1>0, <2>1, TabMoves
<1>5. Sane'
    BY <1>1, <1>2, <1>3, <1>4 DEF Sane
<1>6. Owned'
    <2>. SUFFICES ASSUME ~crowded' PROVE RowOwned' /\ \A u \in Tabs : TabOwned(u)'
        BY DEF Owned
    <2>1. RowOwned /\ \A u \in Tabs : TabOwned(u)
        BY DEF SyncInv, Owned
    <2>2. Forgetting' = Forgetting /\ Linked' = Linked
        BY DEF Forgetting, Linked
    <2>3. \A a : OwnLinks(a)' = OwnLinks(a)
        BY <2>2 DEF OwnLinks, EventOf
    <2>4. \A a : Owner(a)' = Owner(a)
        BY <2>3 DEF Owner
    <2>5. RowOwned'
        BY <2>1, <2>3, <2>4 DEF RowOwned, Unnamed
    <2>6. ASSUME NEW u \in Tabs PROVE TabOwned(u)'
        <3>1. CASE u = t
            BY <3>1
        <3>2. CASE u # t
            <4>1. tab'[u] = tab[u]
                BY <1>0, <3>2 DEF TabsSane
            <4>. QED  BY <2>1, <2>4, <4>1 DEF TabOwned, Unnamed
        <3>. QED  BY <3>1, <3>2
    <2>. QED  BY <2>5, <2>6
<1>. QED  BY <1>5, <1>6, RequestFrame DEF SyncInv

LEMMA ArriveKeeps ==
    ASSUME SyncInv, NEW t \in Tabs, NEW a \in Accounts, NEW named \in BOOLEAN, Arrive(t, a, named)
    PROVE  SyncInv'
<1>. DEFINE r == [NoTab EXCEPT !.kind = "LOOK", !.account = a, !.named = named]
<1>0. Sane /\ GoogleSane
    BY DEF SyncInv, Sane
<1>1. r \in TabRows /\ r.kind = "LOOK" /\ r.account = a
      /\ r.seen.id = 0 /\ r.seen.status = "NONE"
    BY NoTabRow DEF TabRows
<1>2. TabSane(r)
    BY <1>1, NoTabRow DEF TabSane
<1>3. tab' = [tab EXCEPT ![t] = r] /\ clock' = clock + 1
    BY DEF Arrive, Ask
<1>4. mishaps' \in 0..MaxSyncFaults
    BY <1>0, CallTypes DEF Arrive, GoogleSane
<1>5. tab'[t] = r
    BY <1>0, <1>3 DEF Sane, TabsSane
<1>6. TabOwned(t)'
    BY <1>1, <1>5 DEF TabOwned
<1>7. r.seen.id <= conn.id /\ clock' \in Nat /\ clock <= clock'
    BY <1>0, <1>1, <1>3, ConnTypes
<1>8. UNCHANGED <<conn, links, shown, wanted, unmarked, job, adrift, crowded, counted>>
    BY DEF Arrive
<1>. HIDE DEF r
<1>. QED  BY <1>1, <1>2, <1>3, <1>4, <1>6, <1>7, <1>8, RequestMoves

(* Who the row belongs to, when the account that arrives is the same. *)
LEMMA SameOwner ==
    ASSUME SyncInv, ~crowded, conn.status # "NONE", conn.key = NoAccount, NEW a \in Accounts,
           NEW named, NEW answer, Verdict(a, named, answer) = "SAME"
    PROVE  Owner(a)
<1>1. a # NoAccount
    BY SyncAssumption
<1>2. RowOwned
    BY DEF SyncInv, Owned
<1>3. CASE Known(a)
    <2>1. conn.cal = "work" /\ a = WorkOf
        BY <1>1, <1>3 DEF Known, Has
    <2>. QED  BY <1>2, <2>1 DEF RowOwned, Unnamed
<1>4. CASE ~Known(a)
    <2>1. conn.grant = a
        BY <1>4 DEF Verdict
    <2>. QED  BY <1>1, <1>2, <2>1 DEF RowOwned, Owner
<1>. QED  BY <1>3, <1>4

LEMMA LookKeeps ==
    ASSUME SyncInv, NEW t \in Tabs, NEW answer \in Answers, Look(t, answer)
    PROVE  SyncInv'
<1>a. PICK a, named : a = tab[t].account /\ named = tab[t].named
    OBVIOUS
<1>. DEFINE r == [tab[t] EXCEPT !.kind = "DECIDE", !.seen = Seen(conn),
                                !.verdict = Verdict(a, named, answer)]
<1>0. Sane /\ GoogleSane /\ tab \in [Tabs -> TabRows] /\ tab[t] \in TabRows /\ TabSane(tab[t])
    BY DEF SyncInv, Sane, TabsSane
<1>1. a \in Accounts /\ named \in BOOLEAN
    BY <1>0, <1>a DEF TabSane, Look, TabRows
<1>2. /\ Verdict(a, named, answer) \in {"NEW", "UNKNOWN", "SAME", "OTHER", "ASSUMED", "UNREACHABLE"}
      /\ Verdict(a, named, answer) = "NEW" <=> conn.status = "NONE"
      /\ Verdict(a, named, answer) \in {"SAME", "ASSUMED", "UNREACHABLE", "OTHER"} => named
      /\ Verdict(a, named, answer) = "UNREACHABLE" => conn.status = "CLEANUP_FAILED"
    BY DEF Verdict
<1>2a. Verdict(a, named, answer) = "SAME" /\ conn.key # NoAccount => conn.key = a
    BY DEF Verdict, Known
<1>3. /\ r \in TabRows /\ r.kind = "DECIDE" /\ r.seen = Seen(conn) /\ r.named = named
      /\ r.account = a /\ r.verdict = Verdict(a, named, answer)
    BY <1>0, <1>2, <1>a, SeenTypes DEF TabRows
<1>4. r.seen.id = conn.id /\ r.seen.status = conn.status /\ r.seen.key = conn.key
    BY <1>0, <1>3, SeenTypes
<1>5. tab' = [tab EXCEPT ![t] = r]
    BY <1>0, <1>a DEF Look
<1>6. tab'[t] = r
    BY <1>0, <1>5
<1>. HIDE DEF r
<1>7. TabSane(r)
    BY <1>0, <1>1, <1>2, <1>2a, <1>3, <1>4, SeenTypes DEF TabSane
<1>8. mishaps' \in 0..MaxSyncFaults
    BY <1>0, CallTypes DEF Look, GoogleSane
<1>9. UNCHANGED <<conn, links, shown, wanted, unmarked, job, clock, adrift, crowded, counted>>
    BY DEF Look
<1>10. ASSUME ~crowded PROVE TabOwned(t)'
    <2>. SUFFICES ASSUME conn.status # "NONE", conn.key = NoAccount, r.verdict = "SAME"
                  PROVE  Owner(a)'
        BY <1>3, <1>6, <1>9 DEF TabOwned, Unnamed
    <2>1. Owner(a)
        BY <1>1, <1>3, <1>10, SameOwner
    <2>2. Forgetting' = Forgetting /\ Linked' = Linked
        BY <1>9 DEF Forgetting, Linked
    <2>. QED  BY <1>9, <2>1, <2>2 DEF Owner, OwnLinks, EventOf
<1>11. clock' \in Nat /\ clock <= clock' /\ r.seen.id <= conn.id
    BY <1>0, <1>4, <1>9, ConnTypes
<1>. QED  BY <1>3, <1>5, <1>7, <1>8, <1>9, <1>10, <1>11, RequestMoves

LEMMA LookAgainKeeps ==
    ASSUME SyncInv, NEW t \in Tabs, LookAgain(t)
    PROVE  SyncInv'
<1>. DEFINE r == IF tab[t].tries = 2 THEN NoTab
                 ELSE [tab[t] EXCEPT !.kind = "LOOK", !.tries = tab[t].tries + 1]
<1>0. /\ Sane /\ GoogleSane /\ tab \in [Tabs -> TabRows] /\ tab[t] \in TabRows /\ TabSane(tab[t])
      /\ tab[t].seen.id <= conn.id
    BY DEF SyncInv, Sane, TabsSane
<1>1. r \in TabRows /\ r.kind \in {"NONE", "LOOK"} /\ TabSane(r) /\ r.seen.id <= conn.id
    <2>1. CASE tab[t].tries = 2
        BY <1>0, <2>1, NoTabRow, ConnTypes
    <2>2. CASE tab[t].tries # 2
        <3>1. /\ r \in TabRows /\ r.kind = "LOOK" /\ r.account = tab[t].account
              /\ r.seen = tab[t].seen
            <4>1. tab[t].tries + 1 \in Nat
                BY <1>0 DEF TabRows
            <4>. QED  BY <1>0, <2>2, <4>1 DEF TabRows
        <3>2. tab[t].account \in Accounts
            BY <1>0 DEF LookAgain, TabSane
        <3>. QED  BY <1>0, <3>1, <3>2 DEF TabSane
    <2>. QED  BY <2>1, <2>2
<1>2. tab' = [tab EXCEPT ![t] = r]
    BY DEF LookAgain
<1>3. tab'[t] = r
    BY <1>0, <1>2
<1>. HIDE DEF r
<1>4. TabOwned(t)'
    BY <1>1, <1>3 DEF TabOwned
<1>5. UNCHANGED <<conn, links, shown, wanted, unmarked, job, clock, adrift, crowded, counted, mishaps>>
    BY DEF LookAgain
<1>6. clock' \in Nat /\ clock <= clock' /\ mishaps' \in 0..MaxSyncFaults
    BY <1>0, <1>5, ConnTypes DEF GoogleSane
<1>. QED  BY <1>1, <1>2, <1>4, <1>5, <1>6, RequestMoves

(* The request is over. *)
LEMMA UnverifiedKeeps ==
    ASSUME SyncInv, NEW t \in Tabs, Unverified(t)
    PROVE  SyncInv'
<1>0. Sane /\ GoogleSane /\ tab \in [Tabs -> TabRows]
    BY DEF SyncInv, Sane, TabsSane
<1>1. tab' = [tab EXCEPT ![t] = NoTab]
      /\ UNCHANGED <<conn, links, shown, wanted, unmarked, job, clock, adrift, crowded, counted, mishaps>>
    BY DEF Unverified, Decides
<1>2. tab'[t] = NoTab
    BY <1>0, <1>1
<1>3. TabOwned(t)'
    BY <1>2, NoTabRow DEF TabOwned
<1>4. clock' \in Nat /\ clock <= clock' /\ mishaps' \in 0..MaxSyncFaults /\ NoTab.seen.id <= conn.id
    BY <1>0, <1>1, NoTabRow, ConnTypes DEF GoogleSane
<1>. QED  BY <1>1, <1>3, <1>4, NoTabRow, RequestMoves

LEMMA AskedKeeps ==
    ASSUME SyncInv, NEW t \in Tabs, NEW r \in TabRows, r.seen = Seen(conn),
           r.kind \in {"DISMISS", "DISCONNECT", "CALENDAR"}, Ask(t, r),
           UNCHANGED <<conn, links, shown, wanted, unmarked, job, adrift, crowded, counted, mishaps>>,
           r.kind = "CALENDAR" => conn.status = "ACTIVE" /\ Has(conn.grant, r.cal)
    PROVE  SyncInv'
<1>0. Sane /\ GoogleSane /\ tab \in [Tabs -> TabRows]
    BY DEF SyncInv, Sane, TabsSane
<1>1. r.seen.id = conn.id /\ TabSane(r)
    BY <1>0, SeenTypes DEF TabSane
<1>2. tab' = [tab EXCEPT ![t] = r] /\ clock' = clock + 1
    BY DEF Ask
<1>3. tab'[t] = r
    BY <1>0, <1>2
<1>4. ASSUME ~crowded PROVE TabOwned(t)'
    <2>. SUFFICES ASSUME r.kind = "CALENDAR", r.cal = "work" PROVE Owner(WorkOf)'
        BY <1>1, <1>3 DEF TabOwned
    <2>1. conn.grant = WorkOf
        BY DEF Has
    <2>2. Owner(WorkOf)
        BY <1>4, <2>1, SyncAssumption DEF SyncInv, Owned, RowOwned, Owner
    <2>3. Forgetting' = Forgetting /\ Linked' = Linked
        BY DEF Forgetting, Linked
    <2>. QED  BY <2>2, <2>3 DEF Owner, OwnLinks, EventOf
<1>5. clock' \in Nat /\ clock <= clock' /\ mishaps' \in 0..MaxSyncFaults /\ r.seen.id <= conn.id
    BY <1>0, <1>1, <1>2, ConnTypes DEF GoogleSane
<1>. QED  BY <1>1, <1>2, <1>4, <1>5, RequestMoves

LEMMA AskDisconnectKeeps ==
    ASSUME SyncInv, NEW t \in Tabs, AskDisconnect(t)
    PROVE  SyncInv'
<1>. DEFINE kind == IF conn.status = "CLEANUP_FAILED" THEN "DISMISS" ELSE "DISCONNECT"
            r == [NoTab EXCEPT !.seen = Seen(conn), !.kind = kind]
<1>1. r \in TabRows /\ r.seen = Seen(conn) /\ r.kind \in {"DISMISS", "DISCONNECT"}
    BY NoTabRow, SeenTypes DEF TabRows, SyncInv
<1>2. Ask(t, r)
    BY DEF AskDisconnect
<1>3. UNCHANGED <<conn, links, shown, wanted, unmarked, job, adrift, crowded, counted, mishaps>>
    BY DEF AskDisconnect
<1>. HIDE DEF r
<1>. QED  BY <1>1, <1>2, <1>3, AskedKeeps

LEMMA AskDismissKeeps ==
    ASSUME SyncInv, NEW t \in Tabs, AskDismiss(t)
    PROVE  SyncInv'
<1>. DEFINE r == [NoTab EXCEPT !.seen = Seen(conn), !.kind = "DISMISS"]
<1>1. r \in TabRows /\ r.seen = Seen(conn) /\ r.kind = "DISMISS"
    BY NoTabRow, SeenTypes DEF TabRows, SyncInv
<1>2. Ask(t, r)
    BY DEF AskDismiss
<1>3. UNCHANGED <<conn, links, shown, wanted, unmarked, job, adrift, crowded, counted, mishaps>>
    BY DEF AskDismiss
<1>. HIDE DEF r
<1>. QED  BY <1>1, <1>2, <1>3, AskedKeeps

LEMMA AskCalendarKeeps ==
    ASSUME SyncInv, NEW t \in Tabs, NEW name \in Names, AskCalendar(t, name)
    PROVE  SyncInv'
<1>. DEFINE r == [NoTab EXCEPT !.seen = Seen(conn), !.kind = "CALENDAR", !.cal = name]
<1>1. r \in TabRows /\ r.seen = Seen(conn) /\ r.kind = "CALENDAR" /\ r.cal = name
    BY NoTabRow, SeenTypes DEF TabRows, SyncInv
<1>2. Ask(t, r) /\ conn.status = "ACTIVE" /\ Has(conn.grant, r.cal)
    BY <1>1 DEF AskCalendar
<1>3. UNCHANGED <<conn, links, shown, wanted, unmarked, job, adrift, crowded, counted, mishaps>>
    BY DEF AskCalendar
<1>. HIDE DEF r
<1>. QED  BY <1>1, <1>2, <1>3, AskedKeeps

-----------------------------------------------------------------------------
(* The row changes and the links stay *)

(* Nothing that is due is forgotten, and a worker that still holds the row   *)
(* finds the calendar it read, or an epoch past its own.                     *)
LEMMA StillDone ==
    ASSUME Sane, AllDone, UNCHANGED <<links, job>>, crowded => crowded',
           NothingDue' => NothingDue /\ conn'.cal = conn.cal /\ wanted' = wanted,
           \A w \in Syncers : conn'.lease = w /\ conn'.status = "ACTIVE" =>
              /\ conn.lease = w /\ conn.status = "ACTIVE"
              /\ conn'.epoch \in Nat
              /\ \/ conn'.epoch = conn.epoch /\ conn'.cal = conn.cal
                 \/ conn'.epoch > conn.epoch
              /\ \/ unmarked'
                 \/ conn'.asked = clock + 1
                 \/ ~unmarked /\ wanted' = wanted /\ conn'.asked = conn.asked
    PROVE  AllDone'
<1>. SUFFICES ASSUME ~crowded'
              PROVE  /\ NothingDue' => Settled' /\ \A w \in Syncers : ~Mid(w)'
                     /\ \A w \in Syncers : UpToDate(w)'
    BY DEF AllDone
<1>1. /\ NothingDue => Settled /\ \A w \in Syncers : ~Mid(w)
      /\ \A w \in Syncers : UpToDate(w)
    BY DEF AllDone
<1>2. NothingDue' => Settled' /\ \A w \in Syncers : ~Mid(w)'
    BY <1>1 DEF Settled, Mid
<1>3. ASSUME NEW w \in Syncers, conn'.lease = w, conn'.status = "ACTIVE", job[w].under = "ACTIVE",
             job[w].phase # "IDLE"
      PROVE  /\ job[w].epoch <= conn'.epoch
             /\ job[w].epoch = conn'.epoch => job[w].cal = conn'.cal
             /\ job[w].phase \notin {"READ", "FAILED"} =>
                  job[w].plan = wanted' \/ unmarked' \/ conn'.asked > job[w].asked
    <2>1. /\ job[w].epoch <= conn.epoch
          /\ job[w].epoch = conn.epoch => job[w].cal = conn.cal
          /\ job[w].phase \notin {"READ", "FAILED"} =>
               job[w].plan = wanted \/ unmarked \/ conn.asked > job[w].asked
        BY <1>1, <1>3 DEF UpToDate
    <2>2. /\ job[w].epoch \in Nat /\ job[w].asked \in Nat /\ job[w].asked <= clock
          /\ conn.epoch \in Nat /\ clock \in Nat
        BY ConnTypes DEF Sane, JobsSane, JobRows
    <2>3. /\ conn'.epoch \in Nat
          /\ \/ conn'.epoch = conn.epoch /\ conn'.cal = conn.cal
             \/ conn'.epoch > conn.epoch
        BY <1>3
    <2>4. \/ unmarked'
          \/ conn'.asked = clock + 1
          \/ ~unmarked /\ wanted' = wanted /\ conn'.asked = conn.asked
        BY <1>3
    <2>5. /\ job[w].epoch <= conn'.epoch
          /\ job[w].epoch = conn'.epoch => job[w].cal = conn'.cal
        BY <2>1, <2>2, <2>3
    <2>6. conn'.asked = clock + 1 => conn'.asked > job[w].asked
        BY <2>2
    <2>. QED  BY <2>1, <2>4, <2>5, <2>6
<1>4. \A w \in Syncers : UpToDate(w)'
    BY <1>3 DEF UpToDate
<1>. QED  BY <1>2, <1>4

(* A step of the user, or of the lease, on the row of the connection. *)
LEMMA RowMoves ==
    ASSUME SyncInv, RowsSane', TabsSane', UNCHANGED <<links, shown, adrift, job, crowded, counted>>,
           wanted' \in [Lessons -> 0..MaxContent], unmarked' \in BOOLEAN,
           mishaps' \in 0..MaxSyncFaults, clock <= clock',
           conn'.id = conn.id, conn'.grant = conn.grant, conn'.lease \in {conn.lease, NoSyncer},
           conn'.status = conn.status \/ conn'.status \notin {"NONE", "CLEANUP_FAILED"},
           Owned', AllDone'
    PROVE  SyncInv'
<1>1. RowsSane /\ GoogleSane /\ JobsSane /\ TabsSane
    BY DEF SyncInv, Sane
<1>2. GoogleSane'
    BY <1>1 DEF GoogleSane, ShownPlaces
<1>3. JobsSane'
    <2>1. clock' \in Nat
        BY DEF RowsSane
    <2>. QED  BY <1>1, <2>1, JobsStay
<1>4. Sane'
    BY <1>2, <1>3 DEF Sane
<1>5. JobsQuiet
    BY DEF JobsQuiet
<1>6. counted \in Nat
    BY <1>1 DEF GoogleSane
<1>7. AllShown' /\ AllTold'
    BY <1>5, <1>6, StillShown DEF SyncInv
<1>8. Alone'
    BY StillAlone DEF SyncInv
<1>. QED  BY <1>4, <1>7, <1>8 DEF SyncInv

LEMMA LapseKeeps ==
    ASSUME SyncInv, Lapse
    PROVE  SyncInv'
<1>1. Sane /\ RowsSane /\ GoogleSane /\ TabsSane
    BY DEF SyncInv, Sane
<1>2. /\ conn' = [conn EXCEPT !.lapsed = TRUE]
      /\ UNCHANGED <<links, shown, wanted, unmarked, job, tab, clock, adrift, crowded, counted>>
    BY DEF Lapse
<1>3. /\ conn' \in Conns
      /\ conn'.id = conn.id /\ conn'.grant = conn.grant /\ conn'.lease = conn.lease
      /\ conn'.status = conn.status /\ conn'.key = conn.key /\ conn'.cal = conn.cal
      /\ conn'.epoch = conn.epoch /\ conn'.asked = conn.asked
    BY <1>1, <1>2, ConnTypes DEF Conns
<1>4. mishaps' \in 0..MaxSyncFaults
    BY <1>1, CallTypes DEF Lapse, GoogleSane
<1>5. RowsSane'
    BY <1>1, <1>2, <1>3 DEF RowsSane
<1>6. TabsSane'
    BY <1>1, <1>2, <1>3, ConnTypes, TabsStay
<1>7. JobsQuiet
    BY <1>2 DEF JobsQuiet
<1>8. Owned'
    BY <1>2, <1>3, <1>7, StillOwned DEF SyncInv
<1>9. AllDone'
    BY <1>1, <1>2, <1>3, ConnTypes, StillDone DEF SyncInv, NothingDue
<1>. QED  BY <1>1, <1>2, <1>3, <1>4, <1>5, <1>6, <1>8, <1>9, ConnTypes, RowMoves DEF GoogleSane

LEMMA ChangeKeeps ==
    ASSUME SyncInv, NEW l \in Lessons, NEW content \in 0..MaxContent, Change(l, content)
    PROVE  SyncInv'
<1>1. Sane /\ RowsSane /\ GoogleSane /\ TabsSane
    BY DEF SyncInv, Sane
<1>2. /\ clock' = clock + 1 /\ unmarked' = TRUE
      /\ UNCHANGED <<conn, links, shown, job, tab, adrift, crowded, counted, mishaps>>
    BY DEF Change, Ask
<1>3. wanted' \in [Lessons -> 0..MaxContent]
    BY <1>1 DEF Change, GoogleSane
<1>4. clock' \in Nat /\ clock <= clock' /\ conn.asked <= clock'
    BY <1>1, <1>2, ConnTypes
<1>5. RowsSane'
    BY <1>1, <1>2, <1>4 DEF RowsSane
<1>6. conn'.id = conn.id /\ conn'.id \in Nat /\ conn.id <= conn'.id
    BY <1>1, <1>2, ConnTypes
<1>7. TabsSane'
    BY <1>1, <1>2, <1>6, TabsStay
<1>8. JobsQuiet
    BY <1>2 DEF JobsQuiet
<1>9. Owned'
    BY <1>2, <1>8, StillOwned DEF SyncInv
<1>10. AllDone'
    BY <1>1, <1>2, ConnTypes, StillDone DEF SyncInv, NothingDue
<1>. QED  BY <1>1, <1>2, <1>3, <1>4, <1>5, <1>7, <1>9, <1>10, RowMoves DEF GoogleSane

(* syncRequestedAt is the newest moment there is. *)
LEMMA AskedNow ==
    ASSUME SyncInv, clock' = clock + 1, conn' = Requested \/ conn' = conn,
           conn' = conn => conn.status # "ACTIVE",
           UNCHANGED <<links, shown, wanted, job, tab, adrift, crowded, counted, mishaps>>,
           unmarked' = FALSE \/ unmarked' = unmarked
    PROVE  SyncInv'
<1>1. Sane /\ RowsSane /\ GoogleSane /\ TabsSane
    BY DEF SyncInv, Sane
<1>2. /\ conn' \in Conns
      /\ conn'.id = conn.id /\ conn'.grant = conn.grant /\ conn'.lease = conn.lease
      /\ conn'.status = conn.status /\ conn'.key = conn.key /\ conn'.cal = conn.cal
      /\ conn'.epoch = conn.epoch
      /\ conn'.asked = clock + 1 \/ conn'.asked = conn.asked
      /\ conn'.status = "ACTIVE" => conn'.asked = clock + 1
    <2>1. clock + 1 \in Nat
        BY <1>1, ConnTypes
    <2>2. CASE conn' = conn
        BY <1>1, <2>2, ConnTypes
    <2>3. CASE conn' = Requested
        BY <1>1, <2>1, <2>3, ConnTypes DEF Requested, Conns
    <2>. QED  BY <2>2, <2>3
<1>3. clock' \in Nat /\ clock <= clock' /\ conn'.asked <= clock' /\ conn'.id \in Nat
      /\ conn.id <= conn'.id
    BY <1>1, <1>2, ConnTypes
<1>4. RowsSane'
    BY <1>1, <1>2, <1>3 DEF RowsSane
<1>5. TabsSane'
    BY <1>1, <1>3, TabsStay
<1>6. JobsQuiet
    BY DEF JobsQuiet
<1>7. Owned'
    BY <1>2, <1>6, StillOwned DEF SyncInv
<1>8. ~NothingDue'
    BY <1>1, <1>2, ConnTypes DEF NothingDue
<1>9. AllDone'
    BY <1>1, <1>2, <1>8, ConnTypes, StillDone DEF SyncInv
<1>10. unmarked' \in BOOLEAN /\ wanted' \in [Lessons -> 0..MaxContent] /\ mishaps' \in 0..MaxSyncFaults
    BY <1>1 DEF GoogleSane
<1>. QED  BY <1>2, <1>3, <1>4, <1>5, <1>7, <1>9, <1>10, RowMoves

LEMMA RequestedIsNew ==
    ASSUME Sane
    PROVE  Requested # conn
<1>1. Requested.asked = clock + 1
    BY ConnTypes DEF Requested, Conns
<1>. QED  BY <1>1, ConnTypes

LEMMA MarkDirtyKeeps ==
    ASSUME SyncInv, MarkDirty
    PROVE  SyncInv'
<1>1. CASE conn.status = "ACTIVE"
    <2>1. conn' = Requested /\ conn' # conn
        BY <1>1, RequestedIsNew DEF MarkDirty, SyncInv
    <2>. QED  BY <2>1, AskedNow DEF MarkDirty
<1>2. CASE conn.status # "ACTIVE"
    BY <1>2, AskedNow DEF MarkDirty
<1>. QED  BY <1>1, <1>2

LEMMA RequestSyncKeeps ==
    ASSUME SyncInv, RequestSync
    PROVE  SyncInv'
<1>1. conn' = Requested /\ conn' # conn
    BY RequestedIsNew DEF RequestSync, SyncInv
<1>. QED  BY <1>1, AskedNow DEF RequestSync

-----------------------------------------------------------------------------
(* The user's writes to the row *)

(* The request that ends is blank. *)
LEMMA TabEnds ==
    ASSUME Sane, NEW t \in Tabs, tab' = [tab EXCEPT ![t] = NoTab], conn.id <= conn'.id,
           conn'.id \in Nat
    PROVE  /\ TabsSane' /\ tab'[t] = NoTab /\ TabOwned(t)'
           /\ \A u \in Tabs \ {t} : tab'[u] = tab[u]
           /\ \A u \in Tabs : tab'[u] = tab[u] \/ tab'[u].kind \notin {"DECIDE", "CALENDAR"}
<1>1. tab'[t] = NoTab /\ \A u \in Tabs \ {t} : tab'[u] = tab[u]
    BY DEF Sane, TabsSane
<1>2. NoTab.seen.id <= conn'.id
    BY NoTabRow
<1>3. TabsSane'
    BY <1>2, NoTabRow, TabMoves DEF Sane
<1>4. TabOwned(t)'
    BY <1>1, NoTabRow DEF TabOwned
<1>. QED  BY <1>1, <1>3, <1>4, NoTabRow

LEMMA NextEpochType ==
    ASSUME NEW c, c.epoch \in Nat
    PROVE  NextEpoch(c) \in Nat
    BY DEF NextEpoch

LEMMA DisconnectKeeps ==
    ASSUME SyncInv, NEW t \in Tabs, Disconnect(t)
    PROVE  SyncInv'
<1>1. Sane /\ RowsSane /\ GoogleSane
    BY DEF SyncInv, Sane
<1>2. /\ tab' = [tab EXCEPT ![t] = NoTab]
      /\ UNCHANGED <<links, shown, wanted, unmarked, job, clock, adrift, crowded, counted, mishaps>>
    BY DEF Disconnect
<1>3. /\ conn' \in Conns
      /\ conn'.id = conn.id /\ conn'.grant = conn.grant /\ conn'.lease = conn.lease
      /\ conn'.key = conn.key /\ conn'.cal = conn.cal
      /\ conn'.asked \in {conn.asked, 0}
      /\ \/ conn' = conn
         \/ conn.status # "NONE" /\ conn'.status = "DISCONNECTING"
    <2>1. CASE Exists(tab[t].seen.id)
        <3>1. NextEpoch(tab[t].seen) \in Nat
            BY <1>1, NextEpochType DEF Sane, TabsSane, TabRows, SeenRows
        <3>2. conn' = [conn EXCEPT !.status = "DISCONNECTING", !.epoch = NextEpoch(tab[t].seen),
                         !.asked = 0, !.next = NoAccount]
            BY <2>1 DEF Disconnect
        <3>3. conn.status # "NONE"
            BY <2>1 DEF Exists
        <3>. QED  BY <1>1, <3>1, <3>2, <3>3, ConnTypes DEF Conns, Statuses
    <2>2. CASE ~Exists(tab[t].seen.id)
        BY <1>1, <2>2, ConnTypes DEF Disconnect
    <2>. QED  BY <2>1, <2>2
<1>4. /\ clock' \in Nat /\ clock <= clock' /\ conn'.asked <= clock' /\ conn'.id \in Nat
      /\ conn.id <= conn'.id
    BY <1>1, <1>2, <1>3, ConnTypes
<1>5. RowsSane'
    BY <1>1, <1>2, <1>3, <1>4 DEF RowsSane
<1>6. /\ TabsSane'
      /\ \A u \in Tabs : tab'[u] = tab[u] \/ tab'[u].kind \notin {"DECIDE", "CALENDAR"}
    BY <1>1, <1>2, <1>4, TabEnds
<1>7. JobsQuiet
    BY <1>2 DEF JobsQuiet
<1>8. Owned'
    BY <1>2, <1>3, <1>6, <1>7, StillOwned DEF SyncInv
<1>9. AllDone'
    BY <1>1, <1>2, <1>3, ConnTypes, StillDone DEF SyncInv, NothingDue
<1>. QED  BY <1>1, <1>2, <1>3, <1>4, <1>5, <1>6, <1>8, <1>9, RowMoves DEF GoogleSane

(* A list of calendars remembers the row it failed on. *)
LEMMA AskListKeeps ==
    ASSUME SyncInv, NEW t \in Tabs, AskList(t)
    PROVE  SyncInv'
<1>. DEFINE r == [NoTab EXCEPT !.kind = "LIST", !.seen = Seen(conn), !.lease = conn.lease]
<1>0. Sane /\ GoogleSane /\ tab \in [Tabs -> TabRows]
    BY DEF SyncInv, Sane, TabsSane
<1>1. /\ r \in TabRows /\ r.seen = Seen(conn) /\ r.kind = "LIST"
    BY <1>0, NoTabRow, SeenTypes, ConnTypes DEF TabRows
<1>2. /\ tab' = [tab EXCEPT ![t] = r]
      /\ UNCHANGED <<conn, links, shown, wanted, unmarked, job, clock, adrift, crowded, counted>>
    BY DEF AskList
<1>3. mishaps' \in 0..MaxSyncFaults
    BY <1>0, CallTypes DEF AskList, GoogleSane
<1>. HIDE DEF r
<1>4. TabSane(r) /\ r.seen.id = conn.id
    BY <1>0, <1>1, SeenTypes DEF TabSane
<1>5. TabOwned(t)'
    <2>1. tab'[t] = r
        BY <1>0, <1>2
    <2>. QED  BY <1>1, <2>1 DEF TabOwned
<1>6. clock' \in Nat /\ clock <= clock' /\ r.seen.id <= conn.id
    BY <1>0, <1>2, <1>4, ConnTypes
<1>. QED  BY <1>1, <1>2, <1>3, <1>4, <1>5, <1>6, RequestMoves

(* A lease handed back changes nothing else of the row; renewed, nothing. *)
LEMMA HandedRow ==
    ASSUME Sane
    PROVE  /\ HandedBack(conn) \in Conns /\ HandedBack(conn).id = conn.id
           /\ HandedBack(conn).grant = conn.grant /\ HandedBack(conn).key = conn.key
           /\ HandedBack(conn).cal = conn.cal /\ HandedBack(conn).epoch = conn.epoch
           /\ HandedBack(conn).asked = conn.asked /\ HandedBack(conn).status = conn.status
           /\ HandedBack(conn).lease = NoSyncer
           /\ Renewed \in Conns /\ Renewed.id = conn.id
           /\ Renewed.grant = conn.grant /\ Renewed.key = conn.key
           /\ Renewed.cal = conn.cal /\ Renewed.epoch = conn.epoch
           /\ Renewed.asked = conn.asked /\ Renewed.status = conn.status
           /\ Renewed.lease = conn.lease
    BY ConnTypes DEF HandedBack, Renewed, Conns

(* Its failure may free a lease, or take the row out of a clean-up: that is  *)
(* one of the ways in which a worker finds that it no longer holds the row.  *)
LEMMA ListFailedKeeps ==
    ASSUME SyncInv, NEW t \in Tabs, NEW auth \in BOOLEAN, ListFailed(t, auth)
    PROVE  SyncInv'
<1>1. Sane /\ RowsSane /\ GoogleSane
    BY DEF SyncInv, Sane
<1>2. /\ tab' = [tab EXCEPT ![t] = NoTab]
      /\ UNCHANGED <<links, shown, wanted, unmarked, job, clock, adrift, crowded, counted, mishaps>>
    BY DEF ListFailed
<1>3. /\ conn' \in Conns
      /\ conn'.id = conn.id /\ conn'.grant = conn.grant /\ conn'.lease \in {conn.lease, NoSyncer}
      /\ conn'.key = conn.key /\ conn'.cal = conn.cal /\ conn'.asked = conn.asked
      /\ conn'.epoch = conn.epoch
      /\ \/ conn' = conn
         \/ /\ conn.status # "NONE" /\ conn'.status \in {conn.status, "NEEDS_RECONNECT"}
            /\ conn.status = "CLEANUP_FAILED" => conn'.lease = NoSyncer
    <2>1. CASE SameRow(tab[t])
        <3>1. PICK c \in {conn, HandedBack(conn)} :
                c = (IF tab[t].lease = NoSyncer THEN conn ELSE HandedBack(conn))
            OBVIOUS
        <3>0. /\ c \in Conns
              /\ c.lease \in {conn.lease, NoSyncer} /\ c.id = conn.id /\ c.grant = conn.grant
              /\ c.key = conn.key /\ c.cal = conn.cal /\ c.asked = conn.asked
              /\ c.epoch = conn.epoch /\ c.status = conn.status
            BY <1>1, <3>1, HandedRow, ConnTypes
        <3>2. conn' = [c EXCEPT !.status = IF auth THEN "NEEDS_RECONNECT" ELSE @]
            BY <2>1, <3>1 DEF ListFailed
        <3>3. conn.status # "NONE"
            BY <2>1 DEF SameRow, Exists
        <3>4. conn.status = "CLEANUP_FAILED" => c.lease = NoSyncer
            BY <1>1, <3>0 DEF RowsSane
        <3>. QED  BY <3>0, <3>2, <3>3, <3>4 DEF Conns, Statuses
    <2>2. CASE ~SameRow(tab[t])
        BY <1>1, <2>2, ConnTypes DEF ListFailed
    <2>. QED  BY <2>1, <2>2
<1>4. /\ clock' \in Nat /\ clock <= clock' /\ conn'.asked <= clock' /\ conn'.id \in Nat
      /\ conn.id <= conn'.id
    BY <1>1, <1>2, <1>3, ConnTypes
<1>5. RowsSane'
    BY <1>1, <1>2, <1>3, <1>4 DEF RowsSane
<1>6. /\ TabsSane'
      /\ \A u \in Tabs : tab'[u] = tab[u] \/ tab'[u].kind \notin {"DECIDE", "CALENDAR"}
    BY <1>1, <1>2, <1>4, TabEnds
<1>7. JobsQuiet
    BY <1>2 DEF JobsQuiet
<1>8. Owned'
    BY <1>2, <1>3, <1>6, <1>7, StillOwned DEF SyncInv
<1>9. AllDone'
    BY <1>1, <1>2, <1>3, ConnTypes, SyncAssumption, StillDone DEF SyncInv, NothingDue
<1>. QED  BY <1>1, <1>2, <1>3, <1>4, <1>5, <1>6, <1>8, <1>9, RowMoves DEF GoogleSane

(* What a decision goes by is what the row still says. *)
LEMMA DecidedRow ==
    ASSUME Sane, NEW t \in Tabs, NEW verdicts, Decides(t, verdicts)
    PROVE  /\ tab[t].kind = "DECIDE" /\ tab[t].account \in Accounts /\ tab[t].named \in BOOLEAN
           /\ tab[t].verdict \in verdicts /\ tab' = [tab EXCEPT ![t] = NoTab]
           /\ tab[t].verdict = "NEW" => conn.status = "NONE"
           /\ tab[t].verdict # "NEW" => conn.status # "NONE" /\ conn.id = tab[t].seen.id
           /\ tab[t].verdict = "UNREACHABLE" => conn.status = "CLEANUP_FAILED"
           /\ tab[t].verdict \in {"SAME", "ASSUMED", "UNREACHABLE", "OTHER"} => tab[t].named
           /\ tab[t].verdict = "SAME" /\ conn.key # NoAccount => conn.key = tab[t].account
<1>1. tab[t] \in TabRows /\ TabSane(tab[t])
    BY DEF Sane, TabsSane
<1>2. conn.status # "NONE" => conn.id # 0
    BY SyncAssumption DEF Sane, RowsSane
<1>3. /\ tab[t].kind = "DECIDE" /\ tab[t].account \in Accounts /\ tab[t].named \in BOOLEAN
      /\ tab[t].verdict \in verdicts /\ tab' = [tab EXCEPT ![t] = NoTab]
    BY <1>1 DEF Decides, TabSane, TabRows
<1>4. Row(conn) = Row(tab[t].seen)
    BY DEF Decides, SameAs
<1>5. conn.status # "NONE" => conn.status = tab[t].seen.status
    BY DEF Decides, SameAs
<1>6. tab[t].verdict = "NEW" => conn.status = "NONE"
    BY <1>1, <1>2, <1>3, <1>4 DEF TabSane, Row
<1>7. tab[t].verdict # "NEW" => conn.status # "NONE" /\ conn.id = tab[t].seen.id
    BY <1>1, <1>2, <1>3, <1>4 DEF TabSane, Row
<1>8. conn.status # "NONE" => conn.key = tab[t].seen.key
    BY DEF Decides, SameAs
<1>. QED  BY <1>1, <1>3, <1>5, <1>6, <1>7, <1>8 DEF TabSane

LEMMA WaitKeeps ==
    ASSUME SyncInv, NEW t \in Tabs, Wait(t)
    PROVE  SyncInv'
<1>1. Sane /\ RowsSane /\ GoogleSane
    BY DEF SyncInv, Sane
<1>2. /\ tab' = [tab EXCEPT ![t] = NoTab] /\ tab[t].account \in Accounts /\ conn.status # "NONE"
      /\ UNCHANGED <<links, shown, wanted, unmarked, job, clock, adrift, crowded, counted, mishaps>>
    BY <1>1, DecidedRow DEF Wait
<1>3. /\ conn' \in Conns
      /\ conn'.id = conn.id /\ conn'.grant = conn.grant /\ conn'.lease = conn.lease
      /\ conn'.key = conn.key /\ conn'.cal = conn.cal
      /\ conn'.asked = 0 /\ conn'.status = "DISCONNECTING"
    <2>1. NextEpoch(conn) \in Nat
        BY <1>1, ConnTypes, NextEpochType
    <2>2. conn' = [conn EXCEPT !.status = "DISCONNECTING", !.epoch = NextEpoch(conn),
                    !.next = tab[t].account, !.asked = 0]
        BY DEF Wait
    <2>. QED  BY <1>1, <1>2, <2>1, <2>2, ConnTypes DEF Conns, Statuses
<1>4. /\ clock' \in Nat /\ clock <= clock' /\ conn'.asked <= clock' /\ conn'.id \in Nat
      /\ conn.id <= conn'.id
    BY <1>1, <1>2, <1>3, ConnTypes
<1>5. RowsSane'
    BY <1>1, <1>2, <1>3, <1>4 DEF RowsSane
<1>6. /\ TabsSane'
      /\ \A u \in Tabs : tab'[u] = tab[u] \/ tab'[u].kind \notin {"DECIDE", "CALENDAR"}
    BY <1>1, <1>2, <1>4, TabEnds
<1>7. JobsQuiet
    BY <1>2 DEF JobsQuiet
<1>8. Owned'
    BY <1>2, <1>3, <1>6, <1>7, StillOwned DEF SyncInv
<1>9. AllDone'
    BY <1>1, <1>2, <1>3, ConnTypes, StillDone DEF SyncInv, NothingDue
<1>. QED  BY <1>1, <1>2, <1>3, <1>4, <1>5, <1>6, <1>8, <1>9, RowMoves DEF GoogleSane

LEMMA SetCalendarKeeps ==
    ASSUME SyncInv, NEW t \in Tabs, SetCalendar(t)
    PROVE  SyncInv'
<1>1. Sane /\ RowsSane /\ GoogleSane /\ tab[t] \in TabRows
    BY DEF SyncInv, Sane, TabsSane
<1>2. /\ tab' = [tab EXCEPT ![t] = NoTab] /\ clock' = clock + 1 /\ tab[t].kind = "CALENDAR"
      /\ UNCHANGED <<links, shown, wanted, unmarked, job, adrift, crowded, counted, mishaps>>
    BY DEF SetCalendar
<1>3. /\ conn' \in Conns
      /\ conn'.id = conn.id /\ conn'.grant = conn.grant /\ conn'.lease = conn.lease
      /\ conn'.key = conn.key /\ conn'.status = conn.status
      /\ \/ conn' = conn
         \/ /\ conn.status # "NONE" /\ conn.id = tab[t].seen.id /\ conn'.cal = tab[t].cal
            /\ conn'.asked = clock + 1 /\ conn'.epoch = conn.epoch + 1
    <2>1. CASE Exists(tab[t].seen.id)
        <3>1. conn' = [conn EXCEPT !.cal = tab[t].cal, !.asked = clock + 1, !.epoch = @ + 1]
            BY <2>1 DEF SetCalendar
        <3>2. tab[t].cal \in Names /\ clock + 1 \in Nat /\ conn.epoch + 1 \in Nat
            BY <1>1, ConnTypes DEF TabRows
        <3>3. conn.status # "NONE" /\ conn.id = tab[t].seen.id
            BY <2>1 DEF Exists
        <3>. QED  BY <1>1, <3>1, <3>2, <3>3, ConnTypes DEF Conns
    <2>2. CASE ~Exists(tab[t].seen.id)
        BY <1>1, <2>2, ConnTypes DEF SetCalendar
    <2>. QED  BY <2>1, <2>2
<1>4. /\ clock' \in Nat /\ clock <= clock' /\ conn'.asked <= clock' /\ conn'.id \in Nat
      /\ conn.id <= conn'.id
    BY <1>1, <1>2, <1>3, ConnTypes
<1>5. RowsSane'
    BY <1>1, <1>2, <1>3, <1>4 DEF RowsSane
<1>6. TabsSane' /\ \A u \in Tabs \ {t} : tab'[u] = tab[u]
    BY <1>1, <1>2, <1>4, TabEnds
<1>7. JobsQuiet
    BY <1>2 DEF JobsQuiet
<1>8. Owned'
    <2>. SUFFICES ASSUME ~crowded PROVE RowOwned' /\ \A u \in Tabs : TabOwned(u)'
        BY <1>2 DEF Owned
    <2>1. RowOwned /\ \A u \in Tabs : TabOwned(u)
        BY DEF SyncInv, Owned
    <2>2. \A a : OwnLinks(a) => OwnLinks(a)'
        BY <1>2, <1>3, <1>7, OwnLinksStay
    <2>3. \A a : Owner(a) => Owner(a)'
        BY <1>3, <2>2 DEF Owner
    <2>4. ASSUME Unnamed(conn.id), conn'.cal = "work" PROVE Owner(WorkOf)
        <3>1. CASE conn' = conn
            BY <2>1, <2>4, <3>1 DEF RowOwned
        <3>2. CASE conn.id = tab[t].seen.id /\ conn'.cal = tab[t].cal
            BY <1>2, <2>1, <2>4, <3>2 DEF TabOwned
        <3>. QED  BY <1>3, <3>1, <3>2
    <2>5. RowOwned'
        BY <1>3, <2>1, <2>2, <2>3, <2>4 DEF RowOwned, Unnamed
    <2>6. TabOwned(t)'
        BY <1>1, <1>2, <1>4, TabEnds
    <2>7. ASSUME NEW u \in Tabs \ {t} PROVE TabOwned(u)'
        BY <1>3, <1>6, <2>1, <2>3 DEF TabOwned, Unnamed
    <2>. QED  BY <2>5, <2>6, <2>7
<1>9. AllDone'
    <2>1. NothingDue' => conn' = conn
        BY <1>1, <1>3, ConnTypes DEF NothingDue
    <2>2. NothingDue' => NothingDue /\ conn'.cal = conn.cal /\ wanted' = wanted
        BY <1>2, <2>1 DEF NothingDue
    <2>3. conn.epoch \in Nat
        BY <1>1, ConnTypes
    <2>4. \A w \in Syncers : conn'.lease = w /\ conn'.status = "ACTIVE" =>
              /\ conn.lease = w /\ conn.status = "ACTIVE"
              /\ conn'.epoch \in Nat
              /\ \/ conn'.epoch = conn.epoch /\ conn'.cal = conn.cal
                 \/ conn'.epoch > conn.epoch
              /\ \/ unmarked'
                 \/ conn'.asked = clock + 1
                 \/ ~unmarked /\ wanted' = wanted /\ conn'.asked = conn.asked
        BY <1>2, <1>3, <2>3
    <2>. QED  BY <1>1, <1>2, <2>2, <2>4, StillDone DEF SyncInv
<1>. QED  BY <1>1, <1>2, <1>3, <1>4, <1>5, <1>6, <1>8, <1>9, RowMoves DEF GoogleSane

-----------------------------------------------------------------------------
(* The events of one connection *)

LEMMA LinkedTypes ==
    ASSUME Sane
    PROVE  /\ IsFiniteSet(Linked) /\ Cardinality(Linked) \in Nat
           /\ Linked # {} => conn.status # "NONE" /\ conn.id \in 1..MaxConns
           /\ \A l \in Linked : /\ links[l].by \in Accounts /\ links[l].cal \in Names
                                /\ links[l].content # 0 /\ links[l] # NoLink
           /\ Events \subseteq Places
<1>1. IsFiniteSet(Linked) /\ Cardinality(Linked) \in Nat
    BY SyncAssumption, FS_Subset, FS_CardinalityType DEF Linked
<1>2. Linked # {} => conn.status # "NONE" /\ conn.id \in 1..MaxConns
    BY UnlinkedRows DEF Linked, Sane, RowsSane
<1>3. \A l \in Linked : /\ links[l].by \in Accounts /\ links[l].cal \in Names
                        /\ links[l].content # 0 /\ links[l] # NoLink
    BY DEF Linked, Sane, RowsSane, Whole
<1>4. Events \subseteq Places
    <2>1. Linked \subseteq Lessons
        BY DEF Linked
    <2>. QED  BY <1>2, <1>3, <2>1 DEF Events, Places
<1>. QED  BY <1>1, <1>2, <1>3, <1>4

LEMMA FewEvents ==
    ASSUME Sane
    PROVE  IsFiniteSet(Events) /\ Cardinality(Events) <= Cardinality(Linked)
<1>1. IsFiniteSet(Linked)
    BY LinkedTypes
<1>. DEFINE event(l) == <<links[l].by, links[l].cal, conn.id, l>>
<1>2. Events = {event(l) : l \in Linked}
    BY DEF Events
<1>3. PICK f \in [Linked -> Events] : f = [l \in Linked |-> event(l)]
    BY <1>2
<1>4. f \in Surjection(Linked, Events)
    BY <1>2, <1>3 DEF Surjection
<1>. QED  BY <1>1, <1>4, FS_Surjection

(* The user is told of as many as were linked. *)
LEMMA UnlinkedTold ==
    ASSUME Sane, AllTold, crowded => crowded', NEW n \in Nat, Cardinality(Linked) <= n,
           counted' = counted + n, Orphans' \subseteq Orphans \cup Events
    PROVE  AllTold'
<1>. SUFFICES ASSUME ~crowded' PROVE Cardinality(Orphans') <= counted'
    BY DEF AllTold
<1>1. IsFiniteSet(Orphans) /\ counted \in Nat
    BY FS_Subset DEF Sane, GoogleSane, Orphans
<1>2. IsFiniteSet(Events) /\ Cardinality(Events) <= Cardinality(Linked)
    BY FewEvents
<1>3. IsFiniteSet(Orphans \cup Events)
      /\ Cardinality(Orphans \cup Events) = Cardinality(Orphans) + Cardinality(Events)
                                            - Cardinality(Orphans \cap Events)
    BY <1>1, <1>2, FS_Union
<1>4. IsFiniteSet(Orphans \cap Events)
    BY <1>1, FS_Subset
<1>5. IsFiniteSet(Orphans') /\ Cardinality(Orphans') <= Cardinality(Orphans \cup Events)
    BY <1>3, FS_Subset
<1>6. Cardinality(Orphans) <= counted
    BY DEF AllTold
<1>7. /\ Cardinality(Orphans) \in Nat /\ Cardinality(Events) \in Nat /\ Cardinality(Orphans') \in Nat
      /\ Cardinality(Orphans \cap Events) \in Nat /\ Cardinality(Linked) \in Nat
      /\ Cardinality(Orphans \cup Events) \in Nat
    BY <1>1, <1>2, <1>3, <1>4, <1>5, FS_CardinalityType, LinkedTypes
<1>. QED  BY <1>1, <1>2, <1>3, <1>5, <1>6, <1>7

(* No event, or the same ones, after the row's writes went. *)
LEMMA UnlinkedOrphans ==
    ASSUME links' = Unlinked, UNCHANGED <<shown, job, adrift>>, ~Forgetting
    PROVE  /\ Linked' = {} /\ Orphans' \subseteq Orphans \cup Events
<1>1. Linked' = {}
    BY UnlinkedRows DEF Linked
<1>2. ShownPlaces' = ShownPlaces /\ InHand' = InHand
    BY DEF ShownPlaces, InHand, Place
<1>3. Kept = Events
    BY DEF Kept
<1>. QED  BY <1>1, <1>2, <1>3 DEF Orphans

LEMMA ConnectKeeps ==
    ASSUME SyncInv, NEW t \in Tabs, Connect(t)
    PROVE  SyncInv'
<1>0. Sane /\ RowsSane /\ GoogleSane /\ JobsSane /\ TabsSane
    BY DEF SyncInv, Sane
<1>1. /\ tab' = [tab EXCEPT ![t] = NoTab] /\ tab[t].account \in Accounts /\ tab[t].named \in BOOLEAN
      /\ conn.status = "NONE" /\ conn.id < MaxConns
      /\ conn' = Fresh(NoConn(conn.id + 1), tab[t].account, tab[t].named)
      /\ clock' = clock + 1
      /\ UNCHANGED <<links, shown, wanted, unmarked, job, adrift, crowded, counted, mishaps>>
    BY <1>0, DecidedRow DEF Connect
<1>a. PICK a, named : a = tab[t].account /\ named = tab[t].named
    OBVIOUS
<1>2. conn.id + 1 \in 1..MaxConns /\ conn.id + 1 \in 0..MaxConns /\ clock' \in Nat /\ clock <= clock'
      /\ clock + 1 \in Nat
    BY <1>0, <1>1, ConnTypes, SyncAssumption
<1>3. /\ conn' \in Conns
      /\ conn'.id = conn.id + 1 /\ conn'.status = "ACTIVE" /\ conn'.grant = a
      /\ conn'.key = (IF named THEN a ELSE NoAccount) /\ conn'.cal = "primary"
      /\ conn'.asked = clock + 1 /\ conn'.lease = NoSyncer
    <2>1. PICK c \in Conns : c = NoConn(conn.id + 1)
        BY <1>2, NoConnRow
    <2>2. conn' = Fresh(c, a, named)
        BY <1>1, <1>a, <2>1
    <2>3. c.id = conn.id + 1 /\ c.cal = "primary"
        BY <1>2, <2>1, NoConnRow
    <2>4. a \in Accounts /\ named \in BOOLEAN
        BY <1>1, <1>a
    <2>. QED  BY <1>2, <2>2, <2>3, <2>4 DEF Fresh, HandedBack, Conns, Statuses
<1>4. links = Unlinked /\ Linked = {} /\ Linked' = {}
    BY <1>0, <1>1, UnlinkedRows DEF RowsSane, Linked
<1>5. RowsSane'
    BY <1>0, <1>1, <1>2, <1>3 DEF RowsSane
<1>6. GoogleSane'
    BY <1>0, <1>1, GoogleStays DEF GoogleSane
<1>7. JobsSane'
    BY <1>0, <1>1, <1>2, JobsStay
<1>8. conn.id \in Nat /\ conn.id <= conn'.id /\ conn'.id \in Nat /\ conn.id < conn'.id
    BY <1>0, <1>3, ConnTypes
<1>9. TabsSane' /\ TabOwned(t)' /\ \A u \in Tabs \ {t} : tab'[u] = tab[u]
    BY <1>0, <1>1, <1>8, TabEnds
<1>10. Sane'
    BY <1>5, <1>6, <1>7, <1>9 DEF Sane
<1>11. ~crowded => \A w \in Syncers : ~Mid(w) /\ ~Mid(w)'
    BY <1>1 DEF SyncInv, Alone, MidAlone, Mid
<1>12. NoSyncer \notin Syncers
    BY SyncAssumption
<1>13. Alone'
    BY <1>1, <1>3, <1>11, <1>12 DEF Alone, MidAlone, LeaseAlone
<1>14. Owned'
    <2>1. \A b : OwnLinks(b)'
        BY <1>4 DEF OwnLinks
    <2>2. RowOwned'
        BY <1>3, <2>1 DEF RowOwned, Owner, Unnamed
    <2>3. ASSUME NEW u \in Tabs \ {t} PROVE TabOwned(u)'
        <3>1. tab'[u].seen.id <= conn.id /\ tab'[u].seen.id \in Nat
            BY <1>0, <1>9, SyncAssumption DEF TabsSane, TabRows, SeenRows
        <3>2. tab'[u].seen.id # conn'.id
            BY <1>8, <3>1
        <3>. QED  BY <3>2 DEF TabOwned, Unnamed
    <2>. QED  BY <1>9, <2>2, <2>3 DEF Owned
<1>15. AllShown'
    BY <1>1, <1>4, <1>11 DEF AllShown, WriteShown, Mid
<1>16. AllTold'
    <2>1. Events = {} /\ Events' = {}
        BY <1>4 DEF Events
    <2>2. Kept = {} /\ Kept' = {}
        BY <2>1 DEF Kept
    <2>3. InHand' = InHand /\ ShownPlaces' = ShownPlaces
        BY <1>1 DEF InHand, Place, ShownPlaces
    <2>4. Orphans' = Orphans
        BY <1>1, <2>2, <2>3 DEF Orphans
    <2>5. counted' \in Nat /\ counted <= counted'
        BY <1>0, <1>1 DEF GoogleSane
    <2>. QED  BY <1>0, <1>1, <2>4, <2>5, StillTold DEF SyncInv
<1>17. AllDone'
    <2>1. ~NothingDue'
        BY <1>0, <1>3, ConnTypes DEF NothingDue
    <2>. QED  BY <1>3, <1>12, <2>1 DEF AllDone, UpToDate
<1>. QED  BY <1>10, <1>13, <1>14, <1>15, <1>16, <1>17 DEF SyncInv

LEMMA DismissKeeps ==
    ASSUME SyncInv, NEW t \in Tabs, Dismiss(t)
    PROVE  SyncInv'
<1>0. Sane /\ RowsSane /\ GoogleSane /\ JobsSane
    BY DEF SyncInv, Sane
<1>1. /\ tab' = [tab EXCEPT ![t] = NoTab]
      /\ UNCHANGED <<shown, wanted, unmarked, job, clock, adrift, crowded, mishaps>>
      /\ \/ /\ conn' = NoConn(conn.id) /\ links' = Unlinked /\ conn.status = "CLEANUP_FAILED"
            /\ counted' = counted + Cardinality(Linked)
         \/ conn' \in {[conn EXCEPT !.leftover = 0], conn} /\ UNCHANGED <<links, counted>>
    BY DEF Dismiss
<1>2. CASE conn' \in {[conn EXCEPT !.leftover = 0], conn} /\ UNCHANGED <<links, counted>>
    <2>1. /\ conn' \in Conns
          /\ conn'.id = conn.id /\ conn'.grant = conn.grant /\ conn'.lease = conn.lease
          /\ conn'.status = conn.status /\ conn'.key = conn.key /\ conn'.cal = conn.cal
          /\ conn'.epoch = conn.epoch /\ conn'.asked = conn.asked
        BY <1>0, <1>2, ConnTypes DEF Conns
    <2>2. /\ clock' \in Nat /\ clock <= clock' /\ conn'.id \in Nat /\ conn.id <= conn'.id
        BY <1>0, <1>1, <2>1, ConnTypes
    <2>3. RowsSane'
        BY <1>0, <1>1, <1>2, <2>1 DEF RowsSane
    <2>4. /\ TabsSane'
          /\ \A u \in Tabs : tab'[u] = tab[u] \/ tab'[u].kind \notin {"DECIDE", "CALENDAR"}
        BY <1>0, <1>1, <2>2, TabEnds
    <2>5. JobsQuiet
        BY <1>1 DEF JobsQuiet
    <2>6. Owned'
        BY <1>1, <1>2, <2>1, <2>4, <2>5, StillOwned DEF SyncInv
    <2>7. AllDone'
        BY <1>0, <1>1, <1>2, <2>1, ConnTypes, StillDone DEF SyncInv, NothingDue
    <2>8. wanted' \in [Lessons -> 0..MaxContent] /\ unmarked' \in BOOLEAN
          /\ mishaps' \in 0..MaxSyncFaults
        BY <1>0, <1>1 DEF GoogleSane
    <2>. QED  BY <1>1, <1>2, <2>1, <2>2, <2>3, <2>4, <2>6, <2>7, <2>8, RowMoves
<1>3. CASE /\ conn' = NoConn(conn.id) /\ links' = Unlinked /\ conn.status = "CLEANUP_FAILED"
           /\ counted' = counted + Cardinality(Linked)
    <2>1. /\ conn' \in Conns /\ conn'.id = conn.id /\ conn'.status = "NONE" /\ conn'.lease = NoSyncer
          /\ conn'.grant = NoAccount /\ conn'.asked = 0
        BY <1>0, <1>3, ConnTypes, NoConnRow
    <2>2. /\ clock' \in Nat /\ clock <= clock' /\ conn'.id \in Nat /\ conn.id <= conn'.id
          /\ conn'.asked <= clock'
        BY <1>0, <1>1, <2>1, ConnTypes
    <2>3. RowsSane'
        BY <1>3, <2>1, <2>2, UnlinkedRows DEF RowsSane
    <2>4. Cardinality(Linked) \in Nat /\ counted \in Nat /\ counted' \in Nat
          /\ Cardinality(Linked) <= Cardinality(Linked)
        BY <1>0, <1>3, LinkedTypes DEF GoogleSane
    <2>5. GoogleSane'
        BY <1>0, <1>1, <2>4, GoogleStays DEF GoogleSane
    <2>6. JobsSane'
        BY <1>0, <1>1, <2>2, JobsStay
    <2>7. TabsSane'
        BY <1>0, <1>1, <2>2, TabEnds
    <2>8. ~crowded => \A w \in Syncers : ~Mid(w) /\ ~Mid(w)'
        BY <1>1, <1>3 DEF SyncInv, Alone, MidAlone, Mid
    <2>9. NoSyncer \notin Syncers
        BY SyncAssumption
    <2>10. Alone'
        BY <1>1, <2>1, <2>8, <2>9 DEF Alone, MidAlone, LeaseAlone
    <2>11. Owned'
        BY <2>1 DEF Owned, RowOwned, TabOwned, Unnamed
    <2>12. ~crowded => ~Forgetting
        BY <2>8 DEF Forgetting, Mid
    <2>13. Linked' = {}
        BY <1>3, UnlinkedRows DEF Linked
    <2>14. AllShown'
        BY <1>1, <2>8, <2>13 DEF AllShown, WriteShown, Mid
    <2>15. AllTold'
        <3>1. CASE crowded
            BY <1>1, <3>1 DEF AllTold
        <3>2. CASE ~crowded
            <4>1. Orphans' \subseteq Orphans \cup Events
                BY <1>1, <1>3, <2>12, <3>2, UnlinkedOrphans
            <4>. QED  BY <1>0, <1>1, <1>3, <2>4, <4>1, UnlinkedTold DEF SyncInv
        <3>. QED  BY <3>1, <3>2
    <2>16. AllDone'
        BY <2>1, <2>9 DEF AllDone, NothingDue, UpToDate
    <2>. QED  BY <2>3, <2>5, <2>6, <2>7, <2>10, <2>11, <2>14, <2>15, <2>16 DEF SyncInv, Sane
<1>. QED  BY <1>1, <1>2, <1>3

LEMMA ReconnectKeeps ==
    ASSUME SyncInv, NEW t \in Tabs, Reconnect(t)
    PROVE  SyncInv'
<1>0. Sane /\ RowsSane /\ GoogleSane /\ JobsSane /\ TabsSane
    BY DEF SyncInv, Sane
<1>a. PICK a, named, verdict :
        a = tab[t].account /\ named = tab[t].named /\ verdict = tab[t].verdict
    OBVIOUS
<1>1. /\ tab' = [tab EXCEPT ![t] = NoTab] /\ a \in Accounts /\ named = TRUE
      /\ verdict \in {"SAME", "ASSUMED", "UNREACHABLE"}
      /\ conn.status # "NONE" /\ conn.id = tab[t].seen.id
      /\ verdict = "UNREACHABLE" => conn.status = "CLEANUP_FAILED"
      /\ verdict = "SAME" /\ conn.key # NoAccount => conn.key = a
    BY <1>0, <1>a, DecidedRow DEF Reconnect
<1>2. /\ UNCHANGED <<shown, wanted, unmarked, job, mishaps>> /\ clock' = clock + 1
      /\ \/ /\ verdict = "UNREACHABLE" /\ links' = Unlinked
            /\ counted' = counted + Cardinality(Linked) /\ adrift' = adrift
         \/ verdict # "UNREACHABLE" /\ UNCHANGED <<links, counted>>
      /\ adrift' = IF verdict = "ASSUMED" /\ conn.grant # a THEN adrift \cup Events ELSE adrift
      /\ crowded' = (crowded \/ (conn.grant # a /\ \E w \in Syncers : Mid(w)))
    BY <1>a DEF Reconnect
<1>3. /\ conn' \in Conns
      /\ conn'.id = conn.id /\ conn'.status = "ACTIVE" /\ conn'.grant = a /\ conn'.key = a
      /\ conn'.asked = clock + 1 /\ conn'.lease = NoSyncer
    <2>1. PICK left, cal : conn' = [Fresh(conn, a, named) EXCEPT !.epoch = @ + 1,
                                        !.leftover = left, !.cal = cal]
                           /\ left \in {conn.leftover, conn.leftover + Cardinality(Linked)}
                           /\ cal \in {conn.cal, "primary"}
        <3>1. Fresh(conn, a, named).leftover = conn.leftover /\ Fresh(conn, a, named).cal = conn.cal
            BY <1>0, ConnTypes DEF Fresh, HandedBack, Conns
        <3>2. CASE verdict = "UNREACHABLE"
            BY <1>a, <3>1, <3>2 DEF Reconnect, KeepsChoice
        <3>3. CASE verdict # "UNREACHABLE"
            BY <1>a, <3>1, <3>3 DEF Reconnect, KeepsChoice
        <3>. QED  BY <3>2, <3>3
    <2>2. left \in Nat /\ cal \in Names /\ clock + 1 \in Nat
        BY <1>0, <2>1, ConnTypes, LinkedTypes DEF Names
    <2>3. Fresh(conn, a, named) \in Conns
          /\ Fresh(conn, a, named).id = conn.id /\ Fresh(conn, a, named).epoch = conn.epoch
          /\ Fresh(conn, a, named).status = "ACTIVE" /\ Fresh(conn, a, named).grant = a
          /\ Fresh(conn, a, named).key = a /\ Fresh(conn, a, named).asked = clock + 1
          /\ Fresh(conn, a, named).lease = NoSyncer
        BY <1>0, <1>1, <2>2, ConnTypes DEF Fresh, HandedBack, Conns, Statuses
    <2>4. PICK c \in Conns : c = Fresh(conn, a, named)
        BY <2>3
    <2>5. conn' = [c EXCEPT !.epoch = c.epoch + 1, !.leftover = left, !.cal = cal]
        BY <2>1, <2>4
    <2>6. c.epoch + 1 \in Nat
        BY <1>0, <2>3, <2>4, ConnTypes
    <2>. QED  BY <2>2, <2>3, <2>4, <2>5, <2>6 DEF Conns
<1>4. clock' \in Nat /\ clock <= clock' /\ conn'.asked <= clock' /\ conn'.id \in Nat
      /\ conn.id <= conn'.id
    BY <1>0, <1>2, <1>3, ConnTypes
<1>5. RowsSane'
    <2>1. links' \in [Lessons -> LinkRows] /\ \A l \in Lessons : Whole(links'[l])
        BY <1>0, <1>2, UnlinkedRows DEF RowsSane
    <2>2. conn.id \in 1..MaxConns
        BY <1>0, <1>1 DEF RowsSane
    <2>. QED  BY <1>3, <1>4, <2>1, <2>2 DEF RowsSane
<1>6. counted' \in Nat /\ counted <= counted'
    BY <1>0, <1>2, LinkedTypes DEF GoogleSane
<1>7. GoogleSane'
    <2>1. adrift' \subseteq Places
        BY <1>0, <1>2, LinkedTypes DEF GoogleSane
    <2>2. crowded' \in BOOLEAN
        BY <1>2
    <2>. QED  BY <1>0, <1>2, <1>6, <2>1, <2>2 DEF GoogleSane, ShownPlaces
<1>8. JobsSane'
    BY <1>0, <1>2, <1>4, JobsStay
<1>9. TabsSane'
    BY <1>0, <1>1, <1>4, TabEnds
<1>10. Sane'
    BY <1>5, <1>7, <1>8, <1>9 DEF Sane
<1>11. NoSyncer \notin Syncers
    BY SyncAssumption
<1>12. \A w \in Syncers : Mid(w)' = Mid(w)
    BY <1>2 DEF Mid
<1>13. ~crowded /\ verdict = "UNREACHABLE" => \A w \in Syncers : ~Mid(w)
    BY <1>1 DEF SyncInv, Alone, MidAlone
<1>14. Alone'
    <2>. SUFFICES ASSUME ~crowded', NEW w \in Syncers PROVE MidAlone(w)' /\ LeaseAlone(w)'
        BY DEF Alone
    <2>1. LeaseAlone(w)'
        BY <1>3, <1>11 DEF LeaseAlone
    <2>2. ASSUME Mid(w) PROVE MidAlone(w)'
        <3>1. MidAlone(w) /\ ~crowded
            BY <1>2 DEF SyncInv, Alone
        <3>2. links' = links /\ conn'.grant = conn.grant
            BY <1>2, <1>3, <1>13, <2>2, <3>1
        <3>. QED  BY <1>2, <1>3, <1>12, <2>2, <3>1, <3>2 DEF MidAlone
    <2>. QED  BY <1>12, <2>1, <2>2 DEF MidAlone
<1>15. Forgetting' = Forgetting
    BY <1>2 DEF Forgetting
<1>16. Linked' = IF verdict = "UNREACHABLE" THEN {} ELSE Linked
    BY <1>2, UnlinkedRows DEF Linked
<1>17. \A l : verdict # "UNREACHABLE" => EventOf(l)' = EventOf(l)
    BY <1>2, <1>3 DEF EventOf
<1>18. ASSUME ~crowded' PROVE OwnLinks(a)'
    <2>0. RowOwned /\ TabOwned(t) /\ ~crowded
        BY <1>2, <1>18 DEF SyncInv, Owned
    <2>1. CASE verdict = "UNREACHABLE"
        BY <1>16, <2>1 DEF OwnLinks
    <2>2. CASE verdict = "ASSUMED" /\ conn.grant # a
        <3>1. \A l \in Linked : EventOf(l) \in adrift'
            BY <1>2, <2>2 DEF Events, EventOf
        <3>. QED  BY <1>16, <1>17, <2>2, <3>1 DEF OwnLinks
    <2>3. CASE verdict = "SAME" \/ (verdict = "ASSUMED" /\ conn.grant = a)
        <3>1. OwnLinks(a)
            <4>1. CASE verdict = "SAME" /\ conn.key = NoAccount
                BY <1>a, <1>1, <2>0, <4>1 DEF TabOwned, Unnamed, Owner, Reconnect, Decides
            <4>2. CASE verdict = "SAME" /\ conn.key # NoAccount
                BY <1>1, <2>0, <4>2 DEF RowOwned, Owner
            <4>3. CASE verdict = "ASSUMED" /\ conn.grant = a
                BY <1>1, <2>0, <4>3, SyncAssumption DEF RowOwned
            <4>. QED  BY <2>3, <4>1, <4>2, <4>3
        <3>2. adrift \subseteq adrift' /\ links' = links
            BY <1>2, <2>3
        <3>3. Linked' = Linked
            BY <1>16, <2>3
        <3>. QED  BY <1>15, <1>17, <2>3, <3>1, <3>2, <3>3 DEF OwnLinks
    <2>. QED  BY <1>1, <2>1, <2>2, <2>3
<1>19. Owned'
    <2>. SUFFICES ASSUME ~crowded' PROVE RowOwned' /\ \A u \in Tabs : TabOwned(u)'
        BY DEF Owned
    <2>1. a # NoAccount
        BY <1>1, SyncAssumption
    <2>2. Owner(a)'
        BY <1>3, <1>18 DEF Owner
    <2>. QED  BY <1>3, <1>18, <2>1, <2>2 DEF RowOwned, TabOwned, Unnamed
<1>20. adrift \subseteq adrift' /\ (crowded => crowded')
    BY <1>2
<1>21. AllShown'
    <2>. SUFFICES ASSUME ~crowded'
                  PROVE  (\A l \in Linked' : LinkedIsShown(l)') /\ \A w \in Syncers : WriteShown(w)'
        BY DEF AllShown
    <2>1. (\A l \in Linked : LinkedIsShown(l)) /\ \A w \in Syncers : WriteShown(w)
        BY <1>20 DEF SyncInv, AllShown
    <2>2. ASSUME NEW l \in Linked' PROVE LinkedIsShown(l)'
        <3>1. links' = links /\ l \in Linked /\ conn'.id = conn.id
            BY <1>2, <1>3, <1>16
        <3>2. Writing(l)' = Writing(l)
            BY <1>2 DEF Writing
        <3>. QED  BY <1>2, <1>20, <2>1, <3>1, <3>2 DEF LinkedIsShown
    <2>3. \A w \in Syncers : WriteShown(w)'
        BY <1>2, <2>1 DEF WriteShown, Place
    <2>. QED  BY <2>2, <2>3
<1>22. AllTold'
    <2>1. CASE verdict = "UNREACHABLE"
        <3>1. CASE crowded
            BY <1>20, <3>1 DEF AllTold
        <3>2. CASE ~crowded
            <4>1. ~Forgetting
                BY <1>13, <2>1, <3>2 DEF Forgetting, Mid
            <4>2. Orphans' \subseteq Orphans \cup Events
                BY <1>2, <2>1, <4>1, UnlinkedOrphans
            <4>3. Cardinality(Linked) \in Nat /\ Cardinality(Linked) <= Cardinality(Linked)
                BY <1>0, LinkedTypes
            <4>. QED  BY <1>0, <1>2, <1>20, <2>1, <4>2, <4>3, UnlinkedTold DEF SyncInv
        <3>. QED  BY <3>1, <3>2
    <2>2. CASE verdict # "UNREACHABLE"
        <3>1. Events' = Events
            BY <1>2, <1>3, <1>16, <2>2 DEF Events
        <3>2. Kept' = Kept /\ InHand' = InHand /\ ShownPlaces' = ShownPlaces
            BY <1>2, <1>15, <3>1 DEF Kept, InHand, Place, ShownPlaces
        <3>3. Orphans' \subseteq Orphans
            BY <1>20, <3>2 DEF Orphans
        <3>. QED  BY <1>0, <1>6, <1>20, <3>3, StillTold DEF SyncInv
    <2>. QED  BY <2>1, <2>2
<1>23. AllDone'
    <2>1. ~NothingDue'
        BY <1>0, <1>3, ConnTypes DEF NothingDue
    <2>. QED  BY <1>3, <1>11, <2>1 DEF AllDone, UpToDate
<1>. QED  BY <1>10, <1>14, <1>19, <1>21, <1>22, <1>23 DEF SyncInv

-----------------------------------------------------------------------------
(* The workers *)

LEMMA CrowdedKeeps == ASSUME Sane', crowded' PROVE SyncInv'
    BY DEF SyncInv, Alone, Owned, AllShown, AllTold, AllDone

LEMMA JobTypes ==
    ASSUME Sane, NEW w \in Syncers
    PROVE  /\ job[w] \in JobRows /\ JobSane(job[w]) /\ job[w].phase \in Phases
           /\ job[w].under \in {"ACTIVE", "DISCONNECTING"} /\ job[w].id \in 0..MaxConns
           /\ job[w].epoch \in Nat /\ job[w].grant \in Accounts \cup {NoAccount}
           /\ job[w].cal \in Names /\ job[w].asked \in Nat
           /\ job[w].plan \in [Lessons -> 0..MaxContent] /\ job[w].links \in [Lessons -> LinkRows]
           /\ job[w].left \in Nat /\ job[w].next \in Accounts \cup {NoAccount}
           /\ job[w].auth \in BOOLEAN /\ job[w].lesson \in Lessons \cup {AnyLesson}
           /\ job[w].asked <= clock
    BY DEF Sane, JobsSane, JobRows

(* The holder of the lease is alone between checks. *)
LEMMA HolderAlone ==
    ASSUME SyncInv, ~crowded, NEW w \in Syncers, conn.lease = w
    PROVE  \A v \in Syncers \ {w} : ~Mid(v)
    BY SyncAssumption DEF SyncInv, Alone, MidAlone

LEMMA QuietAlone ==
    ASSUME SyncInv, NEW w \in Syncers, \A v \in Syncers \ {w} : job'[v] = job[v], UNCHANGED links,
           crowded => crowded', conn'.id = conn.id, conn'.grant = conn.grant,
           conn'.status = conn.status \/ conn'.status \notin {"NONE", "CLEANUP_FAILED"},
           conn'.lease \in {conn.lease, NoSyncer, w},
           ~crowded' /\ conn'.lease = w => \A v \in Syncers \ {w} : ~Mid(v),
           ~crowded' => MidAlone(w)' /\ LeaseAlone(w)'
    PROVE  Alone'
<1>. SUFFICES ASSUME ~crowded', NEW v \in Syncers \ {w} PROVE MidAlone(v)' /\ LeaseAlone(v)'
    BY DEF Alone
<1>1. MidAlone(v) /\ LeaseAlone(v)
    BY DEF SyncInv, Alone
<1>2. \A u \in Syncers \ {w} : Mid(u)' = Mid(u)
    BY DEF Mid
<1>3. NoSyncer \notin Syncers
    BY SyncAssumption
<1>4. LeaseAlone(v)'
    BY <1>1, <1>3 DEF LeaseAlone, Linked
<1>5. ASSUME Mid(v) PROVE MidAlone(v)'
    <2>1. conn'.lease \in {v, NoSyncer}
        BY <1>1, <1>5 DEF MidAlone
    <2>2. ~Mid(w)'
        BY <1>2, <1>5 DEF MidAlone
    <2>3. \A u \in Syncers \ {v} : ~Mid(u)'
        BY <1>1, <1>2, <1>5, <2>2 DEF MidAlone
    <2>. QED  BY <1>1, <1>5, <2>1, <2>3 DEF MidAlone
<1>. QED  BY <1>2, <1>4, <1>5 DEF MidAlone

LEMMA QuietDone ==
    ASSUME SyncInv, NEW w \in Syncers, \A v \in Syncers \ {w} : job'[v] = job[v],
           UNCHANGED <<links, wanted, unmarked>>, crowded => crowded',
           conn'.cal = conn.cal, conn'.epoch = conn.epoch, conn'.asked = conn.asked,
           conn'.status = "ACTIVE" => conn.status = "ACTIVE",
           conn'.lease \in {conn.lease, NoSyncer, w},
           ~crowded' /\ NothingDue => ~Mid(w)', ~crowded' => UpToDate(w)'
    PROVE  AllDone'
<1>. SUFFICES ASSUME ~crowded'
              PROVE  /\ NothingDue' => Settled' /\ \A v \in Syncers : ~Mid(v)'
                     /\ \A v \in Syncers : UpToDate(v)'
    BY DEF AllDone
<1>1. /\ NothingDue => Settled /\ \A v \in Syncers : ~Mid(v)
      /\ \A v \in Syncers : UpToDate(v)
    BY DEF SyncInv, AllDone
<1>2. NothingDue' => NothingDue
    BY DEF NothingDue
<1>3. Settled => Settled'
    BY DEF Settled
<1>4. \A v \in Syncers \ {w} : Mid(v)' = Mid(v)
    BY DEF Mid
<1>5. NoSyncer \notin Syncers
    BY SyncAssumption
<1>6. \A v \in Syncers \ {w} : UpToDate(v)'
    BY <1>1, <1>5 DEF UpToDate
<1>. QED  BY <1>1, <1>2, <1>3, <1>4, <1>6

(* The requests that a claim outdates are blank. *)
LEMMA OutdatedTabs ==
    ASSUME RowsSane, TabsSane, NEW w \in Syncers, tab' \in {tab, Outdated(w)},
           conn.id <= conn'.id, conn'.id \in Nat
    PROVE  /\ TabsSane'
           /\ \A u \in Tabs : tab'[u] = tab[u] \/ tab'[u].kind \notin {"DECIDE", "CALENDAR"}
<1>1. \A u \in Tabs : tab'[u] \in {tab[u], NoTab}
    BY DEF Outdated
<1>2. tab' \in [Tabs -> TabRows]
    <2>1. CASE tab' = tab
        BY <2>1 DEF TabsSane
    <2>2. CASE tab' = Outdated(w)
        BY <2>2, NoTabRow DEF TabsSane, Outdated
    <2>. QED  BY <2>1, <2>2
<1>3. ASSUME NEW u \in Tabs PROVE TabSane(tab'[u]) /\ tab'[u].seen.id <= conn'.id
    <2>1. CASE tab'[u] = tab[u]
        <3>1. TabSane(tab[u]) /\ tab[u].seen.id <= conn.id
            BY DEF TabsSane
        <3>2. conn.id \in Nat /\ tab[u].seen.id \in Nat
            BY SyncAssumption DEF RowsSane, Conns, TabsSane, TabRows, SeenRows
        <3>. QED  BY <2>1, <3>1, <3>2
    <2>2. CASE tab'[u] = NoTab
        BY <2>2, NoTabRow
    <2>. QED  BY <1>1, <2>1, <2>2
<1>4. TabsSane'
    BY <1>2, <1>3 DEF TabsSane, TabSane
<1>. QED  BY <1>1, <1>4, NoTabRow

LEMMA QuietStep ==
    ASSUME SyncInv, NEW w \in Syncers, NEW j \in JobRows, JobSane(j), j.asked <= clock,
           job' = [job EXCEPT ![w] = j], ~Recording(job[w]), ~Recording(j), conn' \in Conns,
           conn'.id = conn.id, conn'.grant = conn.grant, conn'.key = conn.key, conn'.cal = conn.cal,
           conn'.asked = conn.asked \/ conn'.asked = 0,
           conn'.status = conn.status \/ conn'.status \notin {"NONE", "CLEANUP_FAILED"},
           conn'.status # "NONE" => conn.status # "NONE",
           conn'.lease \in {conn.lease, NoSyncer} \/ conn'.status \in {"ACTIVE", "DISCONNECTING"},
           crowded' \in BOOLEAN, crowded => crowded', mishaps' \in 0..MaxSyncFaults,
           tab' \in {tab, Outdated(w)},
           UNCHANGED <<links, shown, wanted, unmarked, clock, adrift, counted>>, Alone', AllDone'
    PROVE  SyncInv'
<1>0. Sane /\ RowsSane /\ GoogleSane /\ JobsSane /\ TabsSane
    BY DEF SyncInv, Sane
<1>1. clock' \in Nat /\ clock <= clock' /\ conn'.asked <= clock' /\ conn'.id \in Nat
      /\ conn.id <= conn'.id /\ j.asked <= clock'
    BY <1>0, ConnTypes
<1>2. RowsSane'
    <2>1. conn'.status \in {"NONE", "CLEANUP_FAILED"} => conn'.lease = NoSyncer
        BY <1>0 DEF RowsSane
    <2>2. conn'.status # "NONE" => conn'.id \in 1..MaxConns
        BY <1>0 DEF RowsSane
    <2>3. conn'.status = "NONE" => links' = Unlinked /\ conn'.grant = NoAccount
        BY <1>0 DEF RowsSane
    <2>. QED  BY <1>0, <1>1, <2>1, <2>2, <2>3 DEF RowsSane
<1>3. GoogleSane'
    BY <1>0, GoogleStays DEF GoogleSane
<1>4. JobsSane' /\ job'[w] = j /\ \A v \in Syncers \ {w} : job'[v] = job[v]
    BY <1>0, <1>1, JobMoves
<1>5. /\ TabsSane'
      /\ \A t \in Tabs : tab'[t] = tab[t] \/ tab'[t].kind \notin {"DECIDE", "CALENDAR"}
    BY <1>0, <1>1, OutdatedTabs
<1>6. Sane'
    BY <1>2, <1>3, <1>4, <1>5 DEF Sane
<1>7. JobsQuiet
    BY <1>4 DEF JobsQuiet
<1>8. counted' \in Nat /\ counted <= counted'
    BY <1>0 DEF GoogleSane
<1>9. AllShown' /\ AllTold'
    BY <1>0, <1>7, <1>8, StillShown DEF SyncInv
<1>10. Owned'
    BY <1>5, <1>7, StillOwned DEF SyncInv
<1>. QED  BY <1>6, <1>9, <1>10 DEF SyncInv

(* The worker is done, with the lease handed back or another's. *)
LEMMA StopsKeeps ==
    ASSUME SyncInv, NEW w \in Syncers, job' = [job EXCEPT ![w] = Idle], ~Recording(job[w]),
           conn' \in Conns, conn'.id = conn.id, conn'.grant = conn.grant, conn'.key = conn.key,
           conn'.cal = conn.cal, conn'.epoch = conn.epoch, conn'.asked = conn.asked,
           conn'.lease \in {conn.lease, NoSyncer},
           \/ conn'.status = conn.status
           \/ conn'.status = "NEEDS_RECONNECT" /\ conn.status # "NONE",
           mishaps' \in 0..MaxSyncFaults, crowded' = crowded,
           UNCHANGED <<links, shown, wanted, unmarked, tab, clock, adrift, counted>>
    PROVE  SyncInv'
<1>0. Sane /\ JobsSane /\ RowsSane /\ GoogleSane
    BY DEF SyncInv, Sane
<1>1. job'[w] = Idle /\ \A v \in Syncers \ {w} : job'[v] = job[v]
    BY <1>0 DEF JobsSane
<1>2. MidAlone(w)' /\ LeaseAlone(w)' /\ UpToDate(w)' /\ ~Mid(w)'
    BY <1>1, IdleRow DEF MidAlone, LeaseAlone, UpToDate, Mid
<1>3. ~crowded /\ conn'.lease = w => \A v \in Syncers \ {w} : ~Mid(v)
    <2>1. NoSyncer \notin Syncers
        BY SyncAssumption
    <2>. QED  BY <2>1, HolderAlone
<1>4. Alone'
    BY <1>1, <1>2, <1>3, QuietAlone
<1>5. AllDone'
    BY <1>1, <1>2, QuietDone
<1>6. Idle.asked <= clock /\ ~Recording(Idle)
    BY <1>0, IdleRow, ConnTypes DEF Recording
<1>7. crowded' \in BOOLEAN
    BY <1>0 DEF GoogleSane
<1>. QED  BY <1>4, <1>5, <1>6, <1>7, IdleRow, QuietStep

LEMMA StopKeeps ==
    ASSUME SyncInv, NEW w \in Syncers, ~Recording(job[w]), Stop(w) \/ Retry(w),
           UNCHANGED <<links, shown, wanted, unmarked, tab, clock, adrift, crowded, counted, mishaps>>
    PROVE  SyncInv'
<1>0. Sane
    BY DEF SyncInv
<1>1. conn' \in {conn, HandedBack(conn)} /\ job' = [job EXCEPT ![w] = Idle]
    BY DEF Stop, Retry
<1>2. /\ conn' \in Conns /\ conn'.id = conn.id /\ conn'.grant = conn.grant /\ conn'.key = conn.key
      /\ conn'.cal = conn.cal /\ conn'.epoch = conn.epoch /\ conn'.asked = conn.asked
      /\ conn'.lease \in {conn.lease, NoSyncer} /\ conn'.status = conn.status
    BY <1>0, <1>1, HandedRow, ConnTypes
<1>3. mishaps' \in 0..MaxSyncFaults
    BY <1>0 DEF Sane, GoogleSane
<1>. QED  BY <1>1, <1>2, <1>3, StopsKeeps

LEMMA ClaimKeeps ==
    ASSUME SyncInv, NEW w \in Syncers, NEW status \in {"ACTIVE", "DISCONNECTING"}, Claim(w, status)
    PROVE  SyncInv'
<1>0. Sane /\ RowsSane /\ GoogleSane
    BY DEF SyncInv, Sane
<1>. DEFINE j == [Idle EXCEPT !.phase = "READ", !.under = status, !.id = conn.id,
                     !.epoch = conn.epoch, !.grant = conn.grant, !.cal = conn.cal,
                     !.asked = conn.asked]
<1>1. /\ job' = [job EXCEPT ![w] = j] /\ job[w].phase = "IDLE" /\ conn.status = status
      /\ conn' = [conn EXCEPT !.lease = w, !.lapsed = FALSE]
      /\ crowded' = (crowded \/ \E v \in Syncers \ {w} : Mid(v)) /\ tab' = Outdated(w)
      /\ UNCHANGED <<links, shown, wanted, unmarked, clock, adrift, counted, mishaps>>
    BY DEF Claim
<1>2. /\ conn' \in Conns /\ conn'.id = conn.id /\ conn'.grant = conn.grant /\ conn'.key = conn.key
      /\ conn'.cal = conn.cal /\ conn'.epoch = conn.epoch /\ conn'.asked = conn.asked
      /\ conn'.status = conn.status /\ conn'.lease = w
    BY <1>0, <1>1, ConnTypes DEF Conns
<1>3. /\ j \in JobRows /\ j.phase = "READ" /\ j.under = status /\ j.id = conn.id
      /\ j.epoch = conn.epoch /\ j.grant = conn.grant /\ j.cal = conn.cal /\ j.asked = conn.asked
      /\ j.links = Idle.links /\ j.plan = Idle.plan /\ j.left = Idle.left
    <2>1. Idle \in JobRows
        BY IdleRow
    <2>. QED  BY <1>0, <2>1, ConnTypes DEF JobRows, Phases
<1>4. JobSane(j)
    <2>1. conn.id \in 1..MaxConns
        BY <1>0, <1>1 DEF RowsSane
    <2>2. JobSane(Idle) /\ Idle.phase = "IDLE"
        BY IdleRow
    <2>3. \A l \in Lessons : Idle.plan[l] = 0
        BY DEF Idle
    <2>. HIDE DEF j
    <2>. QED  BY <1>3, <2>1, <2>2, <2>3 DEF JobSane
<1>. HIDE DEF j
<1>5. job'[w] = j /\ \A v \in Syncers \ {w} : job'[v] = job[v]
    BY <1>0, <1>1 DEF Sane, JobsSane
<1>6. ~Mid(w)' /\ MidAlone(w)' /\ LeaseAlone(w)'
    BY <1>2, <1>3, <1>5 DEF Mid, MidAlone, LeaseAlone
<1>7. UpToDate(w)'
    BY <1>0, <1>2, <1>3, <1>5, ConnTypes DEF UpToDate
<1>8. Alone'
    BY <1>1, <1>2, <1>5, <1>6, QuietAlone
<1>9. AllDone'
    BY <1>1, <1>2, <1>5, <1>6, <1>7, QuietDone
<1>10. j.asked <= clock /\ ~Recording(job[w]) /\ ~Recording(j)
    BY <1>0, <1>1, <1>3, ConnTypes DEF Recording
<1>11. crowded' \in BOOLEAN /\ mishaps' \in 0..MaxSyncFaults
    BY <1>0, <1>1 DEF GoogleSane
<1>. QED  BY <1>1, <1>2, <1>3, <1>4, <1>8, <1>9, <1>10, <1>11, QuietStep

(* The call's answer only moves the worker on. *)
LEMMA AfterRow ==
    ASSUME Sane, NEW w \in Syncers, NEW answer \in Answers, NEW phase \in Phases
    PROVE  \E j \in JobRows :
             /\ j = After(w, answer, phase)
             /\ j.phase = IF answer = "OK" THEN phase ELSE "FAILED"
             /\ j.under = job[w].under /\ j.id = job[w].id /\ j.epoch = job[w].epoch
             /\ j.grant = job[w].grant /\ j.cal = job[w].cal /\ j.asked = job[w].asked
             /\ j.plan = job[w].plan /\ j.links = job[w].links /\ j.lesson = job[w].lesson
             /\ j.left = job[w].left
<1>1. job[w] \in JobRows
    BY JobTypes
<1>2. "FAILED" \in Phases /\ (answer = "AUTH") \in BOOLEAN
    BY DEF Phases
<1>3. PICK r \in JobRows : r = job[w]
    BY <1>1
<1>4. CASE answer = "OK"
    <2>1. [r EXCEPT !.phase = phase] \in JobRows
        BY DEF JobRows
    <2>2. After(w, answer, phase) = [r EXCEPT !.phase = phase]
        BY <1>3, <1>4 DEF After
    <2>. QED  BY <1>3, <1>4, <2>1, <2>2 DEF JobRows
<1>5. CASE answer # "OK"
    <2>1. PICK auth \in BOOLEAN : auth = (answer = "AUTH")
        BY <1>2
    <2>2. After(w, answer, phase) = [r EXCEPT !.phase = "FAILED", !.auth = auth]
        BY <1>3, <1>5, <2>1 DEF After
    <2>3. [r EXCEPT !.phase = "FAILED", !.auth = auth] \in JobRows
        BY <1>2 DEF JobRows
    <2>. QED  BY <1>3, <1>5, <2>2, <2>3 DEF JobRows
<1>. QED  BY <1>4, <1>5

LEMMA ReadKeeps ==
    ASSUME SyncInv, NEW w \in Syncers, NEW answer \in Answers, Read(w, answer)
    PROVE  SyncInv'
<1>0. Sane /\ RowsSane /\ GoogleSane
    BY DEF SyncInv, Sane
<1>1. PICK a \in JobRows :
             /\ a = After(w, answer, "NEXT")
             /\ a.phase = IF answer = "OK" THEN "NEXT" ELSE "FAILED"
             /\ a.under = job[w].under /\ a.id = job[w].id /\ a.epoch = job[w].epoch
             /\ a.grant = job[w].grant /\ a.cal = job[w].cal /\ a.asked = job[w].asked
             /\ a.plan = job[w].plan /\ a.links = job[w].links /\ a.lesson = job[w].lesson
             /\ a.left = job[w].left
    BY <1>0, AfterRow DEF Phases
<1>. DEFINE plan == IF job[w].under = "ACTIVE" THEN wanted ELSE a.plan
            known == IF Exists(job[w].id) THEN links ELSE Unlinked
            j == [a EXCEPT !.plan = plan, !.links = known]
<1>2. /\ job' = [job EXCEPT ![w] = j] /\ job[w].phase = "READ"
      /\ UNCHANGED <<conn, links, shown, wanted, unmarked, tab, clock, adrift, crowded, counted>>
    BY <1>1 DEF Read
<1>3. /\ j \in JobRows /\ j.phase = (IF answer = "OK" THEN "NEXT" ELSE "FAILED")
      /\ j.under = job[w].under /\ j.id = job[w].id /\ j.epoch = job[w].epoch
      /\ j.grant = job[w].grant /\ j.cal = job[w].cal /\ j.asked = job[w].asked
      /\ j.left = job[w].left /\ j.plan = plan /\ j.links = known
    <2>1. plan \in [Lessons -> 0..MaxContent] /\ known \in [Lessons -> LinkRows]
        BY <1>0, <1>1, UnlinkedRows, JobTypes DEF RowsSane, GoogleSane
    <2>. HIDE DEF plan, known
    <2>. QED  BY <1>1, <2>1 DEF JobRows
<1>. HIDE DEF j
<1>4. JobSane(j)
    <2>1. \A l \in Lessons : Whole(known[l])
        BY <1>0, UnlinkedRows DEF RowsSane
    <2>2. answer = "OK" => job[w].grant \in Accounts
        BY <1>0, JobTypes DEF Read, CallWith
    <2>3. job[w].under = "DISCONNECTING" => \A l \in Lessons : plan[l] = 0
        BY <1>0, <1>1, JobTypes DEF JobSane
    <2>4. job[w].left = 0 /\ job[w].id \in 1..MaxConns
        BY <1>0, <1>2, JobTypes DEF JobSane
    <2>. HIDE DEF plan, known
    <2>. QED  BY <1>3, <2>1, <2>2, <2>3, <2>4 DEF JobSane
<1>5. job'[w] = j /\ \A v \in Syncers \ {w} : job'[v] = job[v]
    BY <1>0, <1>2 DEF Sane, JobsSane
<1>6. ~Mid(w)' /\ MidAlone(w)' /\ ~Recording(job[w]) /\ ~Recording(j)
    BY <1>2, <1>3, <1>5 DEF Mid, MidAlone, Recording
<1>7. ASSUME ~crowded, conn.lease = w
      PROVE  job[w].id = conn.id /\ job[w].grant = conn.grant /\ j.links = links
    <2>1. job[w].id = conn.id /\ job[w].grant = conn.grant
        BY <1>2, <1>7 DEF SyncInv, Alone, LeaseAlone
    <2>2. conn.status # "NONE"
        BY <1>0, <1>7, SyncAssumption DEF RowsSane
    <2>. QED  BY <1>3, <2>1, <2>2 DEF Exists
<1>8. ~crowded => LeaseAlone(w)'
    BY <1>2, <1>3, <1>5, <1>7 DEF LeaseAlone
<1>9. ~crowded => UpToDate(w)'
    <2>1. ~crowded => UpToDate(w)
        BY DEF SyncInv, AllDone
    <2>. QED  BY <1>2, <1>3, <1>5, <2>1 DEF UpToDate
<1>10. conn' \in Conns /\ conn'.lease \in {conn.lease, NoSyncer, w}
       /\ (~crowded /\ conn'.lease = w => \A v \in Syncers \ {w} : ~Mid(v))
    BY <1>0, <1>2, ConnTypes, HolderAlone
<1>11. Alone'
    BY <1>2, <1>5, <1>6, <1>8, <1>10, QuietAlone
<1>12. AllDone'
    BY <1>2, <1>5, <1>6, <1>9, <1>10, QuietDone
<1>13. crowded' \in BOOLEAN /\ mishaps' \in 0..MaxSyncFaults
    BY <1>0, <1>2, CallTypes DEF Read, GoogleSane
<1>14. j.asked <= clock
    BY <1>0, <1>3, JobTypes
<1>. QED  BY <1>2, <1>3, <1>4, <1>6, <1>10, <1>11, <1>12, <1>13, <1>14, QuietStep

(* What a holder that is done with it reads is what there is. *)
LEMMA HeldRow ==
    ASSUME SyncInv, NEW w \in Syncers, Held(w)
    PROVE  /\ conn.status = job[w].under /\ conn.id = job[w].id /\ conn.lease = w
           /\ conn.epoch = job[w].epoch /\ conn.status \in {"ACTIVE", "DISCONNECTING"}
           /\ ~crowded =>
                /\ \A v \in Syncers \ {w} : ~Mid(v)
                /\ LeaseAlone(w)
                /\ conn.status = "ACTIVE" /\ job[w].phase # "IDLE" => job[w].cal = conn.cal
                /\ conn.status = "ACTIVE" /\ job[w].phase \notin {"IDLE", "READ", "FAILED"} =>
                     job[w].plan = wanted \/ unmarked \/ conn.asked > job[w].asked
<1>1. Sane
    BY DEF SyncInv
<1>2. /\ conn.status = job[w].under /\ conn.id = job[w].id /\ conn.lease = w
      /\ conn.epoch = job[w].epoch /\ conn.status \in {"ACTIVE", "DISCONNECTING"}
    BY <1>1, JobTypes DEF Held
<1>3. ~crowded => \A v \in Syncers \ {w} : ~Mid(v)
    BY <1>2, HolderAlone
<1>4. ~crowded => LeaseAlone(w) /\ UpToDate(w)
    BY DEF SyncInv, Alone, AllDone
<1>. QED  BY <1>2, <1>3, <1>4 DEF UpToDate

LEMMA LinkContent ==
    ASSUME Sane, NEW l \in Lessons
    PROVE  links[l] = NoLink <=> links[l].content = 0
    BY DEF Sane, RowsSane, Whole, NoLink

(* A worker that has nothing to catch up with has nothing to do. *)
LEMMA NothingToDo ==
    ASSUME SyncInv, ~crowded, NothingDue, NEW w \in Syncers, job[w].phase = "NEXT", Held(w)
    PROVE  Surplus(w) \cup Missing(w) = {}
<1>0. Sane
    BY DEF SyncInv
<1>1. job[w].links = links /\ job[w].cal = conn.cal /\ conn.asked = 0 /\ ~unmarked
      /\ conn.status = "ACTIVE"
    BY HeldRow DEF LeaseAlone, NothingDue
<1>2. job[w].asked \in Nat
    BY <1>0, JobTypes
<1>3. job[w].plan = wanted
    BY <1>1, <1>2, HeldRow
<1>4. Settled
    BY DEF SyncInv, AllDone
<1>5. \A l \in Lessons : links[l] = NoLink <=> links[l].content = 0
    BY <1>0, LinkContent
<1>. QED  BY <1>1, <1>3, <1>4, <1>5 DEF Settled, Surplus, Missing

LEMMA CheckKeeps ==
    ASSUME SyncInv, NEW w \in Syncers, Check(w)
    PROVE  SyncInv'
<1>0. Sane /\ RowsSane /\ GoogleSane
    BY DEF SyncInv, Sane
<1>1. CASE ~Held(w)
    BY <1>1, StopKeeps DEF Check, Recording
<1>2. CASE Held(w)
    <2>1. PICK phase, l :
            /\ l \in Lessons
            /\ \/ phase = "DELETE" /\ l \in Surplus(w)
               \/ phase = "PUT" /\ Surplus(w) = {} /\ l \in Missing(w)
            /\ job' = [job EXCEPT ![w].phase = phase, ![w].lesson = l]
        BY <1>2 DEF Check, Surplus, Missing
    <2>. DEFINE j == [job[w] EXCEPT !.phase = phase, !.lesson = l]
    <2>2. /\ job[w].phase = "NEXT" /\ conn' = Renewed /\ Surplus(w) \cup Missing(w) # {}
          /\ UNCHANGED <<links, shown, wanted, unmarked, tab, clock, adrift, crowded, counted, mishaps>>
        BY <1>2 DEF Check
    <2>3. job \in [Syncers -> JobRows] /\ job[w] \in JobRows
        BY <1>0 DEF Sane, JobsSane
    <2>4. job' = [job EXCEPT ![w] = j]
        BY <2>1, <2>3
    <2>5. /\ j \in JobRows /\ j.phase = phase /\ j.lesson = l
          /\ j.under = job[w].under /\ j.id = job[w].id /\ j.epoch = job[w].epoch
          /\ j.grant = job[w].grant /\ j.cal = job[w].cal /\ j.asked = job[w].asked
          /\ j.left = job[w].left /\ j.plan = job[w].plan /\ j.links = job[w].links
        BY <2>1, <2>3 DEF JobRows, Phases
    <2>. HIDE DEF j
    <2>6. JobSane(j)
        BY <1>0, <2>1, <2>2, <2>5, JobTypes DEF JobSane, Surplus, Missing
    <2>7. job'[w] = j /\ \A v \in Syncers \ {w} : job'[v] = job[v]
        BY <2>3, <2>4
    <2>8. /\ conn' \in Conns /\ conn'.id = conn.id /\ conn'.grant = conn.grant /\ conn'.key = conn.key
          /\ conn'.cal = conn.cal /\ conn'.epoch = conn.epoch /\ conn'.asked = conn.asked
          /\ conn'.status = conn.status /\ conn'.lease = conn.lease /\ conn.lease = w
          /\ conn.status \in {"ACTIVE", "DISCONNECTING"}
        BY <1>0, <1>2, <2>2, HandedRow, HeldRow
    <2>9. ~crowded => /\ \A v \in Syncers \ {w} : ~Mid(v) /\ ~Mid(v)'
                      /\ job[w].id = conn.id /\ job[w].grant = conn.grant /\ job[w].links = links
        BY <1>2, <2>2, <2>7, HeldRow DEF LeaseAlone, Mid
    <2>10. ~crowded => MidAlone(w)'
        BY <2>2, <2>5, <2>7, <2>8, <2>9 DEF MidAlone
    <2>11. ~crowded => LeaseAlone(w)'
        BY <2>1, <2>2, <2>5, <2>7, <2>8, <2>9 DEF LeaseAlone
    <2>12. Alone'
        BY <2>2, <2>7, <2>8, <2>9, <2>10, <2>11, QuietAlone
    <2>13. ~crowded => UpToDate(w)'
        <3>1. ~crowded => UpToDate(w)
            BY DEF SyncInv, AllDone
        <3>. QED  BY <2>2, <2>5, <2>7, <2>8, <3>1 DEF UpToDate
    <2>14. ~crowded => ~NothingDue
        BY <1>2, <2>2, NothingToDo
    <2>15. AllDone'
        BY <2>2, <2>7, <2>8, <2>13, <2>14, QuietDone
    <2>16. j.asked <= clock /\ ~Recording(job[w]) /\ ~Recording(j)
        BY <1>0, <2>1, <2>2, <2>5, JobTypes DEF Recording
    <2>17. crowded' \in BOOLEAN /\ mishaps' \in 0..MaxSyncFaults
        BY <1>0, <2>2 DEF GoogleSane
    <2>. QED  BY <2>2, <2>4, <2>5, <2>6, <2>8, <2>12, <2>15, <2>16, <2>17, QuietStep
<1>. QED  BY <1>1, <1>2

LEMMA SyncedKeeps ==
    ASSUME SyncInv, NEW w \in Syncers, Synced(w)
    PROVE  SyncInv'
<1>0. Sane /\ RowsSane /\ GoogleSane
    BY DEF SyncInv, Sane
<1>1. CASE ~Held(w)
    BY <1>1, StopKeeps DEF Synced, Recording
<1>2. CASE Held(w)
    <2>1. /\ job[w].phase = "NEXT" /\ job[w].under = "ACTIVE" /\ Surplus(w) \cup Missing(w) = {}
          /\ conn' = [HandedBack(conn) EXCEPT !.asked = StillAsked(w)]
          /\ job' = [job EXCEPT ![w] = Idle]
          /\ UNCHANGED <<links, shown, wanted, unmarked, tab, clock, adrift, crowded, counted, mishaps>>
        BY <1>2 DEF Synced
    <2>2. job'[w] = Idle /\ \A v \in Syncers \ {w} : job'[v] = job[v]
        BY <1>0, <2>1 DEF Sane, JobsSane
    <2>3. StillAsked(w) \in {conn.asked, 0} /\ StillAsked(w) \in Nat
          /\ (StillAsked(w) = 0 => ~(conn.asked > job[w].asked))
        BY <1>0, ConnTypes, JobTypes DEF StillAsked
    <2>4. /\ conn' \in Conns /\ conn'.id = conn.id /\ conn'.grant = conn.grant /\ conn'.key = conn.key
          /\ conn'.cal = conn.cal /\ conn'.asked = StillAsked(w)
          /\ conn'.status = conn.status /\ conn'.lease = NoSyncer
        <3>1. PICK c \in Conns : c = HandedBack(conn)
            BY <1>0, HandedRow
        <3>2. conn' = [c EXCEPT !.asked = StillAsked(w)]
            BY <2>1, <3>1
        <3>. QED  BY <1>0, <2>3, <3>1, <3>2, HandedRow DEF Conns
    <2>5. NoSyncer \notin Syncers /\ Idle.phase = "IDLE"
        BY SyncAssumption, IdleRow
    <2>6. MidAlone(w)' /\ LeaseAlone(w)' /\ ~Mid(w)'
        BY <2>2, <2>5 DEF MidAlone, LeaseAlone, Mid
    <2>7. conn'.lease \in {conn.lease, NoSyncer, w} /\ conn'.lease # w
        BY <2>4, <2>5
    <2>8. Alone'
        BY <2>1, <2>2, <2>4, <2>6, <2>7, QuietAlone
    <2>9. ASSUME ~crowded, NothingDue' PROVE Settled'
        <3>1. job[w].links = links /\ job[w].cal = conn.cal
            BY <1>2, <2>1, <2>9, HeldRow DEF LeaseAlone
        <3>2. ~(conn.asked > job[w].asked) /\ ~unmarked
            BY <2>1, <2>3, <2>4, <2>9 DEF NothingDue
        <3>3. job[w].plan = wanted
            BY <1>2, <2>1, <2>9, <3>2, HeldRow
        <3>4. \A l \in Lessons : links[l] = NoLink <=> links[l].content = 0
            BY <1>0, LinkContent
        <3>5. \A l \in Lessons : ~(l \in Surplus(w)) /\ ~(l \in Missing(w))
            BY <2>1
        <3>6. Settled
            BY <3>1, <3>3, <3>4, <3>5 DEF Settled, Surplus, Missing
        <3>. QED  BY <2>1, <2>4, <3>6 DEF Settled
    <2>10. ~crowded => \A v \in Syncers : ~Mid(v)'
        BY <1>2, <2>2, <2>6, HeldRow DEF Mid
    <2>11. AllDone'
        BY <2>1, <2>4, <2>5, <2>9, <2>10 DEF AllDone, UpToDate
    <2>12. /\ Idle \in JobRows /\ JobSane(Idle) /\ Idle.asked <= clock
           /\ ~Recording(job[w]) /\ ~Recording(Idle)
        BY <1>0, <2>1, IdleRow, ConnTypes DEF Recording
    <2>13. crowded' \in BOOLEAN /\ mishaps' \in 0..MaxSyncFaults
        BY <1>0, <2>1 DEF GoogleSane
    <2>14. conn'.asked = conn.asked \/ conn'.asked = 0
        BY <2>3, <2>4
    <2>. QED  BY <2>1, <2>4, <2>8, <2>11, <2>12, <2>13, <2>14, QuietStep
<1>. QED  BY <1>1, <1>2

LEMMA SyncFailedKeeps ==
    ASSUME SyncInv, NEW w \in Syncers, SyncFailed(w)
    PROVE  SyncInv'
<1>0. Sane /\ RowsSane /\ GoogleSane
    BY DEF SyncInv, Sane
<1>1. CASE ~Held(w)
    BY <1>1, StopKeeps DEF SyncFailed, Recording
<1>2. CASE Held(w)
    <2>1. PICK status : /\ conn' = [HandedBack(conn) EXCEPT !.status = status]
                        /\ status \in {"NEEDS_RECONNECT", conn.status}
        <3>1. PICK c : c = HandedBack(conn)
            OBVIOUS
        <3>2. conn' = [c EXCEPT !.status = IF job[w].auth THEN "NEEDS_RECONNECT" ELSE c.status]
            BY <1>2, <3>1 DEF SyncFailed
        <3>3. c.status = conn.status
            BY <1>0, <3>1, HandedRow
        <3>. QED  BY <3>1, <3>2, <3>3
    <2>2. job' = [job EXCEPT ![w] = Idle] /\ job[w].phase = "FAILED"
          /\ UNCHANGED <<links, shown, wanted, unmarked, tab, clock, adrift, crowded, counted, mishaps>>
        BY <1>2 DEF SyncFailed
    <2>3. conn.status \in {"ACTIVE", "DISCONNECTING"}
        BY <1>2, HeldRow
    <2>4. /\ conn' \in Conns /\ conn'.id = conn.id /\ conn'.grant = conn.grant /\ conn'.key = conn.key
          /\ conn'.cal = conn.cal /\ conn'.epoch = conn.epoch /\ conn'.asked = conn.asked
          /\ conn'.lease = NoSyncer /\ conn'.status = status
        <3>1. PICK c \in Conns : c = HandedBack(conn)
            BY <1>0, HandedRow
        <3>2. conn' = [c EXCEPT !.status = status] /\ status \in Statuses
            BY <1>0, <2>1, <3>1, ConnTypes DEF Statuses
        <3>. QED  BY <1>0, <3>1, <3>2, HandedRow DEF Conns
    <2>5. mishaps' \in 0..MaxSyncFaults /\ ~Recording(job[w])
        BY <1>0, <2>2 DEF GoogleSane, Recording
    <2>. QED  BY <2>1, <2>2, <2>3, <2>4, <2>5, StopsKeeps
<1>. QED  BY <1>1, <1>2

(* A clean-up that goes on. *)
LEMMA CleansOn ==
    ASSUME SyncInv, NEW w \in Syncers, NEW j \in JobRows, JobSane(j), job' = [job EXCEPT ![w] = j],
           job[w].phase \in {"NEXT", "FAILED", "LAST"}, job[w].under = "DISCONNECTING",
           j.phase \in {"LAST", "FINISH"}, j.under = job[w].under,
           j.id = job[w].id, j.epoch = job[w].epoch, j.grant = job[w].grant,
           j.cal = job[w].cal, j.asked = job[w].asked, j.links = job[w].links,
           ~crowded /\ conn.lease = w => j.left = Cardinality(Linked),
           conn' \in {conn, Renewed},
           UNCHANGED <<links, shown, wanted, unmarked, tab, clock, adrift, crowded, counted, mishaps>>
    PROVE  SyncInv'
<1>0. Sane /\ RowsSane /\ GoogleSane
    BY DEF SyncInv, Sane
<1>1. job'[w] = j /\ \A v \in Syncers \ {w} : job'[v] = job[v]
    BY <1>0 DEF Sane, JobsSane
<1>2. /\ conn' \in Conns /\ conn'.id = conn.id /\ conn'.grant = conn.grant /\ conn'.key = conn.key
      /\ conn'.cal = conn.cal /\ conn'.epoch = conn.epoch /\ conn'.asked = conn.asked
      /\ conn'.status = conn.status /\ conn'.lease = conn.lease
    BY <1>0, HandedRow, ConnTypes
<1>3. ~Mid(w)' /\ MidAlone(w)' /\ ~Recording(job[w]) /\ ~Recording(j)
    BY <1>1 DEF Mid, MidAlone, Recording
<1>4. ASSUME ~crowded PROVE LeaseAlone(w)'
    <2>1. LeaseAlone(w)
        BY <1>4 DEF SyncInv, Alone
    <2>2. Linked' = Linked
        BY DEF Linked
    <2>. QED  BY <1>1, <1>2, <1>4, <2>1, <2>2 DEF LeaseAlone
<1>5. UpToDate(w)'
    BY <1>1 DEF UpToDate
<1>6. conn'.lease \in {conn.lease, NoSyncer, w}
      /\ (~crowded /\ conn'.lease = w => \A v \in Syncers \ {w} : ~Mid(v))
    BY <1>2, HolderAlone
<1>7. Alone'
    BY <1>1, <1>2, <1>3, <1>4, <1>6, QuietAlone
<1>8. AllDone'
    BY <1>1, <1>2, <1>3, <1>5, <1>6, QuietDone
<1>9. crowded' \in BOOLEAN /\ mishaps' \in 0..MaxSyncFaults /\ j.asked <= clock
    BY <1>0, JobTypes DEF GoogleSane
<1>. QED  BY <1>2, <1>3, <1>7, <1>8, <1>9, QuietStep

LEMMA EmptiedKeeps ==
    ASSUME SyncInv, NEW w \in Syncers, Emptied(w)
    PROVE  SyncInv'
<1>0. Sane /\ RowsSane /\ GoogleSane
    BY DEF SyncInv, Sane
<1>1. CASE ~Held(w) \/ Linked # {}
    BY <1>1, StopKeeps DEF Emptied, Recording
<1>2. CASE Held(w) /\ Linked = {}
    <2>1. /\ job[w].phase = "NEXT" /\ job[w].under = "DISCONNECTING" /\ conn' = Renewed
          /\ job' = [job EXCEPT ![w].phase = "LAST"]
          /\ UNCHANGED <<links, shown, wanted, unmarked, tab, clock, adrift, crowded, counted, mishaps>>
        BY <1>2 DEF Emptied
    <2>2. job \in [Syncers -> JobRows] /\ job[w] \in JobRows
        BY <1>0 DEF Sane, JobsSane
    <2>. DEFINE j == [job[w] EXCEPT !.phase = "LAST"]
    <2>3. job' = [job EXCEPT ![w] = j]
        BY <2>1, <2>2
    <2>4. /\ j \in JobRows /\ j.phase = "LAST" /\ j.under = job[w].under
          /\ j.id = job[w].id /\ j.epoch = job[w].epoch /\ j.grant = job[w].grant
          /\ j.cal = job[w].cal /\ j.asked = job[w].asked /\ j.links = job[w].links
          /\ j.left = job[w].left /\ j.plan = job[w].plan
        BY <2>2 DEF JobRows, Phases
    <2>. HIDE DEF j
    <2>5. JobSane(job[w])
        BY <1>0, JobTypes
    <2>6. JobSane(j) /\ j.left = 0
        BY <2>1, <2>4, <2>5 DEF JobSane
    <2>7. j.left = Cardinality(Linked)
        BY <1>2, <2>6, FS_EmptySet
    <2>. QED  BY <2>1, <2>3, <2>4, <2>6, <2>7, CleansOn
<1>. QED  BY <1>1, <1>2

LEMMA CleanupFailedKeeps ==
    ASSUME SyncInv, NEW w \in Syncers, CleanupFailed(w)
    PROVE  SyncInv'
<1>0. Sane /\ RowsSane /\ GoogleSane
    BY DEF SyncInv, Sane
<1>1. CASE ~job[w].auth
    BY <1>1, StopKeeps DEF CleanupFailed, Recording
<1>2. CASE job[w].auth
    <2>1. /\ job[w].phase = "FAILED" /\ job[w].under = "DISCONNECTING" /\ conn' = conn
          /\ job' = [job EXCEPT ![w].phase = "LAST", ![w].left = GivenUp(w)]
          /\ UNCHANGED <<links, shown, wanted, unmarked, tab, clock, adrift, crowded, counted, mishaps>>
        BY <1>2 DEF CleanupFailed
    <2>2. job \in [Syncers -> JobRows] /\ job[w] \in JobRows /\ JobSane(job[w])
        BY <1>0 DEF Sane, JobsSane
    <2>3. GivenUp(w) \in Nat
        BY SyncAssumption, FS_Subset, FS_CardinalityType DEF GivenUp, Surplus
    <2>. DEFINE j == [job[w] EXCEPT !.phase = "LAST", !.left = GivenUp(w)]
    <2>4. job' = [job EXCEPT ![w] = j]
        BY <2>1, <2>2
    <2>5. /\ j \in JobRows /\ j.phase = "LAST" /\ j.under = job[w].under
          /\ j.id = job[w].id /\ j.epoch = job[w].epoch /\ j.grant = job[w].grant
          /\ j.cal = job[w].cal /\ j.asked = job[w].asked /\ j.links = job[w].links
          /\ j.left = GivenUp(w) /\ j.plan = job[w].plan
        BY <2>2, <2>3 DEF JobRows, Phases
    <2>. HIDE DEF j
    <2>6. JobSane(j)
        BY <2>1, <2>2, <2>5 DEF JobSane
    <2>7. ASSUME ~crowded, conn.lease = w PROVE j.left = Cardinality(Linked)
        <3>1. job[w].links = links
            BY <2>1, <2>7 DEF SyncInv, Alone, LeaseAlone
        <3>2. Surplus(w) = Linked
            BY <2>1, <2>2, <3>1 DEF Surplus, Linked, JobSane
        <3>. QED  BY <2>5, <3>2 DEF GivenUp
    <2>. QED  BY <2>1, <2>4, <2>5, <2>6, <2>7, CleansOn
<1>. QED  BY <1>1, <1>2

LEMMA LastKeeps ==
    ASSUME SyncInv, NEW w \in Syncers, Last(w)
    PROVE  SyncInv'
<1>0. Sane /\ RowsSane /\ GoogleSane
    BY DEF SyncInv, Sane
<1>1. CASE ~Held(w)
    BY <1>1, StopKeeps DEF Last, Recording
<1>2. CASE Held(w)
    <2>1. /\ job[w].phase = "LAST" /\ conn' = conn
          /\ job' = [job EXCEPT ![w].phase = "FINISH", ![w].next = conn.next]
          /\ UNCHANGED <<links, shown, wanted, unmarked, tab, clock, adrift, crowded, counted, mishaps>>
        BY <1>2 DEF Last
    <2>2. job \in [Syncers -> JobRows] /\ job[w] \in JobRows /\ JobSane(job[w])
        BY <1>0 DEF Sane, JobsSane
    <2>2a. job[w].under = "DISCONNECTING"
        BY <2>1, <2>2 DEF JobSane
    <2>. DEFINE j == [job[w] EXCEPT !.phase = "FINISH", !.next = conn.next]
    <2>3. job' = [job EXCEPT ![w] = j]
        BY <2>1, <2>2
    <2>4. /\ j \in JobRows /\ j.phase = "FINISH" /\ j.under = job[w].under
          /\ j.id = job[w].id /\ j.epoch = job[w].epoch /\ j.grant = job[w].grant
          /\ j.cal = job[w].cal /\ j.asked = job[w].asked /\ j.links = job[w].links
          /\ j.left = job[w].left /\ j.plan = job[w].plan
        BY <1>0, <2>2, ConnTypes DEF JobRows, Phases
    <2>. HIDE DEF j
    <2>5. JobSane(j)
        BY <2>1, <2>2, <2>2a, <2>4 DEF JobSane
    <2>6. ASSUME ~crowded PROVE j.left = Cardinality(Linked)
        BY <1>2, <2>1, <2>4, <2>6, HeldRow DEF LeaseAlone
    <2>. QED  BY <2>1, <2>2a, <2>3, <2>4, <2>5, <2>6, CleansOn
<1>. QED  BY <1>1, <1>2

-----------------------------------------------------------------------------
(* Writes to Google and their records *)

(* A worker between its check of the lease and the record, when it is alone. *)
LEMMA WriterFacts ==
    ASSUME SyncInv, ~crowded, NEW w \in Syncers, Mid(w), job[w].phase # "FORGET"
    PROVE  /\ \A v \in Syncers \ {w} : ~Mid(v)
           /\ ~Forgetting /\ ~NothingDue
           /\ job[w].links = links /\ job[w].grant = conn.grant /\ job[w].id = conn.id
           /\ conn.lease \in {w, NoSyncer} /\ conn.status \notin {"NONE", "CLEANUP_FAILED"}
           /\ Exists(job[w].id)
           /\ \A l \in Linked : links[l].by = conn.grant \/ EventOf(l) \in adrift
<1>1. MidAlone(w) /\ ~NothingDue
    BY DEF SyncInv, Alone, AllDone
<1>2. \A v \in Syncers \ {w} : ~Mid(v)
    BY <1>1 DEF MidAlone
<1>3. ~Forgetting
    BY <1>2 DEF Forgetting, Mid
<1>4. conn.grant \in Accounts
    <2>1. job[w].grant \in Accounts
        BY JobTypes DEF SyncInv, JobSane, Mid
    <2>. QED  BY <1>1, <2>1 DEF MidAlone
<1>5. \A l \in Linked : links[l].by = conn.grant \/ EventOf(l) \in adrift
    BY <1>3, <1>4, SyncAssumption DEF SyncInv, Owned, RowOwned, OwnLinks
<1>. QED  BY <1>1, <1>2, <1>3, <1>5 DEF MidAlone, Exists

LEMMA WriterStep ==
    ASSUME SyncInv, NEW w \in Syncers, NEW j \in JobRows, JobSane(j), Mid(w),
           job[w].phase # "FORGET", job' = [job EXCEPT ![w] = j],
           \/ j = Idle
           \/ /\ j.phase \in {"NEXT", "UNLINK", "LINK", "FAILED"}
              /\ j.under = job[w].under /\ j.id = job[w].id /\ j.epoch = job[w].epoch
              /\ j.grant = job[w].grant /\ j.cal = job[w].cal /\ j.asked = job[w].asked
              /\ j.plan = job[w].plan
              /\ ~crowded => j.links = links',
           RowsSane', GoogleSane', UNCHANGED <<conn, wanted, unmarked, tab, clock, crowded, counted>>,
           ~crowded => Owned' /\ AllShown' /\ AllTold'
    PROVE  SyncInv'
<1>0. Sane /\ RowsSane /\ GoogleSane /\ JobsSane /\ TabsSane
    BY DEF SyncInv, Sane
<1>1. j.asked <= clock' /\ clock' \in Nat /\ clock <= clock' /\ conn'.id \in Nat
      /\ conn.id <= conn'.id
    BY <1>0, JobTypes, IdleRow, ConnTypes
<1>2. JobsSane' /\ job'[w] = j /\ \A v \in Syncers \ {w} : job'[v] = job[v]
    BY <1>0, <1>1, JobMoves
<1>3. TabsSane'
    BY <1>0, <1>1, TabsStay
<1>4. Sane'
    BY <1>2, <1>3 DEF Sane
<1>5. CASE crowded
    BY <1>4, <1>5, CrowdedKeeps
<1>6. CASE ~crowded
    <2>1. /\ \A v \in Syncers \ {w} : ~Mid(v) /\ ~Mid(v)'
          /\ conn.lease \in {w, NoSyncer} /\ conn.status \notin {"NONE", "CLEANUP_FAILED"}
          /\ ~NothingDue /\ job[w].id = conn.id /\ job[w].grant = conn.grant
        BY <1>2, <1>6, WriterFacts DEF Mid
    <2>2. NoSyncer \notin Syncers /\ Idle.phase = "IDLE"
        BY SyncAssumption, IdleRow
    <2>3. Alone'
        <3>1. ASSUME NEW v \in Syncers \ {w} PROVE MidAlone(v)' /\ LeaseAlone(v)'
            BY <2>1, <2>2 DEF MidAlone, LeaseAlone
        <3>2. MidAlone(w)'
            BY <1>2, <1>6, <2>1, <2>2 DEF MidAlone, Mid
        <3>3. LeaseAlone(w)'
            BY <1>2, <1>6, <2>1, <2>2 DEF LeaseAlone
        <3>. QED  BY <3>1, <3>2, <3>3 DEF Alone
    <2>4. AllDone'
        <3>1. \A v \in Syncers : UpToDate(v)
            BY <1>6 DEF SyncInv, AllDone
        <3>2. \A v \in Syncers \ {w} : UpToDate(v)'
            BY <1>2, <3>1 DEF UpToDate
        <3>3. UpToDate(w)'
            BY <1>2, <2>2, <3>1 DEF UpToDate, Mid
        <3>4. ~NothingDue'
            BY <2>1 DEF NothingDue
        <3>. QED  BY <3>2, <3>3, <3>4 DEF AllDone
    <2>. QED  BY <1>4, <1>6, <2>3, <2>4 DEF SyncInv
<1>. QED  BY <1>5, <1>6

LEMMA OwnedKept ==
    ASSUME Owned, UNCHANGED <<conn, tab>>, ~crowded, UNCHANGED crowded,
           \A a : conn.grant \in {NoAccount, a} /\ OwnLinks(a) => OwnLinks(a)'
    PROVE  Owned'
<1>1. \A a : Owner(a) => Owner(a)'
    BY DEF Owner
<1>2. RowOwned /\ \A t \in Tabs : TabOwned(t)
    BY DEF Owned
<1>3. RowOwned'
    BY <1>1, <1>2 DEF RowOwned, Unnamed
<1>4. \A t \in Tabs : TabOwned(t)'
    BY <1>1, <1>2 DEF TabOwned, Unnamed
<1>. QED  BY <1>3, <1>4 DEF Owned

LEMMA PlaceTypes ==
    ASSUME Sane, NEW w \in Syncers, job[w].phase \in {"DELETE", "UNLINK", "PUT", "LINK"}
    PROVE  /\ job[w].lesson \in Lessons
           /\ Place(w, job[w].cal) \in Places
           /\ job[w].phase \in {"DELETE", "UNLINK"} =>
                /\ job[w].links[job[w].lesson] # NoLink
                /\ Place(w, job[w].links[job[w].lesson].cal) \in Places
           /\ job[w].phase \in {"PUT", "LINK"} =>
                job[w].plan[job[w].lesson] \in 0..MaxContent /\ job[w].plan[job[w].lesson] # 0
<1>1. job[w] \in JobRows /\ JobSane(job[w])
    BY JobTypes
<1>2. job[w].lesson \in Lessons /\ job[w].grant \in Accounts /\ job[w].id \in 1..MaxConns
      /\ job[w].cal \in Names
    BY <1>1 DEF JobSane, JobRows
<1>3. job[w].phase \in {"DELETE", "UNLINK"} =>
         job[w].links[job[w].lesson] # NoLink /\ job[w].links[job[w].lesson].cal \in Names
    BY <1>1, <1>2 DEF JobSane, Whole
<1>4. job[w].phase \in {"PUT", "LINK"} =>
         job[w].plan[job[w].lesson] \in 0..MaxContent /\ job[w].plan[job[w].lesson] # 0
    BY <1>1, <1>2 DEF JobSane, JobRows
<1>. QED  BY <1>2, <1>3, <1>4 DEF Place, Places

(* Google is called: the event has the content, and the answer may be lost. *)
LEMMA WrittenKeeps ==
    ASSUME SyncInv, NEW w \in Syncers, NEW answer \in Answers, NEW place, NEW content, NEW cal,
           NEW phase, Mid(w), UNCHANGED <<conn, links, wanted, unmarked, tab, clock, crowded, counted>>,
           \/ /\ job[w].phase = "DELETE" /\ phase = "UNLINK" /\ content = 0
              /\ cal = job[w].links[job[w].lesson].cal
           \/ /\ job[w].phase = "PUT" /\ phase = "LINK" /\ content = job[w].plan[job[w].lesson]
              /\ cal = job[w].cal,
           place = Place(w, cal),
           shown' = (IF answer \in {"OK", "LOST"} THEN [shown EXCEPT ![place] = content] ELSE shown),
           adrift' = (IF answer = "LOST" THEN adrift \cup {place} ELSE adrift),
           job' = [job EXCEPT ![w] = After(w, answer, phase)], mishaps' \in 0..MaxSyncFaults
    PROVE  SyncInv'
<1>0. Sane /\ RowsSane /\ GoogleSane /\ JobsSane
    BY DEF SyncInv, Sane
<1>1. /\ place \in Places /\ job[w].lesson \in Lessons /\ content \in 0..MaxContent
    BY <1>0, PlaceTypes, SyncAssumption
<1>2. PICK j \in JobRows :
             /\ j = After(w, answer, phase)
             /\ j.phase = IF answer = "OK" THEN phase ELSE "FAILED"
             /\ j.under = job[w].under /\ j.id = job[w].id /\ j.epoch = job[w].epoch
             /\ j.grant = job[w].grant /\ j.cal = job[w].cal /\ j.asked = job[w].asked
             /\ j.plan = job[w].plan /\ j.links = job[w].links /\ j.lesson = job[w].lesson
             /\ j.left = job[w].left
    <2>1. phase \in Phases
        BY DEF Phases
    <2>. QED  BY <1>0, <2>1, AfterRow
<1>3. job' = [job EXCEPT ![w] = j]
    BY <1>2
<1>4. JobSane(j)
    <2>1. JobSane(job[w])
        BY <1>0, JobTypes
    <2>. QED  BY <1>2, <2>1 DEF JobSane
<1>5. job'[w] = j /\ \A v \in Syncers \ {w} : job'[v] = job[v]
    BY <1>0, <1>3 DEF JobsSane
<1>6. shown \in [Places -> 0..MaxContent] /\ shown' \in [Places -> 0..MaxContent]
      /\ adrift \subseteq adrift' /\ adrift' \subseteq Places
    BY <1>0, <1>1 DEF GoogleSane
<1>7. \A p \in Places : p # place => shown'[p] = shown[p]
    BY <1>1, <1>6
<1>8. GoogleSane'
    <2>1. ShownPlaces' \subseteq ShownPlaces \cup {place}
        BY <1>7 DEF ShownPlaces
    <2>2. IsFiniteSet(ShownPlaces \cup {place})
        BY <1>0, FS_AddElement DEF GoogleSane
    <2>3. IsFiniteSet(ShownPlaces')
        BY <2>1, <2>2, FS_Subset
    <2>. QED  BY <1>0, <1>6, <2>3 DEF GoogleSane
<1>9. RowsSane'
    BY <1>0 DEF RowsSane
<1>10. ASSUME ~crowded PROVE Owned' /\ AllShown' /\ AllTold'
    <2>1. /\ \A v \in Syncers \ {w} : ~Mid(v) /\ ~Mid(v)' /\ ~Forgetting
          /\ job[w].links = links /\ job[w].grant = conn.grant /\ job[w].id = conn.id
        BY <1>5, <1>10, WriterFacts DEF Mid
    <2>2. ~Forgetting /\ ~Forgetting'
        BY <1>2, <1>5, <1>10, <2>1, WriterFacts DEF Forgetting, Mid
    <2>3. Linked' = Linked /\ Events' = Events
        BY DEF Linked, Events
    <2>4. Owned'
        <3>1. \A a : OwnLinks(a) => OwnLinks(a)'
            BY <1>6, <2>2, <2>3 DEF OwnLinks, EventOf
        <3>. QED  BY <1>10, <3>1, OwnedKept DEF SyncInv
    <2>5. place = <<j.grant, cal, j.id, j.lesson>>
        BY <1>2 DEF Place
    <2>6. answer \in {"OK", "LOST"} => shown'[place] = content
        BY <1>1, <1>6
    <2>7. \A v \in Syncers : WriteShown(v)'
        <3>1. \A v \in Syncers \ {w} : WriteShown(v)'
            BY <2>1 DEF WriteShown, Mid
        <3>2. WriteShown(w)'
            BY <1>2, <1>5, <2>5, <2>6 DEF WriteShown, Place
        <3>. QED  BY <3>1, <3>2
    <2>8. ASSUME NEW l \in Linked PROVE LinkedIsShown(l)'
        <3>1. LinkedIsShown(l) /\ ~Writing(l)
            BY <1>10, <2>1 DEF SyncInv, AllShown, Writing, Mid
        <3>2. EventOf(l)' = EventOf(l) /\ EventOf(l) \in Places
            BY <1>0, LinkedTypes DEF EventOf, Events
        <3>3. EventOf(l) \in adrift \/ shown[EventOf(l)] = links[l].content
            BY <3>1 DEF LinkedIsShown, EventOf
        <3>4. CASE EventOf(l) # place
            BY <1>6, <1>7, <3>2, <3>3, <3>4 DEF LinkedIsShown, EventOf
        <3>5. CASE EventOf(l) = place /\ answer = "OK"
            <4>1. l = j.lesson
                BY <2>5, <3>5 DEF EventOf
            <4>2. Writing(l)'
                BY <1>2, <1>5, <3>5, <4>1 DEF Writing
            <4>. QED  BY <4>2 DEF LinkedIsShown
        <3>6. CASE EventOf(l) = place /\ answer = "LOST"
            BY <3>2, <3>6 DEF LinkedIsShown, EventOf
        <3>7. CASE answer \notin {"OK", "LOST"}
            BY <3>2, <3>3, <3>7 DEF LinkedIsShown, EventOf
        <3>. QED  BY <3>4, <3>5, <3>6, <3>7
    <2>9. AllShown'
        BY <2>3, <2>7, <2>8 DEF AllShown
    <2>10. Orphans' \subseteq Orphans
        <3>1. Kept' = Kept /\ InHand = {}
            BY <2>1, <2>2, <2>3 DEF Kept, InHand, Mid
        <3>2. ASSUME NEW p \in Orphans' PROVE p \in Orphans
            <4>1. p \in Places /\ shown'[p] # 0 /\ p \notin Kept /\ p \notin InHand' /\ p \notin adrift'
                BY <3>1 DEF Orphans, ShownPlaces
            <4>2. shown[p] # 0
                <5>1. CASE p # place
                    BY <1>7, <4>1, <5>1
                <5>2. CASE answer \notin {"OK", "LOST"}
                    BY <4>1, <5>2
                <5>3. CASE p = place /\ answer = "LOST"
                    BY <4>1, <5>3
                <5>4. CASE p = place /\ answer = "OK"
                    <6>1. content # 0
                        BY <2>6, <4>1, <5>4
                    <6>2. job'[w].phase = "LINK" /\ cal = j.cal
                        BY <1>2, <1>5, <5>4, <6>1
                    <6>3. place \in InHand'
                        BY <1>5, <2>5, <6>2 DEF InHand, Place
                    <6>. QED  BY <4>1, <5>4, <6>3
                <5>. QED  BY <5>1, <5>2, <5>3, <5>4
            <4>. QED  BY <1>6, <3>1, <4>1, <4>2 DEF Orphans, ShownPlaces
        <3>. QED  BY <3>2
    <2>11. AllTold'
        <3>1. counted' \in Nat /\ counted <= counted'
            BY <1>0 DEF GoogleSane
        <3>. QED  BY <1>0, <2>10, <3>1, StillTold DEF SyncInv
    <2>. QED  BY <2>4, <2>9, <2>11
<1>11. j.phase \in {"UNLINK", "LINK", "FAILED"} /\ job[w].phase # "FORGET"
    BY <1>2
<1>12. ~crowded => j.links = links'
    BY <1>2, <1>11, WriterFacts
<1>. QED  BY <1>2, <1>3, <1>4, <1>8, <1>9, <1>10, <1>11, <1>12, WriterStep

LEMMA DeleteKeeps ==
    ASSUME SyncInv, NEW w \in Syncers, NEW answer \in Answers, Delete(w, answer)
    PROVE  SyncInv'
<1>1. PICK place, cal : place = Place(w, cal) /\ cal = job[w].links[job[w].lesson].cal
    OBVIOUS
<1>2. /\ job[w].phase = "DELETE"
      /\ shown' = (IF answer \in {"OK", "LOST"} THEN [shown EXCEPT ![place] = 0] ELSE shown)
      /\ adrift' = (IF answer = "LOST" THEN adrift \cup {place} ELSE adrift)
      /\ job' = [job EXCEPT ![w] = After(w, answer, "UNLINK")]
      /\ UNCHANGED <<conn, links, wanted, unmarked, tab, clock, crowded, counted>>
    BY <1>1 DEF Delete
<1>3. mishaps' \in 0..MaxSyncFaults
    BY CallTypes DEF Delete, SyncInv, Sane
<1>4. Mid(w)
    BY <1>2 DEF Mid
<1>. QED  BY <1>1, <1>2, <1>3, <1>4, WrittenKeeps

LEMMA PutKeeps ==
    ASSUME SyncInv, NEW w \in Syncers, NEW answer \in Answers, Put(w, answer)
    PROVE  SyncInv'
<1>1. PICK place, cal : place = Place(w, cal) /\ cal = job[w].cal
    OBVIOUS
<1>a. PICK content : content = job[w].plan[job[w].lesson]
    OBVIOUS
<1>2. /\ job[w].phase = "PUT"
      /\ shown' = (IF answer \in {"OK", "LOST"} THEN [shown EXCEPT ![place] = content] ELSE shown)
      /\ adrift' = (IF answer = "LOST" THEN adrift \cup {place} ELSE adrift)
      /\ job' = [job EXCEPT ![w] = After(w, answer, "LINK")]
      /\ UNCHANGED <<conn, links, wanted, unmarked, tab, clock, crowded, counted>>
    BY <1>1, <1>a DEF Put
<1>3. mishaps' \in 0..MaxSyncFaults
    BY CallTypes DEF Put, SyncInv, Sane
<1>4. Mid(w)
    BY <1>2 DEF Mid
<1>. QED  BY <1>1, <1>a, <1>2, <1>3, <1>4, WrittenKeeps

(* The link table says what was written. *)
LEMMA RecordKeeps ==
    ASSUME SyncInv, ~crowded, NEW w \in Syncers, NEW lesson, NEW link, NEW cal, NEW place,
           lesson = job[w].lesson, place = Place(w, cal),
           \/ /\ job[w].phase = "UNLINK" /\ link = NoLink /\ cal = job[w].links[lesson].cal
           \/ /\ job[w].phase = "LINK" /\ cal = job[w].cal
              /\ link = [cal |-> cal, content |-> job[w].plan[lesson], by |-> job[w].grant],
           links' = [links EXCEPT ![lesson] = link], adrift' = adrift \ {place},
           job'[w].phase = "NEXT", \A v \in Syncers \ {w} : job'[v] = job[v],
           UNCHANGED <<conn, shown, tab, crowded, counted>>
    PROVE  Owned' /\ AllShown' /\ AllTold'
<1>0. Sane /\ RowsSane /\ GoogleSane
    BY DEF SyncInv, Sane
<1>1. Mid(w) /\ job[w].phase # "FORGET"
    BY DEF Mid
<1>2. /\ \A v \in Syncers \ {w} : ~Mid(v) /\ ~Mid(v)' /\ ~Forgetting
      /\ job[w].links = links /\ job[w].grant = conn.grant /\ job[w].id = conn.id
      /\ \A l \in Linked : links[l].by = conn.grant \/ EventOf(l) \in adrift
    BY <1>1, WriterFacts DEF Mid
<1>3. ~Forgetting /\ ~Forgetting'
    BY <1>1, <1>2, WriterFacts DEF Forgetting, Mid
<1>4. lesson \in Lessons /\ job[w].grant \in Accounts /\ conn.grant \in Accounts
      /\ (job[w].phase = "LINK" => job[w].plan[lesson] # 0)
    BY <1>0, <1>1, <1>2, PlaceTypes, JobTypes DEF JobSane, Mid
<1>5. place = <<conn.grant, cal, conn.id, lesson>>
    BY <1>2 DEF Place
<1>6. \A l \in Lessons : l # lesson => links'[l] = links[l]
    BY <1>0, <1>4 DEF RowsSane
<1>7. links'[lesson] = link
    BY <1>0, <1>4 DEF RowsSane
<1>8. \A l \in Lessons \ {lesson} : l \in Linked' <=> l \in Linked
    BY <1>6 DEF Linked
<1>9. lesson \in Linked' <=> job[w].phase = "LINK"
    <2>1. job[w].phase = "LINK" => link # NoLink
        BY <1>4 DEF NoLink
    <2>. QED  BY <1>4, <1>7, <2>1 DEF Linked
<1>10. \A l \in Linked \ {lesson} : EventOf(l)' = EventOf(l) /\ EventOf(l) # place
    BY <1>5, <1>6 DEF EventOf, Linked
<1>11. job[w].phase = "LINK" => /\ EventOf(lesson)' = place /\ links'[lesson].by = conn.grant
                                /\ links'[lesson].content = job[w].plan[lesson]
    BY <1>2, <1>5, <1>7 DEF EventOf
<1>12. lesson \in Linked => links[lesson].cal = cal
    BY <1>0, <1>2, JobTypes DEF Linked, JobSane
<1>13. lesson \in Linked => EventOf(lesson) = place \/ EventOf(lesson) \in adrift
    BY <1>2, <1>5, <1>12 DEF EventOf
<1>14. Linked' \subseteq Lessons
    BY DEF Linked
<1>15. Owned'
    <2>1. ASSUME NEW a, conn.grant \in {NoAccount, a}, OwnLinks(a) PROVE OwnLinks(a)'
        <3>1. a = conn.grant
            BY <1>4, <2>1, SyncAssumption
        <3>2. ASSUME NEW l \in Linked', l # lesson
              PROVE  links'[l].by = a \/ EventOf(l)' \in adrift'
            <4>1. l \in Linked /\ links'[l] = links[l] /\ EventOf(l)' = EventOf(l)
                  /\ EventOf(l) # place
                BY <1>6, <1>8, <1>10, <1>14, <3>2
            <4>2. links[l].by = a \/ EventOf(l) \in adrift
                BY <1>3, <2>1, <4>1 DEF OwnLinks
            <4>. QED  BY <4>1, <4>2
        <3>3. lesson \in Linked' => links'[lesson].by = a
            BY <1>9, <1>11, <3>1
        <3>. QED  BY <3>2, <3>3 DEF OwnLinks
    <2>. QED  BY <2>1, OwnedKept DEF SyncInv
<1>16. AllShown'
    <2>1. \A v \in Syncers : WriteShown(v)'
        BY <1>2 DEF WriteShown, Mid
    <2>2. ASSUME NEW l \in Linked', l # lesson PROVE LinkedIsShown(l)'
        <3>1. l \in Linked /\ links'[l] = links[l] /\ EventOf(l)' = EventOf(l)
              /\ EventOf(l) # place
            BY <1>6, <1>8, <1>10, <1>14, <2>2
        <3>2. LinkedIsShown(l)
            BY <3>1 DEF SyncInv, AllShown
        <3>3. ~Writing(l)
            BY <1>2, <2>2 DEF Writing, Mid
        <3>4. EventOf(l) \in adrift \/ shown[EventOf(l)] = links[l].content
            BY <3>2, <3>3 DEF LinkedIsShown, EventOf
        <3>5. EventOf(l)' \in adrift' \/ shown'[EventOf(l)'] = links'[l].content
            BY <3>1, <3>4
        <3>. QED  BY <3>5 DEF LinkedIsShown, EventOf
    <2>3. ASSUME lesson \in Linked' PROVE LinkedIsShown(lesson)'
        <3>1. job[w].phase = "LINK"
            BY <1>9, <2>3
        <3>2. shown[place] = job[w].plan[lesson]
            BY <3>1 DEF SyncInv, AllShown, WriteShown
        <3>3. shown'[EventOf(lesson)'] = links'[lesson].content
            BY <1>11, <3>1, <3>2
        <3>. QED  BY <3>3 DEF LinkedIsShown, EventOf
    <2>. QED  BY <2>1, <2>2, <2>3 DEF AllShown
<1>17. AllTold'
    <2>1. Kept = Events /\ Kept' = Events'
        BY <1>3 DEF Kept
    <2>2. Events = {EventOf(l) : l \in Linked} /\ Events' = {EventOf(l)' : l \in Linked'}
        BY DEF Events, EventOf
    <2>3. InHand \subseteq {place} /\ (job[w].phase = "UNLINK" => InHand = {})
        BY <1>2 DEF InHand, Place, Mid
    <2>4. job[w].phase = "UNLINK" => shown[place] = 0
        BY DEF SyncInv, AllShown, WriteShown
    <2>5. ASSUME NEW p \in Orphans' PROVE p \in Orphans
        <3>1. p \in ShownPlaces /\ p \notin Events' /\ p \notin adrift' /\ shown[p] # 0
            BY <2>1, <2>5 DEF Orphans, ShownPlaces
        <3>2. p # place
            <4>1. CASE job[w].phase = "UNLINK"
                BY <2>4, <3>1, <4>1
            <4>2. CASE job[w].phase = "LINK"
                BY <1>9, <1>11, <2>2, <3>1, <4>2
            <4>. QED  BY <4>1, <4>2
        <3>3. p \notin adrift /\ p \notin InHand
            BY <2>3, <3>1, <3>2
        <3>4. ASSUME NEW l \in Linked PROVE p # EventOf(l)
            <4>1. CASE l = lesson
                BY <1>13, <3>2, <3>3, <4>1
            <4>2. CASE l # lesson
                <5>1. l \in Linked' /\ EventOf(l)' = EventOf(l)
                    BY <1>8, <1>10, <4>2 DEF Linked
                <5>. QED  BY <2>2, <3>1, <5>1
            <4>. QED  BY <4>1, <4>2
        <3>5. p \notin Kept
            BY <2>1, <2>2, <3>4
        <3>. QED  BY <3>1, <3>3, <3>5 DEF Orphans
    <2>6. counted' \in Nat /\ counted <= counted'
        BY <1>0 DEF GoogleSane
    <2>. QED  BY <1>0, <2>5, <2>6, StillTold DEF SyncInv
<1>. QED  BY <1>15, <1>16, <1>17

LEMMA UnlinkKeeps ==
    ASSUME SyncInv, NEW w \in Syncers, Unlink(w)
    PROVE  SyncInv'
<1>0. Sane /\ RowsSane /\ GoogleSane
    BY DEF SyncInv, Sane
<1>1. PICK place, cal, lesson : /\ place = Place(w, cal) /\ cal = job[w].links[lesson].cal
                                /\ lesson = job[w].lesson
    OBVIOUS
<1>2. job \in [Syncers -> JobRows] /\ job[w] \in JobRows /\ JobSane(job[w])
    BY <1>0 DEF Sane, JobsSane
<1>. DEFINE known == [job[w].links EXCEPT ![lesson] = NoLink]
            j == [job[w] EXCEPT !.phase = "NEXT", !.links = known]
<1>3. /\ job[w].phase = "UNLINK" /\ adrift' = adrift \ {place}
      /\ links' = (IF Exists(job[w].id) THEN [links EXCEPT ![lesson] = NoLink] ELSE links)
      /\ UNCHANGED <<conn, shown, wanted, unmarked, tab, clock, crowded, counted, mishaps>>
    BY <1>1 DEF Unlink
<1>4. job' = [job EXCEPT ![w] = j]
    BY <1>1, <1>2 DEF Unlink
<1>5. lesson \in Lessons
    BY <1>0, <1>1, <1>3, PlaceTypes
<1>6. NoLink \in LinkRows
    BY SyncAssumption DEF NoLink, LinkRows
<1>7. known \in [Lessons -> LinkRows] /\ \A l \in Lessons : Whole(known[l])
    BY <1>2, <1>5, <1>6 DEF JobRows, JobSane, Whole
<1>. HIDE DEF known
<1>8. /\ j \in JobRows /\ j.phase = "NEXT" /\ j.under = job[w].under
      /\ j.id = job[w].id /\ j.epoch = job[w].epoch /\ j.grant = job[w].grant
      /\ j.cal = job[w].cal /\ j.asked = job[w].asked /\ j.links = known
      /\ j.left = job[w].left /\ j.plan = job[w].plan
    BY <1>2, <1>7 DEF JobRows, Phases
<1>. HIDE DEF j
<1>9. JobSane(j)
    BY <1>2, <1>3, <1>7, <1>8 DEF JobSane
<1>10. job'[w] = j /\ \A v \in Syncers \ {w} : job'[v] = job[v]
    BY <1>2, <1>4
<1>11. RowsSane'
    <2>1. links' \in [Lessons -> LinkRows] /\ \A l \in Lessons : Whole(links'[l])
        BY <1>0, <1>3, <1>5, <1>6 DEF RowsSane, Whole
    <2>2. conn.status = "NONE" => links' = Unlinked
        BY <1>0, <1>3 DEF RowsSane, Exists
    <2>. QED  BY <1>0, <1>3, <2>1, <2>2 DEF RowsSane
<1>12. GoogleSane'
    BY <1>0, <1>3 DEF GoogleSane, ShownPlaces
<1>13. Mid(w) /\ job[w].phase # "FORGET"
    BY <1>3 DEF Mid
<1>14. ASSUME ~crowded
       PROVE  links' = [links EXCEPT ![lesson] = NoLink] /\ j.links = links'
    BY <1>3, <1>8, <1>13, <1>14, WriterFacts DEF known
<1>15. ASSUME ~crowded PROVE Owned' /\ AllShown' /\ AllTold'
    BY <1>1, <1>3, <1>8, <1>10, <1>14, <1>15, RecordKeeps
<1>. QED  BY <1>3, <1>4, <1>8, <1>9, <1>11, <1>12, <1>13, <1>14, <1>15, WriterStep

LEMMA LinkKeeps ==
    ASSUME SyncInv, NEW w \in Syncers, Link(w)
    PROVE  SyncInv'
<1>0. Sane /\ RowsSane /\ GoogleSane
    BY DEF SyncInv, Sane
<1>1. PICK place, cal, lesson, new :
        /\ place = Place(w, cal) /\ cal = job[w].cal /\ lesson = job[w].lesson
        /\ new = [cal |-> cal, content |-> job[w].plan[lesson], by |-> job[w].grant]
    OBVIOUS
<1>2. job \in [Syncers -> JobRows] /\ job[w] \in JobRows /\ JobSane(job[w])
    BY <1>0 DEF Sane, JobsSane
<1>3. /\ job[w].phase = "LINK"
      /\ UNCHANGED <<conn, shown, wanted, unmarked, tab, clock, crowded, counted, mishaps>>
    BY DEF Link
<1>4. /\ lesson \in Lessons /\ place \in Places
      /\ job[w].plan[lesson] \in 0..MaxContent /\ job[w].plan[lesson] # 0
    BY <1>0, <1>1, <1>3, PlaceTypes
<1>5. new \in LinkRows /\ Whole(new) /\ new.cal = job[w].cal /\ new.content = job[w].plan[lesson]
    <2>1. job[w].grant \in Accounts /\ job[w].cal \in Names
        BY <1>2, <1>3 DEF JobSane, JobRows
    <2>. QED  BY <1>1, <1>4, <2>1 DEF LinkRows, Whole
<1>6. Mid(w) /\ job[w].phase # "FORGET"
    BY <1>3 DEF Mid
<1>7. CASE Exists(job[w].id)
    <2>. DEFINE known == [job[w].links EXCEPT ![lesson] = new]
                j == [job[w] EXCEPT !.phase = "NEXT", !.links = known]
    <2>1. links' = [links EXCEPT ![lesson] = new] /\ adrift' = adrift \ {place}
        BY <1>1, <1>7 DEF Link
    <2>2a. job' = [job EXCEPT ![w].phase = "NEXT", ![w].links[lesson] = new]
        BY <1>1, <1>7 DEF Link
    <2>2. job' = [job EXCEPT ![w] = j]
        BY <1>2, <2>2a
    <2>3. known \in [Lessons -> LinkRows] /\ \A l \in Lessons : Whole(known[l])
        BY <1>2, <1>4, <1>5 DEF JobRows, JobSane
    <2>. HIDE DEF known
    <2>4. /\ j \in JobRows /\ j.phase = "NEXT" /\ j.under = job[w].under
          /\ j.id = job[w].id /\ j.epoch = job[w].epoch /\ j.grant = job[w].grant
          /\ j.cal = job[w].cal /\ j.asked = job[w].asked /\ j.links = known
          /\ j.left = job[w].left /\ j.plan = job[w].plan
        BY <1>2, <2>3 DEF JobRows, Phases
    <2>. HIDE DEF j
    <2>5. JobSane(j)
        BY <1>2, <1>3, <2>3, <2>4 DEF JobSane
    <2>6. job'[w] = j /\ \A v \in Syncers \ {w} : job'[v] = job[v]
        BY <1>2, <2>2
    <2>7. RowsSane'
        <3>1. links' \in [Lessons -> LinkRows] /\ \A l \in Lessons : Whole(links'[l])
            BY <1>0, <1>4, <1>5, <2>1 DEF RowsSane
        <3>. QED  BY <1>0, <1>3, <1>7, <3>1 DEF RowsSane, Exists
    <2>8. GoogleSane'
        BY <1>0, <1>3, <2>1 DEF GoogleSane, ShownPlaces
    <2>9. ASSUME ~crowded PROVE j.links = links'
        BY <1>6, <2>1, <2>4, <2>9, WriterFacts DEF known
    <2>10. ASSUME ~crowded PROVE Owned' /\ AllShown' /\ AllTold'
        BY <1>1, <1>3, <2>1, <2>4, <2>6, <2>10, RecordKeeps
    <2>. QED  BY <1>3, <1>6, <2>2, <2>4, <2>5, <2>7, <2>8, <2>9, <2>10, WriterStep
<1>8. CASE ~Exists(job[w].id)
    <2>1. crowded
        BY <1>6, <1>8, WriterFacts
    <2>2. PICK j \in JobRows :
             /\ j = After(w, "FAIL", "NEXT")
             /\ j.phase = "FAILED"
             /\ j.under = job[w].under /\ j.id = job[w].id /\ j.epoch = job[w].epoch
             /\ j.grant = job[w].grant /\ j.cal = job[w].cal /\ j.asked = job[w].asked
             /\ j.plan = job[w].plan /\ j.links = job[w].links /\ j.lesson = job[w].lesson
             /\ j.left = job[w].left
        <3>1. "FAIL" \in Answers /\ "FAIL" # "OK" /\ "NEXT" \in Phases
            BY DEF Answers, Phases
        <3>. QED  BY <1>0, <3>1, AfterRow
    <2>3. job' = [job EXCEPT ![w] = j] /\ adrift' = adrift \cup {place} /\ links' = links
        BY <1>1, <1>8, <2>2 DEF Link
    <2>4. JobSane(j)
        BY <1>2, <1>3, <2>2 DEF JobSane
    <2>5. RowsSane'
        BY <1>0, <1>3, <2>3 DEF RowsSane
    <2>6. GoogleSane'
        BY <1>0, <1>3, <1>4, <2>3 DEF GoogleSane, ShownPlaces
    <2>. QED  BY <1>3, <1>6, <2>1, <2>2, <2>3, <2>4, <2>5, <2>6, WriterStep
<1>. QED  BY <1>7, <1>8

-----------------------------------------------------------------------------
(* The end of a clean-up, and of a worker *)

LEMMA SwitchKeeps ==
    ASSUME SyncInv, NEW w \in Syncers, Switch(w)
    PROVE  SyncInv'
<1>0. Sane /\ RowsSane /\ GoogleSane /\ JobsSane /\ TabsSane
    BY DEF SyncInv, Sane
<1>1. CASE ~(Held(w) /\ conn.next # NoAccount)
    BY <1>1, StopKeeps DEF Switch, Recording
<1>2. CASE Held(w) /\ conn.next # NoAccount
    <2>1. PICK left, a : left = job[w].left /\ a = job[w].next
        OBVIOUS
    <2>2. /\ job[w].phase = "FINISH" /\ a # NoAccount
          /\ conn' = [HandedBack(conn) EXCEPT !.status = "ACTIVE", !.key = a, !.grant = a,
                        !.next = NoAccount, !.cal = "primary", !.epoch = conn.epoch + 1,
                        !.leftover = HandedBack(conn).leftover + left, !.asked = clock + 1]
          /\ clock' = clock + 1 /\ counted' = counted + left
          /\ job' = [job EXCEPT ![w].phase = "FORGET"]
          /\ UNCHANGED <<links, shown, wanted, unmarked, tab, adrift, crowded, mishaps>>
        BY <1>2, <2>1 DEF Switch
    <2>3. job \in [Syncers -> JobRows] /\ job[w] \in JobRows /\ JobSane(job[w]) /\ left \in Nat
          /\ a \in Accounts /\ job[w].asked <= clock
        BY <1>0, <2>1, <2>2, JobTypes DEF JobsSane
    <2>4. /\ conn' \in Conns /\ conn'.id = conn.id /\ conn'.grant = a /\ conn'.key = a
          /\ conn'.asked = clock + 1 /\ conn'.status = "ACTIVE" /\ conn'.lease = NoSyncer
        <3>1. PICK c \in Conns : c = HandedBack(conn)
            BY <1>0, HandedRow
        <3>2. conn' = [c EXCEPT !.status = "ACTIVE", !.key = a, !.grant = a,
                        !.next = NoAccount, !.cal = "primary", !.epoch = conn.epoch + 1,
                        !.leftover = c.leftover + left, !.asked = clock + 1]
            BY <2>2, <3>1
        <3>3. c.leftover + left \in Nat /\ conn.epoch + 1 \in Nat /\ clock + 1 \in Nat
            BY <1>0, <2>3, ConnTypes DEF Conns
        <3>4. "primary" \in Names /\ "ACTIVE" \in Statuses
            BY DEF Names, Statuses
        <3>. QED  BY <1>0, <2>3, <3>1, <3>2, <3>3, <3>4, HandedRow DEF Conns
    <2>. DEFINE j == [job[w] EXCEPT !.phase = "FORGET"]
    <2>5. job' = [job EXCEPT ![w] = j]
        BY <2>2, <2>3
    <2>6. /\ j \in JobRows /\ j.phase = "FORGET" /\ j.id = job[w].id
          /\ j.asked = job[w].asked /\ j.links = job[w].links /\ j.plan = job[w].plan
          /\ j.under = job[w].under
        BY <2>3 DEF JobRows, Phases
    <2>. HIDE DEF j
    <2>7. JobSane(j)
        BY <2>2, <2>3, <2>6 DEF JobSane
    <2>8. clock' \in Nat /\ clock <= clock' /\ conn'.asked <= clock' /\ conn'.id \in Nat
          /\ conn.id <= conn'.id /\ j.asked <= clock'
        BY <1>0, <2>2, <2>3, <2>4, <2>6, ConnTypes, JobTypes
    <2>9. RowsSane'
        <3>1. conn.status # "NONE"
            BY <1>2, HeldRow
        <3>. QED  BY <1>0, <2>2, <2>4, <2>8, <3>1 DEF RowsSane
    <2>10. GoogleSane'
        <3>1. counted' \in Nat
            BY <1>0, <2>2, <2>3 DEF GoogleSane
        <3>. QED  BY <1>0, <2>2, <3>1, GoogleStays DEF GoogleSane
    <2>11. JobsSane' /\ job'[w] = j /\ \A v \in Syncers \ {w} : job'[v] = job[v]
        BY <1>0, <2>5, <2>6, <2>7, <2>8, JobMoves
    <2>12. TabsSane'
        BY <1>0, <2>2, <2>8, TabsStay
    <2>13. Sane'
        BY <2>9, <2>10, <2>11, <2>12 DEF Sane
    <2>14. CASE crowded
        BY <2>2, <2>13, <2>14, CrowdedKeeps
    <2>15. CASE ~crowded
        <3>1. /\ \A v \in Syncers \ {w} : ~Mid(v) /\ ~Mid(v)'
              /\ conn.id = job[w].id /\ left = Cardinality(Linked)
            BY <1>2, <2>1, <2>2, <2>11, <2>15, HeldRow DEF LeaseAlone, Mid
        <3>2. NoSyncer \notin Syncers
            BY SyncAssumption
        <3>3. ~Forgetting /\ Forgetting'
            BY <2>2, <2>6, <2>11, <3>1 DEF Forgetting, Mid
        <3>4. Alone'
            <4>1. ASSUME NEW v \in Syncers \ {w} PROVE MidAlone(v)'
                BY <3>1 DEF MidAlone
            <4>2. MidAlone(w)'
                BY <2>4, <2>6, <2>11, <3>1 DEF MidAlone
            <4>3. \A v \in Syncers : LeaseAlone(v)'
                BY <2>4, <3>2 DEF LeaseAlone
            <4>. QED  BY <4>1, <4>2, <4>3 DEF Alone
        <3>5. Owned'
            <4>1. \A b : OwnLinks(b)'
                BY <3>3 DEF OwnLinks
            <4>2. a # NoAccount
                BY <2>2
            <4>. QED  BY <2>4, <4>1, <4>2 DEF Owned, RowOwned, TabOwned, Owner, Unnamed
        <3>6. Linked' = Linked
            BY <2>2 DEF Linked
        <3>7. AllShown'
            <4>1. ASSUME NEW l \in Linked PROVE LinkedIsShown(l)'
                <5>1. LinkedIsShown(l) /\ ~Writing(l)
                    BY <2>2, <2>15, <3>1 DEF SyncInv, AllShown, Writing, Mid
                <5>. QED  BY <2>2, <2>4, <5>1 DEF LinkedIsShown
            <4>2. \A v \in Syncers : WriteShown(v)'
                BY <2>6, <2>11, <3>1 DEF WriteShown, Mid
            <4>. QED  BY <3>6, <4>1, <4>2 DEF AllShown
        <3>8. AllTold'
            <4>1. InHand = {}
                BY <2>2, <3>1 DEF InHand, Mid
            <4>2. Kept = Events
                BY <3>3 DEF Kept
            <4>3. Orphans' \subseteq Orphans \cup Events
                BY <2>2, <4>1, <4>2 DEF Orphans, ShownPlaces
            <4>4. Cardinality(Linked) <= left
                BY <1>0, <3>1, LinkedTypes
            <4>. QED  BY <1>0, <2>2, <2>3, <4>3, <4>4, UnlinkedTold DEF SyncInv
        <3>9. AllDone'
            <4>1. ~NothingDue'
                BY <1>0, <2>4, ConnTypes DEF NothingDue
            <4>. QED  BY <2>4, <3>2, <4>1 DEF AllDone, UpToDate
        <3>. QED  BY <2>13, <3>4, <3>5, <3>7, <3>8, <3>9 DEF SyncInv
    <2>. QED  BY <2>14, <2>15
<1>. QED  BY <1>1, <1>2

(* What is left when the row's links go, or there were none. *)
LEMMA ForgetKeeps ==
    ASSUME SyncInv, NEW w \in Syncers, Forget(w)
    PROVE  SyncInv'
<1>0. Sane /\ RowsSane /\ GoogleSane /\ JobsSane /\ TabsSane
    BY DEF SyncInv, Sane
<1>1. /\ job[w].phase = "FORGET" /\ job' = [job EXCEPT ![w] = Idle]
      /\ links' = (IF Exists(job[w].id) THEN Unlinked ELSE links)
      /\ UNCHANGED <<conn, shown, wanted, unmarked, tab, clock, adrift, crowded, counted, mishaps>>
    BY DEF Forget
<1>2. Idle.asked <= clock' /\ clock' \in Nat /\ clock <= clock' /\ conn'.id \in Nat
      /\ conn.id <= conn'.id
    BY <1>0, <1>1, IdleRow, ConnTypes
<1>3. JobsSane' /\ job'[w] = Idle /\ \A v \in Syncers \ {w} : job'[v] = job[v]
    BY <1>0, <1>1, <1>2, IdleRow, JobMoves
<1>4. RowsSane'
    BY <1>0, <1>1, UnlinkedRows DEF RowsSane
<1>5. GoogleSane'
    BY <1>0, <1>1, GoogleStays DEF GoogleSane
<1>6. TabsSane'
    BY <1>0, <1>1, <1>2, TabsStay
<1>7. Sane'
    BY <1>3, <1>4, <1>5, <1>6 DEF Sane
<1>8. CASE crowded
    BY <1>1, <1>7, <1>8, CrowdedKeeps
<1>9. CASE ~crowded
    <2>1. /\ \A v \in Syncers \ {w} : ~Mid(v) /\ ~Mid(v)'
          /\ conn.lease \in {w, NoSyncer} /\ Exists(job[w].id) /\ ~NothingDue
        BY <1>1, <1>3, <1>9 DEF SyncInv, Alone, MidAlone, AllDone, Mid, Exists
    <2>2. NoSyncer \notin Syncers /\ Idle.phase = "IDLE" /\ ~Mid(w)'
        BY <1>3, SyncAssumption, IdleRow DEF Mid
    <2>3. Linked' = {}
        BY <1>1, <2>1, UnlinkedRows DEF Linked
    <2>4. Alone'
        BY <1>1, <1>3, <2>1, <2>2 DEF Alone, MidAlone, LeaseAlone
    <2>5. Owned'
        <3>1. \A a : OwnLinks(a)'
            BY <2>3 DEF OwnLinks
        <3>. QED  BY <1>1, <1>9, <3>1, OwnedKept DEF SyncInv
    <2>6. AllShown'
        BY <2>1, <2>2, <2>3 DEF AllShown, WriteShown, Mid
    <2>7. AllTold'
        <3>1. Kept = {}
            BY <1>1 DEF Kept, Forgetting
        <3>2. InHand = {}
            BY <1>1, <2>1 DEF InHand, Mid
        <3>3. Orphans' \subseteq Orphans
            BY <1>1, <3>1, <3>2 DEF Orphans, ShownPlaces
        <3>4. counted' \in Nat /\ counted <= counted'
            BY <1>0, <1>1 DEF GoogleSane
        <3>. QED  BY <1>0, <1>1, <3>3, <3>4, StillTold DEF SyncInv
    <2>8. AllDone'
        <3>1. ~NothingDue'
            BY <1>1, <2>1 DEF NothingDue
        <3>2. \A v \in Syncers : UpToDate(v)'
            BY <1>1, <1>3, <2>1, <2>2 DEF UpToDate
        <3>. QED  BY <3>1, <3>2 DEF AllDone
    <2>. QED  BY <1>7, <2>4, <2>5, <2>6, <2>7, <2>8 DEF SyncInv
<1>. QED  BY <1>8, <1>9

LEMMA LeaveKeeps ==
    ASSUME SyncInv, NEW w \in Syncers, Leave(w)
    PROVE  SyncInv'
<1>0. Sane /\ RowsSane /\ GoogleSane /\ JobsSane /\ TabsSane
    BY DEF SyncInv, Sane
<1>1. CASE ~Held(w)
    BY <1>1, StopKeeps DEF Leave, Recording
<1>2. CASE Held(w)
    <2>1. /\ job[w].phase = "FINISH" /\ job' = [job EXCEPT ![w] = Idle]
          /\ UNCHANGED <<shown, wanted, unmarked, tab, clock, adrift, crowded, counted, mishaps>>
        BY <1>2 DEF Leave
    <2>2. \/ /\ job[w].left = 0 /\ conn' = NoConn(conn.id) /\ links' = Unlinked
          \/ /\ conn' = [HandedBack(conn) EXCEPT !.status = "CLEANUP_FAILED", !.grant = NoAccount]
             /\ links' = links
        BY <1>2 DEF Leave
    <2>3. conn.status \in {"ACTIVE", "DISCONNECTING"} /\ conn.lease = w
        BY <1>2, HeldRow
    <2>4. /\ conn' \in Conns /\ conn'.id = conn.id /\ conn'.grant = NoAccount
          /\ conn'.lease = NoSyncer /\ conn'.asked \in {conn.asked, 0}
          /\ \/ conn'.status = "NONE" /\ links' = Unlinked /\ job[w].left = 0
             \/ /\ conn'.status = "CLEANUP_FAILED" /\ links' = links
                /\ conn'.key = conn.key /\ conn'.cal = conn.cal
        <3>1. CASE conn' = NoConn(conn.id) /\ links' = Unlinked /\ job[w].left = 0
            BY <1>0, <3>1, ConnTypes, NoConnRow
        <3>2. CASE /\ conn' = [HandedBack(conn) EXCEPT !.status = "CLEANUP_FAILED", !.grant = NoAccount]
                   /\ links' = links
            <4>1. PICK c \in Conns : c = HandedBack(conn)
                BY <1>0, HandedRow
            <4>2. conn' = [c EXCEPT !.status = "CLEANUP_FAILED", !.grant = NoAccount]
                BY <3>2, <4>1
            <4>3. "CLEANUP_FAILED" \in Statuses
                BY DEF Statuses
            <4>. QED  BY <1>0, <3>2, <4>1, <4>2, <4>3, HandedRow DEF Conns
        <3>. QED  BY <2>2, <3>1, <3>2
    <2>5. Idle.asked <= clock' /\ clock' \in Nat /\ clock <= clock' /\ conn'.id \in Nat
          /\ conn.id <= conn'.id /\ conn'.asked <= clock'
        BY <1>0, <2>1, <2>4, IdleRow, ConnTypes
    <2>6. JobsSane' /\ job'[w] = Idle /\ \A v \in Syncers \ {w} : job'[v] = job[v]
        BY <1>0, <2>1, <2>5, IdleRow, JobMoves
    <2>7. RowsSane'
        BY <1>0, <2>3, <2>4, <2>5, UnlinkedRows DEF RowsSane
    <2>8. GoogleSane'
        BY <1>0, <2>1, GoogleStays DEF GoogleSane
    <2>9. TabsSane'
        BY <1>0, <2>1, <2>5, TabsStay
    <2>10. Sane'
        BY <2>6, <2>7, <2>8, <2>9 DEF Sane
    <2>11. CASE crowded
        BY <2>1, <2>10, <2>11, CrowdedKeeps
    <2>12. CASE ~crowded
        <3>1. /\ \A v \in Syncers \ {w} : ~Mid(v) /\ ~Mid(v)'
              /\ job[w].left = Cardinality(Linked)
            BY <1>2, <2>1, <2>6, <2>12, HeldRow DEF LeaseAlone, Mid
        <3>2. NoSyncer \notin Syncers /\ Idle.phase = "IDLE"
            BY SyncAssumption, IdleRow
        <3>3. links' = links
            <4>1. ASSUME job[w].left = 0 PROVE links = Unlinked
                <5>1. Linked = {}
                    BY <1>0, <3>1, <4>1, LinkedTypes, FS_EmptySet
                <5>2. \A l \in Lessons : links[l] = NoLink
                    BY <5>1 DEF Linked
                <5>. QED  BY <1>0, <5>2 DEF RowsSane, Unlinked
            <4>. QED  BY <2>4, <4>1
        <3>4. \A v \in Syncers : ~Mid(v)'
            BY <2>6, <3>1, <3>2 DEF Mid
        <3>5. JobsQuiet
            BY <2>1, <2>6, <3>2 DEF JobsQuiet, Recording
        <3>6. Alone'
            BY <2>4, <3>2, <3>4 DEF Alone, MidAlone, LeaseAlone
        <3>7. Owned'
            <4>1. \A a : OwnLinks(a) => OwnLinks(a)'
                BY <2>1, <2>4, <3>3, <3>5, OwnLinksStay
            <4>2. \A a : Owner(a) => Owner(a)'
                BY <2>4, <4>1 DEF Owner
            <4>3. RowOwned /\ \A t \in Tabs : TabOwned(t)
                BY <2>12 DEF SyncInv, Owned
            <4>4. RowOwned'
                BY <2>3, <2>4, <4>2, <4>3 DEF RowOwned, Unnamed
            <4>5. \A t \in Tabs : TabOwned(t)'
                BY <2>1, <2>3, <2>4, <4>2, <4>3 DEF TabOwned, Unnamed
            <4>. QED  BY <4>4, <4>5 DEF Owned
        <3>8. AllShown' /\ AllTold'
            <4>1. counted' \in Nat /\ counted <= counted'
                BY <1>0, <2>1 DEF GoogleSane
            <4>. QED  BY <1>0, <2>1, <2>4, <3>3, <3>5, <4>1, StillShown DEF SyncInv
        <3>9. AllDone'
            BY <2>4, <3>2 DEF AllDone, NothingDue, UpToDate
        <3>. QED  BY <2>10, <3>6, <3>7, <3>8, <3>9 DEF SyncInv
    <2>. QED  BY <2>11, <2>12
<1>. QED  BY <1>1, <1>2

(* A worker that dies before the record of its write. *)
LEMMA UnrecordedKeeps ==
    ASSUME SyncInv, NEW w \in Syncers, NEW cal, NEW place, place = Place(w, cal),
           \/ job[w].phase = "LINK" /\ cal = job[w].cal
           \/ job[w].phase = "UNLINK" /\ cal = job[w].links[job[w].lesson].cal,
           adrift' = adrift \cup {place}, job' = [job EXCEPT ![w] = Idle],
           mishaps' \in 0..MaxSyncFaults,
           UNCHANGED <<conn, links, shown, wanted, unmarked, tab, clock, crowded, counted>>
    PROVE  SyncInv'
<1>0. Sane /\ RowsSane /\ GoogleSane /\ JobsSane
    BY DEF SyncInv, Sane
<1>1. place \in Places
    BY <1>0, PlaceTypes
<1>2. RowsSane' /\ GoogleSane'
    BY <1>0, <1>1 DEF RowsSane, GoogleSane, ShownPlaces
<1>3. Mid(w) /\ job[w].phase # "FORGET"
    BY DEF Mid
<1>4. job'[w] = Idle /\ \A v \in Syncers \ {w} : job'[v] = job[v]
    BY <1>0 DEF JobsSane
<1>5. ASSUME ~crowded PROVE Owned' /\ AllShown' /\ AllTold'
    <2>1. /\ \A v \in Syncers \ {w} : ~Mid(v) /\ ~Mid(v)'
          /\ job[w].links = links /\ job[w].grant = conn.grant /\ job[w].id = conn.id
          /\ \A l \in Linked : links[l].by = conn.grant \/ EventOf(l) \in adrift
        BY <1>3, <1>4, <1>5, WriterFacts DEF Mid
    <2>2. ~Forgetting /\ ~Forgetting'
        BY <1>3, <1>4, <1>5, <2>1, IdleRow, WriterFacts DEF Forgetting, Mid
    <2>3. Linked' = Linked /\ Events' = Events /\ \A l \in Linked : EventOf(l)' = EventOf(l)
        BY DEF Linked, Events, EventOf
    <2>4. Owned'
        <3>1. \A a : OwnLinks(a) => OwnLinks(a)'
            BY <2>2, <2>3 DEF OwnLinks
        <3>. QED  BY <1>5, <3>1, OwnedKept DEF SyncInv
    <2>5. AllShown'
        <3>1. \A v \in Syncers : WriteShown(v)'
            BY <1>4, <2>1, IdleRow DEF WriteShown, Mid
        <3>2. ASSUME NEW l \in Linked PROVE LinkedIsShown(l)'
            <4>1. LinkedIsShown(l)
                BY <1>5 DEF SyncInv, AllShown
            <4>2. CASE Writing(l)
                <5>1. l = job[w].lesson
                    BY <2>1, <4>2 DEF Writing, Mid
                <5>2. links[l].cal = cal
                    BY <1>0, <2>1, <5>1, JobTypes DEF JobSane, Linked
                <5>3. EventOf(l) = place \/ EventOf(l) \in adrift
                    BY <2>1, <5>1, <5>2 DEF EventOf, Place
                <5>. QED  BY <2>3, <5>3 DEF LinkedIsShown, EventOf
            <4>3. CASE ~Writing(l)
                BY <2>3, <4>1, <4>3 DEF LinkedIsShown, EventOf
            <4>. QED  BY <4>2, <4>3
        <3>. QED  BY <2>3, <3>1, <3>2 DEF AllShown
    <2>6. AllTold'
        <3>1. InHand \subseteq {place}
            BY <2>1 DEF InHand, Mid, Place
        <3>2. Kept' = Kept
            BY <2>2, <2>3 DEF Kept
        <3>3. Orphans' \subseteq Orphans
            BY <3>1, <3>2 DEF Orphans, ShownPlaces
        <3>4. counted' \in Nat /\ counted <= counted'
            BY <1>0 DEF GoogleSane
        <3>. QED  BY <1>0, <3>3, <3>4, StillTold DEF SyncInv
    <2>. QED  BY <2>4, <2>5, <2>6
<1>. QED  BY <1>2, <1>3, <1>5, IdleRow, WriterStep

(* The links that outlive the switch of accounts are adrift, all of them. *)
LEMMA OutlivedKeeps ==
    ASSUME SyncInv, NEW w \in Syncers, job[w].phase = "FORGET",
           adrift' = (IF Exists(job[w].id) THEN adrift \cup Events ELSE adrift),
           job' = [job EXCEPT ![w] = Idle], mishaps' \in 0..MaxSyncFaults,
           UNCHANGED <<conn, links, shown, wanted, unmarked, tab, clock, crowded, counted>>
    PROVE  SyncInv'
<1>0. Sane /\ RowsSane /\ GoogleSane /\ JobsSane /\ TabsSane
    BY DEF SyncInv, Sane
<1>1. Idle.asked <= clock' /\ clock' \in Nat /\ clock <= clock' /\ conn'.id \in Nat
      /\ conn.id <= conn'.id
    BY <1>0, IdleRow, ConnTypes
<1>2. JobsSane' /\ job'[w] = Idle /\ \A v \in Syncers \ {w} : job'[v] = job[v]
    BY <1>0, <1>1, IdleRow, JobMoves
<1>3. GoogleSane'
    <2>1. Exists(job[w].id) => Events \subseteq Places
        <3>1. ASSUME Exists(job[w].id), NEW l \in Linked PROVE EventOf(l) \in Places
            BY <1>0, <3>1 DEF Exists, RowsSane, Whole, Linked, EventOf, Places
        <3>. QED  BY <3>1 DEF Events, EventOf
    <2>. QED  BY <1>0, <2>1 DEF GoogleSane, ShownPlaces
<1>4. Sane'
    <2>1. RowsSane'
        BY <1>0 DEF RowsSane
    <2>2. TabsSane'
        BY <1>0, <1>1, TabsStay
    <2>. QED  BY <1>2, <1>3, <2>1, <2>2 DEF Sane
<1>5. CASE crowded
    BY <1>4, <1>5, CrowdedKeeps
<1>6. CASE ~crowded
    <2>1. /\ \A v \in Syncers \ {w} : ~Mid(v) /\ ~Mid(v)'
          /\ conn.lease \in {w, NoSyncer} /\ Exists(job[w].id) /\ ~NothingDue
        BY <1>2, <1>6 DEF SyncInv, Alone, MidAlone, AllDone, Mid, Exists
    <2>2. NoSyncer \notin Syncers /\ Idle.phase = "IDLE" /\ ~Mid(w)'
        BY <1>2, SyncAssumption, IdleRow DEF Mid
    <2>3. Linked' = Linked /\ \A l \in Linked : EventOf(l)' = EventOf(l) /\ EventOf(l) \in adrift'
        BY <2>1 DEF Linked, Events, EventOf
    <2>4. Alone'
        BY <1>2, <2>1, <2>2 DEF Alone, MidAlone, LeaseAlone
    <2>5. Owned'
        <3>1. \A a : OwnLinks(a)'
            BY <2>3 DEF OwnLinks, EventOf
        <3>. QED  BY <1>6, <3>1, OwnedKept DEF SyncInv
    <2>6. AllShown'
        <3>1. \A l \in Linked' : LinkedIsShown(l)'
            BY <2>3 DEF LinkedIsShown, EventOf
        <3>. QED  BY <2>1, <2>2, <3>1 DEF AllShown, WriteShown, Mid
    <2>7. AllTold'
        <3>1. Kept = {} /\ InHand = {}
            BY <2>1 DEF Kept, Forgetting, InHand, Mid
        <3>2. adrift \subseteq adrift'
            OBVIOUS
        <3>3. Orphans' \subseteq Orphans
            BY <3>1, <3>2 DEF Orphans, ShownPlaces
        <3>4. counted' \in Nat /\ counted <= counted'
            BY <1>0 DEF GoogleSane
        <3>. QED  BY <1>0, <3>3, <3>4, StillTold DEF SyncInv
    <2>8. AllDone'
        <3>1. ~NothingDue'
            BY <2>1 DEF NothingDue
        <3>2. \A v \in Syncers : UpToDate(v)'
            BY <1>2, <1>6, <2>2 DEF UpToDate, SyncInv, AllDone
        <3>. QED  BY <3>1, <3>2 DEF AllDone
    <2>. QED  BY <1>4, <2>4, <2>5, <2>6, <2>7, <2>8 DEF SyncInv
<1>. QED  BY <1>5, <1>6

LEMMA DiesKeeps ==
    ASSUME SyncInv, NEW w \in Syncers, Dies(w)
    PROVE  SyncInv'
<1>0. Sane /\ RowsSane /\ GoogleSane /\ JobsSane /\ TabsSane
    BY DEF SyncInv, Sane
<1>1. /\ job' = [job EXCEPT ![w] = Idle]
      /\ UNCHANGED <<conn, links, shown, wanted, unmarked, tab, clock, crowded, counted>>
    BY DEF Dies
<1>2. mishaps' \in 0..MaxSyncFaults
    BY <1>0, CallTypes DEF Dies
<1>3. CASE job[w].phase \in {"LINK", "UNLINK"}
    <2>1. PICK cal, place :
            /\ place = Place(w, cal) /\ adrift' = adrift \cup {place}
            /\ \/ job[w].phase = "LINK" /\ cal = job[w].cal
               \/ job[w].phase = "UNLINK" /\ cal = job[w].links[job[w].lesson].cal
        BY <1>3 DEF Dies
    <2>. QED  BY <1>1, <1>2, <2>1, UnrecordedKeeps
<1>4. CASE job[w].phase = "FORGET"
    <2>1. adrift' = IF Exists(job[w].id) THEN adrift \cup Events ELSE adrift
        BY <1>4 DEF Dies
    <2>. QED  BY <1>1, <1>2, <1>4, <2>1, OutlivedKeeps
<1>5. CASE job[w].phase \notin {"LINK", "UNLINK", "FORGET"}
    <2>1. adrift' = adrift
        BY <1>5 DEF Dies
    <2>2. crowded \in BOOLEAN /\ conn' \in Conns /\ ~Recording(job[w])
        BY <1>0, <1>1, <1>5, ConnTypes DEF Recording, GoogleSane
    <2>. QED  BY <1>1, <1>2, <2>1, <2>2, StopsKeeps
<1>. QED  BY <1>3, <1>4, <1>5

-----------------------------------------------------------------------------
LEMMA StutterKeeps == ASSUME SyncInv, UNCHANGED syncVars PROVE SyncInv'
<1>1. Sane /\ RowsSane /\ GoogleSane /\ JobsSane /\ TabsSane
    BY DEF SyncInv, Sane
<1>2. clock' \in Nat /\ clock <= clock' /\ conn'.id \in Nat /\ conn.id <= conn'.id
    BY <1>1, ConnTypes DEF syncVars
<1>3. RowsSane'
    BY <1>1 DEF RowsSane, syncVars
<1>4. GoogleSane'
    BY <1>1 DEF GoogleSane, ShownPlaces, syncVars
<1>5. JobsSane'
    BY <1>1, <1>2, JobsStay DEF syncVars
<1>6. TabsSane'
    BY <1>1, <1>2, TabsStay DEF syncVars
<1>7. JobsQuiet
    BY DEF JobsQuiet, syncVars
<1>8. Owned'
    BY <1>7, StillOwned DEF SyncInv, syncVars
<1>9. Sane'
    BY <1>3, <1>4, <1>5, <1>6 DEF Sane
<1>. QED  BY <1>8, <1>9, RequestFrame DEF SyncInv, syncVars

LEMMA StepKeeps == ASSUME SyncInv, [SyncNext]_syncVars PROVE SyncInv'
<1>1. ASSUME NEW w \in Syncers, Sync(w) PROVE SyncInv'
    BY <1>1, ClaimKeeps, CheckKeeps, UnlinkKeeps, LinkKeeps, SyncedKeeps, SyncFailedKeeps,
       ReadKeeps, DeleteKeeps, PutKeeps DEF Sync
<1>2. ASSUME NEW w \in Syncers, Clean(w) PROVE SyncInv'
    BY <1>2, ClaimKeeps, EmptiedKeeps, CleanupFailedKeeps, LastKeeps, SwitchKeeps, ForgetKeeps,
       LeaveKeeps DEF Clean
<1>3. ASSUME NEW t \in Tabs, OfUser(t) PROVE SyncInv'
    BY <1>3, ArriveKeeps, LookKeeps, LookAgainKeeps, ConnectKeeps, UnverifiedKeeps, WaitKeeps,
       ReconnectKeeps, AskDisconnectKeeps, DisconnectKeeps, AskDismissKeeps, DismissKeeps,
       SetCalendarKeeps, AskCalendarKeeps, AskListKeeps, ListFailedKeeps DEF OfUser
<1>4. CASE MarkDirty \/ RequestSync \/ Lapse
    BY <1>4, MarkDirtyKeeps, RequestSyncKeeps, LapseKeeps
<1>. QED  BY <1>1, <1>2, <1>3, <1>4, DiesKeeps, ChangeKeeps, StutterKeeps DEF SyncNext

(* Every state the program reaches has the invariant, whatever the workers,  *)
(* the user and Google do, and in whatever order.                            *)
THEOREM SyncInvariant == SyncSpec => []SyncInv
<1>1. SyncInit => SyncInv
    BY Beginning
<1>2. SyncInv /\ [SyncNext]_syncVars => SyncInv'
    BY StepKeeps
<1>. QED  BY <1>1, <1>2, PTL DEF SyncSpec

(* The rows have their types, and no more rows, events or faults come to be  *)
(* than the model's bounds allow.                                            *)
THEOREM CalendarTypes == SyncSpec => []SyncTypeOK
<1>1. SyncInv => SyncTypeOK
    BY SaneTypes DEF SyncInv
<1>. QED  BY <1>1, SyncInvariant, PTL

(* The link table is what Google holds: an event it names is there with that *)
(* content and in the account whose grant the connection has - while there   *)
(* was one actor (crowded: a lapsed or freed lease, or another grant in the  *)
(* middle of a write), and for the events that are not adrift: of a write    *)
(* that was not recorded, or of an account that was left by a worker that    *)
(* died before it deleted the links, or whose grant could not be asked.      *)
THEOREM LinksAreHeld == SyncSpec => []LinksHold
<1>1. SyncInv => LinksHold
    BY OwnedLinksHold
<1>. QED  BY <1>1, SyncInvariant, PTL

(* The user is told of every event that no link leads to any more: the       *)
(* number told is never below what disconnects, other accounts, revoked      *)
(* grants and new rows have left in Google.                                  *)
THEOREM LeftIsTold == SyncSpec => []ToldOfWhatIsLeft
<1>1. SyncInv => ToldOfWhatIsLeft
    BY OrphansAreTold
<1>. QED  BY <1>1, SyncInvariant, PTL

(* An ACTIVE connection that no sync is asked for shows every lesson as it   *)
(* is, in the chosen calendar: no change is lost while a worker syncs.       *)
THEOREM ChangesAreSynced == SyncSpec => []NoLostChange
<1>1. SyncInv => NoLostChange
    BY NothingIsLost
<1>. QED  BY <1>1, SyncInvariant, PTL
=============================================================================
