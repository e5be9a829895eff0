---------------------------- MODULE MCNoticeOutbox ----------------------------
(***************************************************************************)
(* Small instances of NoticeOutbox for TLC.  Two messages are handled by   *)
(* two workers as long as nothing fails and the admin retries nothing;     *)
(* crashes, stalls and retries are explored with one message.              *)
(***************************************************************************)
EXTENDS NoticeOutbox

CONSTANTS n1, n2, w1, w2

TwoOfOne == faults' > 0 => outbox'[n2].status = "NONE"

NoRetryOfTwo ==
    \/ outbox[n2].status = "NONE"
    \/ \A n \in Notices : outbox[n].status = "FAILED" => outbox'[n].status = "FAILED"

MCNext == Next /\ TwoOfOne /\ NoRetryOfTwo

MCSpec ==
    /\ Init /\ [][MCNext]_vars
    /\ Progress
    /\ \A w \in Workers : WF_vars(KickByTimer(w))
=============================================================================
