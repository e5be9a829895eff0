----------------------------- MODULE MCTrialPurge -----------------------------
(***************************************************************************)
(* Small instances of TrialPurge for TLC.  Its run holds two scenes,       *)
(* chosen in the initial state, so that their sizes add up: one process at *)
(* a time beside an admin who changes the trial, and several processes     *)
(* within one cycle of a center that does not pay.                         *)
(***************************************************************************)
EXTENDS TrialPurge, TLC

CONSTANTS r1, r2, w1, w2

VARIABLE scene

Symmetric == Permutations(Workers) \cup Permutations(Recipients)

OneAtATime ==
    \A v, w \in Workers : pass'[v].phase # "IDLE" /\ pass'[w].phase # "IDLE" => v = w

(* One copy of the last notice is tried, or claimed, twice. *)
OneRetry ==
    /\ \A r \in Recipients : notices'["FIRST"][r].attempts <= 1
    /\ Cardinality({r \in Recipients : notices'["FINAL"][r].attempts > 1}) <= 1

MCInit ==
    /\ Init /\ scene \in {"ALONE", "TOGETHER"}
    /\ scene = "TOGETHER" => center.ends = 0

MCNext ==
    /\ UNCHANGED scene
    /\ \/ scene = "ALONE" /\ Next /\ OneAtATime
       \/ /\ scene = "TOGETHER"
          /\ \/ \E w \in Workers : Work(w) \/ PassFails(w)
             \/ Tick
          /\ OneRetry

MCSpec == MCInit /\ [][MCNext]_<<vars, scene>>

(* Several processes beside an admin, for the instances that find a flaw. *)
MCFreeSpec ==
    /\ Init /\ scene = "FREE"
    /\ [][Next /\ UNCHANGED scene]_<<vars, scene>>
=============================================================================
