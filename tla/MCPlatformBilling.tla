-------------------------- MODULE MCPlatformBilling --------------------------
(***************************************************************************)
(* Values for the instances of PlatformBilling that TLC checks: two        *)
(* tariffs of different prices, and symmetry of the rows, receipts and     *)
(* keys, which the code tells apart only by identity.                      *)
(***************************************************************************)
EXTENDS PlatformBilling, TLC

CONSTANTS basic, pro

MCPrice == [p \in Plans |-> IF p = basic THEN 1 ELSE 2]

RowSymmetry ==
    Permutations(Subs) \cup Permutations(Claims) \cup Permutations(ClickTxs)
        \cup Permutations(PaymeTxs) \cup Permutations(Requests)

(***************************************************************************)
(* One run for payments and receipts: both providers with three invoices   *)
(* (two when the next month has come) but a request at a time, or receipts *)
(* with two requests at once and Click's payments beside them.             *)
(***************************************************************************)
Providers ==
    /\ now = MaxTime => \E s \in Subs : sub[s].status = "FREE"
    /\ \A c \in Claims : claim[c].status = "FREE"
    /\ \A r, q \in Requests :
         /\ req[r].for # "CARD"
         /\ req[r] # Nothing /\ req[q] # Nothing => r = q

ClickAndCards ==
    /\ now = 0
    /\ \A r \in Requests : req[r].for # "PAYME"
    /\ \A x \in PaymeTxs : order[x].sub = NoSub
    /\ \A s \in Subs : sub[s].provider # "PAYME"
    /\ \E s \in Subs : sub[s].status = "FREE"

MCNext == Next /\ (Providers' \/ ClickAndCards')

MCSpec == Init /\ [][MCNext]_vars

(***************************************************************************)
(* The renewal run: an invoice that was paid and a second one, so that a   *)
(* payment can fall between a pass's scan and its commit.  The payer uses  *)
(* a provider or sends a receipt, not both; the admin records payments in  *)
(* either case.  Nothing is asked of the pass, so its fairness is that of  *)
(* FairSpec.                                                               *)
(***************************************************************************)
OneWayToPay ==
    \/ \A c \in Claims : claim[c].status = "FREE"
    \/ \A x \in PaymeTxs : order[x].sub = NoSub

MCRenewal ==
    /\ Init
    /\ [][Next /\ OneWayToPay']_vars
    /\ \A w \in Passes : WF_vars(RenewalScan(w)) /\ WF_vars(RenewalCommit(w))
=============================================================================
