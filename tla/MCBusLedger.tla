------------------------------ MODULE MCBusLedger ------------------------------
(***************************************************************************)
(* Small instances of the ledger.  Two processes p and q share the actor   *)
(* tag "a"; r is the process of actor "b".                                 *)
(***************************************************************************)
EXTENDS BusLedger, TLC

CONSTANTS p, q, r

Offer(type, status, assigned, lease, payload) ==
    [type |-> type, status |-> status, assigned |-> assigned, lease |-> lease, payload |-> payload]

MCTags == [c \in Clients |-> IF c = r THEN {"b"} ELSE {"a"}]

\* Beyond every horizon the clock of a run can reach.
Far == MaxTime + MaxLease + 1

\* Fencing and retries: a claim, a transition whose lease is past the horizon of
\* the first moments, a release and two results of one COMPLETE (a CANCEL passes the
\* same fence as they do); what races is the fence, the lookup of an earlier
\* COMPLETE, the generation and the insert.
FencingOffers ==
    {Offer("CREATE", "OPEN", "a", NoLease, "x"),
     Offer("CLAIM", "CLAIMED", NoOne, 3, "x"),
     Offer("PROGRESS", "RUNNING", NoOne, 4, "x"),
     Offer("RELEASE", "OPEN", NoOne, NoLease, "x"),
     Offer("COMPLETE", "DONE", NoOne, NoLease, "x"),
     Offer("COMPLETE", "DONE", NoOne, NoLease, "y")}
None == {}

\* Rollout: the same rules with fewer words, a note that claims to close the
\* item, and an old binary that writes claims and transitions next to the
\* current one.
RolloutOffers ==
    {Offer("CREATE", "OPEN", "ALL", NoLease, "x"),
     Offer("CLAIM", "CLAIMED", NoOne, 3, "x"),
     Offer("PROGRESS", "RUNNING", NoOne, 2, "x"),
     Offer("NOTE", "DONE", "b", Far, "x")}
OldClaims ==
    {Offer("CLAIM", "CLAIMED", NoOne, 3, "x"),
     Offer("PROGRESS", "RUNNING", NoOne, Far, "x")}

Swap == Permutations({p, q})
=============================================================================
