------------------------------ MODULE FencedWork ------------------------------
(***************************************************************************)
(* What the ledger of src/bus_server.py promises about each work item: a   *)
(* lease with a fencing generation.  From its first fenced claim on, only  *)
(* the owner of the current generation acts, only while its lease lives,   *)
(* no lease reaches further than MaxLease ahead, and whoever claims next   *)
(* waits for the lease to end unless it is the owner itself.               *)
(***************************************************************************)
EXTENDS Naturals

CONSTANTS Works, Clients, OldBinary, MaxLease, MaxTime

VARIABLES clock,   \* the time
          gen,     \* gen[w]: the current generation, 0 before the first claim
          owner,   \* owner[w]: the process the generation was issued to
          actor,   \* actor[w]: the process whose event last changed w
          expiry   \* expiry[w]: when the hold on w ends, 0 when there is none

vars == <<clock, gen, owner, actor, expiry>>

Init ==
    /\ clock = 1
    /\ gen = [w \in Works |-> 0]
    /\ owner = [w \in Works |-> OldBinary]
    /\ actor = [w \in Works |-> OldBinary]
    /\ expiry = [w \in Works |-> 0]

Tick ==
    /\ clock < MaxTime
    /\ clock' = clock + 1
    /\ UNCHANGED <<gen, owner, actor, expiry>>

\* The event of process p on w leaves a hold that ends at e at the latest
\* MaxLease from now, or none.
Act(w, p) ==
    /\ actor' = [actor EXCEPT ![w] = p]
    /\ \E e \in 0..(clock + MaxLease) : expiry' = [expiry EXCEPT ![w] = e]
    /\ UNCHANGED clock

Claim(w, p) ==
    /\ gen[w] = 0 \/ expiry[w] <= clock \/ owner[w] = p
    /\ gen' = [gen EXCEPT ![w] = @ + 1]
    /\ owner' = [owner EXCEPT ![w] = p]
    /\ Act(w, p)

Transition(w, p) ==
    /\ gen[w] > 0
    /\ owner[w] = p
    /\ expiry[w] > clock
    /\ Act(w, p)
    /\ UNCHANGED <<gen, owner>>

\* Before its first fenced claim an item follows the old rules: nothing is
\* promised except that nothing else changes.
Unfenced(w, p) ==
    /\ gen[w] = 0
    /\ actor' = [actor EXCEPT ![w] = p]
    /\ \A v \in Works \ {w} : expiry'[v] = expiry[v]
    /\ expiry' \in [Works -> Nat]
    /\ UNCHANGED <<clock, gen, owner>>

Next ==
    \/ Tick
    \/ \E w \in Works, p \in Clients : Claim(w, p) \/ Transition(w, p)
    \/ \E w \in Works, p \in Clients \cup {OldBinary} : Unfenced(w, p)

Spec == Init /\ [][Next]_vars
=============================================================================
